--------------------------- MODULE RecoveryProofs ---------------------------
(* What ApiRecovery keeps for every number of jobs, calls, instances and    *)
(* failures: the checkpoints agree with the history, a worker's own result  *)
(* is never touched, and a call is worked on by one instance at a time.     *)
EXTENDS ApiRecovery, TLAPS

JobStates == {"absent", "queued", "running", "worker_lost", "completed", "failed", "cancelled"}
AtCall == {"picked", "downloading", "decided", "published"}
OwnItem == [kind |-> "success", note |-> NoNotes]

(* The variables TypeOK leaves out.                                         *)
Types ==
  /\ TypeOK
  /\ status \in [Jobs -> JobStates] /\ executing \subseteq Jobs
  /\ merged \in [Calls -> Notes]

(* An instance works on a call only under the lock, and the call's row is   *)
(* pending until the instance itself acknowledges it.                       *)
Serial ==
  \A i \in Instances :
    /\ at[i] # "idle" => lock = i
    /\ call[i] # NoCall => at[i] \in AtCall
    /\ at[i] \in AtCall => call[i] \in Calls /\ row[call[i]] = "pending"

(* Failures are counted from the checkpoint on, and a row that is tried     *)
(* again has one to spare.                                                  *)
Retries ==
  /\ \A c \in Calls : c \notin ordered => row[c] = "none" /\ failures[c] = 0
  /\ \A c \in Calls : row[c] = "pending" => failures[c] < MaxFailures
  /\ \A i \in Instances : plan[i].state = "pending" => plan[i].failures < MaxFailures

(* What was published and is not acknowledged yet.                          *)
Published ==
  \A i \in Instances : at[i] = "published" /\ plan[i].state \in {"recovered", "failed"}
    => merged[call[i]] = plan[i].state

(* task_done belongs to an execution that ended, of a job handed out before.*)
Ended ==
  /\ \A j \in executing : status[j] \notin {"absent", "queued"}
  /\ \A j \in Jobs : result[j] # "none" => j \notin executing /\ status[j] \notin {"absent", "queued"}
  /\ \A j \in saved : result[j] # "none"
  /\ \A j \in Jobs : status[j] = "completed" => j \in saved /\ result[j] = "success"

(* A success in the history was written by its worker, which writes once.   *)
WrittenOnce ==
  \A j \in Jobs : item[j].kind = "success" =>
    /\ j \notin executing /\ status[j] \notin {"absent", "queued"}
    /\ result[j] # "none" => j \in saved

OwnResult ==
  \A j \in saved \ (unsaved \cup dropped) : result[j] = "success" => item[j] = OwnItem

Shown(c) ==
  \/ item[JobOf[c]].note[c] = "recovered"
  \/ JobOf[c] \in dropped \cup own

PublishedIsShown ==
  \A i \in Instances : at[i] = "published" /\ plan[i].state = "recovered" => Shown(call[i])

(* What a step of the queue alone leaves as it is.                          *)
QueueOnly ==
  UNCHANGED <<result, saved, ordered, item, rowVars, threadVars, ghosts, faults>>

IInv ==
  /\ Types /\ Serial /\ Retries
  /\ Published /\ AcknowledgedIsPublished
  /\ Ended /\ WrittenOnce /\ OwnResult
  /\ PublishedIsShown /\ RecoveredIsShown

(* The types: a row is only ever given a state and a count that were planned. *)
LEMMA TypesStep == IInv /\ [Next]_vars => Types'
<1> SUFFICES ASSUME IInv, [Next]_vars PROVE Types'
  OBVIOUS
<1> USE RecoveryAssumption
<1>1. ASSUME NEW j \in Jobs, Queue!Submit(j), QueueOnly PROVE Types'
  BY <1>1 DEF Types, TypeOK, Serial, Retries, RowStates, Notes, JobStates, AtCall,
     NoItem, NoNotes, IInv, Queue!Submit, Queue!Move, QueueOnly, rowVars, threadVars,
     ghosts
<1>2. ASSUME NEW j \in Jobs, Queue!HandOut(j), QueueOnly PROVE Types'
  BY <1>2 DEF Types, TypeOK, Serial, Retries, RowStates, Notes, JobStates, AtCall,
     NoItem, NoNotes, IInv, Queue!HandOut, Queue!Move, QueueOnly, rowVars, threadVars,
     ghosts
<1>3. ASSUME NEW j \in Jobs, Queue!Cancel({j}), QueueOnly PROVE Types'
  BY <1>3 DEF Types, TypeOK, Serial, Retries, RowStates, Notes, JobStates, AtCall,
     NoItem, NoNotes, IInv, Queue!Cancel, Queue!Move, QueueOnly, rowVars, threadVars,
     ghosts
<1>4. ASSUME NEW j \in Jobs, Queue!Lose({j}), QueueOnly PROVE Types'
  BY <1>4 DEF Types, TypeOK, Serial, Retries, RowStates, Notes, JobStates, AtCall,
     NoItem, NoNotes, IInv, Queue!Lose, Queue!Move, QueueOnly, rowVars, threadVars,
     ghosts
<1>5. ASSUME NEW c \in Calls, ProviderAccepts(c) PROVE Types'
  BY <1>5 DEF Types, TypeOK, Serial, Retries, RowStates, Notes, JobStates, AtCall,
     NoItem, NoNotes, IInv, ProviderAccepts, threadVars, ghosts
<1>6. ASSUME NEW c \in Calls, ObserverFails(c) PROVE Types'
  BY <1>6 DEF Types, TypeOK, Serial, Retries, RowStates, Notes, JobStates, AtCall,
     NoItem, NoNotes, IInv, ObserverFails, rowVars, threadVars, ghosts
<1>7. ASSUME NEW c \in Calls, SevenDaysPass(c) PROVE Types'
  BY <1>7 DEF Types, TypeOK, Serial, Retries, RowStates, Notes, JobStates, AtCall,
     NoItem, NoNotes, IInv, SevenDaysPass, jobVars, threadVars, ghosts
<1>8. ASSUME NEW j \in Jobs, NEW S \in SUBSET Jobs, SaveHistory(j, S) PROVE Types'
  BY <1>8 DEF Types, TypeOK, Serial, Retries, RowStates, Notes, JobStates, AtCall,
     NoItem, NoNotes, IInv, SaveHistory, rowVars, threadVars
<1>9. ASSUME NEW j \in Jobs, SaveFails(j) PROVE Types'
  BY <1>9 DEF Types, TypeOK, Serial, Retries, RowStates, Notes, JobStates, AtCall,
     NoItem, NoNotes, IInv, SaveFails, rowVars, threadVars
<1>10. ASSUME NEW j \in Jobs, RecordResult(j) PROVE Types'
  BY <1>10 DEF Types, TypeOK, Serial, Retries, RowStates, Notes, JobStates, AtCall,
     NoItem, NoNotes, IInv, RecordResult, Queue!Record, Queue!Move, rowVars,
     threadVars, ghosts
<1>11. ASSUME NEW j \in Jobs, DiesInTaskDone(j) PROVE Types'
  BY <1>11 DEF Types, TypeOK, Serial, Retries, RowStates, Notes, JobStates, AtCall,
     NoItem, NoNotes, IInv, DiesInTaskDone, rowVars, threadVars, ghosts
<1>12. ASSUME NEW j \in Jobs, NEW r \in {"none", "success", "error"}, ExecutionEnds(j, r)
      PROVE Types'
  BY <1>12 DEF Types, TypeOK, Serial, Retries, RowStates, Notes, JobStates, AtCall,
     NoItem, NoNotes, IInv, ExecutionEnds, Queue!ExecutionEnds, rowVars, threadVars,
     ghosts
<1>13. ASSUME NEW S \in SUBSET Jobs, DeleteHistory(S) PROVE Types'
  BY <1>13 DEF Types, TypeOK, Serial, Retries, RowStates, Notes, JobStates, AtCall,
     NoItem, NoNotes, IInv, DeleteHistory, Removed, jobVars, rowVars, threadVars
<1>14. ASSUME NEW i \in Instances, Enter(i) PROVE Types'
  BY <1>14 DEF Types, TypeOK, Serial, Retries, RowStates, Notes, JobStates, AtCall,
     NoItem, NoNotes, IInv, Enter, Goes, jobVars, ghosts
<1>15. ASSUME NEW i \in Instances, PickNothing(i) PROVE Types'
  BY <1>15 DEF Types, TypeOK, Serial, Retries, RowStates, Notes, JobStates, AtCall,
     NoItem, NoNotes, IInv, PickNothing, Releases, Goes, NoPlan, jobVars, rowVars,
     ghosts
<1>16. ASSUME NEW i \in Instances, QueryRefused(i) PROVE Types'
  BY <1>16 DEF Types, TypeOK, Serial, Retries, RowStates, Notes, JobStates, AtCall,
     NoItem, NoNotes, IInv, QueryRefused, Decides, Goes, jobVars, rowVars, ghosts
<1>17. ASSUME NEW i \in Instances, AttemptFails(i) PROVE Types'
  BY <1>17 DEF Types, TypeOK, Serial, Retries, RowStates, Notes, JobStates, AtCall,
     NoItem, NoNotes, IInv, AttemptFails, GivesUp, Decides, Goes, jobVars, rowVars,
     ghosts
<1>18. ASSUME NEW i \in Instances, Downloaded(i) PROVE Types'
  BY <1>18 DEF Types, TypeOK, Serial, Retries, RowStates, Notes, JobStates, AtCall,
     NoItem, NoNotes, IInv, Downloaded, Decides, Goes, jobVars, rowVars, ghosts
<1>19. ASSUME NEW i \in Instances, Publish(i) PROVE Types'
  <2>1. /\ at[i] = "decided" /\ plan[i].state # "ignored" /\ Goes(i, "published")
        /\ UNCHANGED <<jobVars, rowVars, lock, call, unsaved, dropped, own, faults>>
    BY <1>19 DEF Publish
  <2>2. CASE /\ MayMerge(JobOf[call[i]]) /\ UNCHANGED plan
             /\ item' = [item EXCEPT ![JobOf[call[i]]] = MergedItem(JobOf[call[i]], call[i], plan[i].state)]
             /\ merged' = [merged EXCEPT ![call[i]] = plan[i].state]
    BY <2>1, <2>2 DEF Types, TypeOK, Serial, Retries, RowStates, Notes, JobStates,
       AtCall, NoItem, NoNotes, IInv, MayMerge, MergedItem, Unpublished, Goes,
       jobVars, rowVars
  <2>3. CASE /\ plan' = [plan EXCEPT ![i] = [state |-> "ignored", failures |-> plan[i].failures]]
             /\ UNCHANGED <<item, merged>>
    BY <2>1, <2>3 DEF Types, TypeOK, Serial, Retries, RowStates, Notes, JobStates,
       AtCall, NoItem, NoNotes, IInv, MayMerge, MergedItem, Unpublished, Goes,
       jobVars, rowVars
  <2> QED
    BY <1>19, <2>2, <2>3 DEF Publish, Unpublished
<1>20. ASSUME NEW i \in Instances, Acknowledge(i) PROVE Types'
  BY <1>20 DEF Types, TypeOK, Serial, Retries, RowStates, Notes, JobStates, AtCall,
     NoItem, NoNotes, IInv, Acknowledge, Releases, Goes, NoPlan, jobVars, ghosts
<1>21. ASSUME NEW i \in Instances, NEW c \in Calls, Pick(i, c) PROVE Types'
  <2>1. /\ at[i] = "entered" /\ Recoverable(c) /\ call' = [call EXCEPT ![i] = c]
        /\ UNCHANGED <<jobVars, item, rowVars, lock, ghosts, faults>>
    BY <1>21 DEF Pick
  <2>2. CASE Goes(i, "picked") /\ UNCHANGED plan
    BY <2>1, <2>2 DEF Types, TypeOK, Serial, Retries, RowStates, Notes, JobStates,
       AtCall, NoItem, NoNotes, IInv, Recoverable, Decides, Goes, jobVars, rowVars,
       ghosts
  <2>3. CASE Decides(i, "failed", failures[c])
    BY <2>1, <2>3 DEF Types, TypeOK, Serial, Retries, RowStates, Notes, JobStates,
       AtCall, NoItem, NoNotes, IInv, Recoverable, Decides, Goes, jobVars, rowVars,
       ghosts
  <2> QED
    BY <1>21, <2>2, <2>3 DEF Pick
<1>22. ASSUME NEW i \in Instances, NEW o \in Outcomes, QueryAnswered(i, o) PROVE Types'
  <2>1. at[i] = "picked" /\ UNCHANGED <<jobVars, item, rowVars, lock, call, ghosts, faults>>
    BY <1>22 DEF QueryAnswered
  <2>2. CASE Goes(i, "downloading") /\ UNCHANGED plan
    BY <2>1, <2>2 DEF Types, TypeOK, Serial, Retries, RowStates, Notes, JobStates,
       AtCall, NoItem, NoNotes, IInv, Decides, Goes, jobVars, rowVars, ghosts
  <2>3. CASE Decides(i, "ignored", failures[call[i]])
    BY <2>1, <2>3 DEF Types, TypeOK, Serial, Retries, RowStates, Notes, JobStates,
       AtCall, NoItem, NoNotes, IInv, Decides, Goes, jobVars, rowVars, ghosts
  <2>4. CASE Decides(i, "failed", failures[call[i]])
    BY <2>1, <2>4 DEF Types, TypeOK, Serial, Retries, RowStates, Notes, JobStates,
       AtCall, NoItem, NoNotes, IInv, Decides, Goes, jobVars, rowVars, ghosts
  <2>5. CASE Decides(i, "pending", 0)
    BY <2>1, <2>5 DEF Types, TypeOK, Serial, Retries, RowStates, Notes, JobStates,
       AtCall, NoItem, NoNotes, IInv, Decides, Goes, jobVars, rowVars, ghosts
  <2> QED
    BY <1>22, <2>2, <2>3, <2>4, <2>5 DEF QueryAnswered, Outcomes
<1>23. ASSUME NEW i \in Instances, PublishRaises(i) PROVE Types'
  BY <1>23 DEF Types, TypeOK, Serial, Retries, RowStates, Notes, JobStates, AtCall,
     NoItem, NoNotes, IInv, PublishRaises, Releases, Goes, NoPlan, jobVars, rowVars,
     ghosts
<1>24. ASSUME NEW i \in Instances, InstanceDies(i) PROVE Types'
  BY <1>24 DEF Types, TypeOK, Serial, Retries, RowStates, Notes, JobStates, AtCall,
     NoItem, NoNotes, IInv, InstanceDies, Goes, NoPlan, jobVars, rowVars, ghosts
<1>25. CASE UNCHANGED vars
  BY <1>25 DEF Types, TypeOK, Serial, Retries, RowStates, Notes, JobStates, AtCall,
     NoItem, NoNotes, IInv, vars, jobVars, rowVars, threadVars, ghosts
<1> QED
  BY <1>1, <1>2, <1>3, <1>4, <1>5, <1>6, <1>7, <1>8, <1>9, <1>10, <1>11, <1>12, <1>13,
     <1>14, <1>15, <1>16, <1>17, <1>18, <1>19, <1>20, <1>21, <1>22, <1>23, <1>24,
     <1>25 DEF Next, QueueMoves, QueueOnly, Recovers

(* The lock: whoever works on a call holds it, and the row waits.           *)
LEMMA SerialStep == IInv /\ [Next]_vars => Serial'
<1> SUFFICES ASSUME IInv, [Next]_vars PROVE Serial'
  OBVIOUS
<1> USE RecoveryAssumption
<1>1. ASSUME NEW c \in Calls, ProviderAccepts(c) PROVE Serial'
  BY <1>1 DEF Types, TypeOK, Serial, AtCall, RowStates, Notes, IInv, ProviderAccepts,
     threadVars, ghosts
<1>2. ASSUME NEW i \in Instances, Enter(i) PROVE Serial'
  BY <1>2 DEF Types, TypeOK, Serial, AtCall, RowStates, Notes, IInv, Enter,
     Goes, jobVars, ghosts
<1>3. ASSUME NEW i \in Instances, PickNothing(i) PROVE Serial'
  BY <1>3 DEF Types, TypeOK, Serial, AtCall, RowStates, Notes, IInv, PickNothing,
     Releases, Goes, NoPlan, jobVars, rowVars, ghosts
<1>4. ASSUME NEW i \in Instances, QueryRefused(i) PROVE Serial'
  BY <1>4 DEF Types, TypeOK, Serial, AtCall, RowStates, Notes, IInv, QueryRefused,
     Decides, Goes, jobVars, rowVars, ghosts
<1>5. ASSUME NEW i \in Instances, AttemptFails(i) PROVE Serial'
  BY <1>5 DEF Types, TypeOK, Serial, AtCall, RowStates, Notes, IInv, AttemptFails,
     GivesUp, Decides, Goes, jobVars, rowVars, ghosts
<1>6. ASSUME NEW i \in Instances, Downloaded(i) PROVE Serial'
  BY <1>6 DEF Types, TypeOK, Serial, AtCall, RowStates, Notes, IInv, Downloaded,
     Decides, Goes, jobVars, rowVars, ghosts
<1>7. ASSUME NEW i \in Instances, Publish(i) PROVE Serial'
  BY <1>7 DEF Types, TypeOK, Serial, AtCall, RowStates, Notes, IInv, Publish,
     MayMerge, MergedItem, Unpublished, Goes, jobVars, rowVars
<1>8. ASSUME NEW i \in Instances, Acknowledge(i) PROVE Serial'
  BY <1>8 DEF Types, TypeOK, Serial, AtCall, RowStates, Notes, IInv, Acknowledge,
     Releases, Goes, NoPlan, jobVars, ghosts
<1>9. ASSUME NEW i \in Instances, NEW c \in Calls, Pick(i, c) PROVE Serial'
  BY <1>9 DEF Types, TypeOK, Serial, AtCall, RowStates, Notes, IInv, Pick,
     Recoverable, Decides, Goes, jobVars, rowVars, ghosts
<1>10. ASSUME NEW i \in Instances, NEW o \in Outcomes, QueryAnswered(i, o) PROVE Serial'
  BY <1>10 DEF Types, TypeOK, Serial, AtCall, RowStates, Notes, IInv, QueryAnswered,
     Decides, Goes, jobVars, rowVars, ghosts
<1>11. ASSUME NEW i \in Instances, PublishRaises(i) PROVE Serial'
  BY <1>11 DEF Types, TypeOK, Serial, AtCall, RowStates, Notes, IInv, PublishRaises,
     Releases, Goes, NoPlan, jobVars, rowVars, ghosts
<1>12. ASSUME NEW i \in Instances, InstanceDies(i) PROVE Serial'
  BY <1>12 DEF Types, TypeOK, Serial, AtCall, RowStates, Notes, IInv, InstanceDies,
     Goes, NoPlan, jobVars, rowVars, ghosts
<1>13. CASE UNCHANGED <<row, lock, at, call>>
  BY <1>13 DEF Types, TypeOK, Serial, AtCall, RowStates, Notes, IInv
<1> QED
  BY <1>1, <1>2, <1>3, <1>4, <1>5, <1>6, <1>7, <1>8, <1>9, <1>10, <1>11, <1>12, <1>13
     DEF Next, QueueMoves, QueueOnly, Recovers, vars, jobVars, rowVars, threadVars,
     ghosts, ObserverFails, SevenDaysPass, SaveHistory, SaveFails, RecordResult,
     DiesInTaskDone, ExecutionEnds, DeleteHistory

(* The counted failures stay below the limit while a row is pending.        *)
LEMMA RetriesStep == IInv /\ [Next]_vars => Retries'
<1> SUFFICES ASSUME IInv, [Next]_vars PROVE Retries'
  OBVIOUS
<1> USE RecoveryAssumption
<1>1. ASSUME NEW c \in Calls, ProviderAccepts(c) PROVE Retries'
  BY <1>1 DEF Types, TypeOK, Serial, Retries, AtCall, RowStates, Notes, IInv,
     ProviderAccepts, threadVars, ghosts
<1>2. ASSUME NEW c \in Calls, ObserverFails(c) PROVE Retries'
  BY <1>2 DEF Types, TypeOK, Serial, Retries, AtCall, RowStates, Notes, IInv,
     ObserverFails, rowVars, threadVars, ghosts
<1>3. ASSUME NEW i \in Instances, Enter(i) PROVE Retries'
  BY <1>3 DEF Types, TypeOK, Serial, Retries, AtCall, RowStates, Notes, IInv, Enter,
     Goes, jobVars, ghosts
<1>4. ASSUME NEW i \in Instances, PickNothing(i) PROVE Retries'
  BY <1>4 DEF Types, TypeOK, Serial, Retries, AtCall, RowStates, Notes, IInv,
     PickNothing, Releases, Goes, NoPlan, jobVars, rowVars, ghosts
<1>5. ASSUME NEW i \in Instances, QueryRefused(i) PROVE Retries'
  BY <1>5 DEF Types, TypeOK, Serial, Retries, AtCall, RowStates, Notes, IInv,
     QueryRefused, Decides, Goes, jobVars, rowVars, ghosts
<1>6. ASSUME NEW i \in Instances, AttemptFails(i) PROVE Retries'
  BY <1>6 DEF Types, TypeOK, Serial, Retries, AtCall, RowStates, Notes, IInv,
     AttemptFails, GivesUp, Decides, Goes, jobVars, rowVars, ghosts
<1>7. ASSUME NEW i \in Instances, Downloaded(i) PROVE Retries'
  BY <1>7 DEF Types, TypeOK, Serial, Retries, AtCall, RowStates, Notes, IInv,
     Downloaded, Decides, Goes, jobVars, rowVars, ghosts
<1>8. ASSUME NEW i \in Instances, Publish(i) PROVE Retries'
  <2>1. /\ at[i] = "decided" /\ plan[i].state # "ignored" /\ Goes(i, "published")
        /\ UNCHANGED <<jobVars, rowVars, lock, call, unsaved, dropped, own, faults>>
    BY <1>8 DEF Publish
  <2>2. CASE /\ MayMerge(JobOf[call[i]]) /\ UNCHANGED plan
             /\ item' = [item EXCEPT ![JobOf[call[i]]] = MergedItem(JobOf[call[i]], call[i], plan[i].state)]
             /\ merged' = [merged EXCEPT ![call[i]] = plan[i].state]
    BY <2>1, <2>2 DEF Types, TypeOK, Serial, Retries, AtCall, RowStates, Notes, IInv,
       MayMerge, MergedItem, Unpublished, Goes, jobVars, rowVars
  <2>3. CASE /\ plan' = [plan EXCEPT ![i] = [state |-> "ignored", failures |-> plan[i].failures]]
             /\ UNCHANGED <<item, merged>>
    BY <2>1, <2>3 DEF Types, TypeOK, Serial, Retries, AtCall, RowStates, Notes, IInv,
       MayMerge, MergedItem, Unpublished, Goes, jobVars, rowVars
  <2> QED
    BY <1>8, <2>2, <2>3 DEF Publish, Unpublished
<1>9. ASSUME NEW i \in Instances, Acknowledge(i) PROVE Retries'
  BY <1>9 DEF Types, TypeOK, Serial, Retries, AtCall, RowStates, Notes, IInv,
     Acknowledge, Releases, Goes, NoPlan, jobVars, ghosts
<1>10. ASSUME NEW i \in Instances, NEW c \in Calls, Pick(i, c) PROVE Retries'
  BY <1>10 DEF Types, TypeOK, Serial, Retries, AtCall, RowStates, Notes, IInv, Pick,
     Recoverable, Decides, Goes, jobVars, rowVars, ghosts
<1>11. ASSUME NEW i \in Instances, NEW o \in Outcomes, QueryAnswered(i, o) PROVE Retries'
  <2>1. at[i] = "picked" /\ UNCHANGED <<jobVars, item, rowVars, lock, call, ghosts, faults>>
    BY <1>11 DEF QueryAnswered
  <2>2. CASE Goes(i, "downloading") /\ UNCHANGED plan
    BY <2>1, <2>2 DEF Types, TypeOK, Serial, Retries, AtCall, RowStates, Notes, IInv,
       Decides, Goes, jobVars, rowVars, ghosts
  <2>3. CASE Decides(i, "ignored", failures[call[i]])
    BY <2>1, <2>3 DEF Types, TypeOK, Serial, Retries, AtCall, RowStates, Notes, IInv,
       Decides, Goes, jobVars, rowVars, ghosts
  <2>4. CASE Decides(i, "failed", failures[call[i]])
    BY <2>1, <2>4 DEF Types, TypeOK, Serial, Retries, AtCall, RowStates, Notes, IInv,
       Decides, Goes, jobVars, rowVars, ghosts
  <2>5. CASE Decides(i, "pending", 0)
    BY <2>1, <2>5 DEF Types, TypeOK, Serial, Retries, AtCall, RowStates, Notes, IInv,
       Decides, Goes, jobVars, rowVars, ghosts
  <2> QED
    BY <1>11, <2>2, <2>3, <2>4, <2>5 DEF QueryAnswered, Outcomes
<1>12. ASSUME NEW i \in Instances, PublishRaises(i) PROVE Retries'
  BY <1>12 DEF Types, TypeOK, Serial, Retries, AtCall, RowStates, Notes, IInv,
     PublishRaises, Releases, Goes, NoPlan, jobVars, rowVars, ghosts
<1>13. ASSUME NEW i \in Instances, InstanceDies(i) PROVE Retries'
  BY <1>13 DEF Types, TypeOK, Serial, Retries, AtCall, RowStates, Notes, IInv,
     InstanceDies, Goes, NoPlan, jobVars, rowVars, ghosts
<1>14. CASE UNCHANGED <<ordered, row, failures, plan>>
  BY <1>14 DEF Types, TypeOK, Serial, Retries, AtCall, RowStates, Notes, IInv
<1> QED
  BY <1>1, <1>2, <1>3, <1>4, <1>5, <1>6, <1>7, <1>8, <1>9, <1>10, <1>11, <1>12, <1>13,
     <1>14 DEF Next, QueueMoves, QueueOnly, Recovers, vars, jobVars, rowVars,
     threadVars, ghosts, SevenDaysPass, SaveHistory, SaveFails, RecordResult,
     DiesInTaskDone, ExecutionEnds, DeleteHistory

(* What is acknowledged was published by the same instance.                 *)
LEMMA PublishedStep == IInv /\ [Next]_vars => (Published /\ AcknowledgedIsPublished)'
<1> SUFFICES ASSUME IInv, [Next]_vars PROVE (Published /\ AcknowledgedIsPublished)'
  OBVIOUS
<1> USE RecoveryAssumption
<1>1. ASSUME NEW c \in Calls, ProviderAccepts(c)
      PROVE (Published /\ AcknowledgedIsPublished)'
  BY <1>1 DEF Types, TypeOK, Serial, Retries, Published, AcknowledgedIsPublished,
     AtCall, RowStates, Notes, IInv, ProviderAccepts, threadVars, ghosts
<1>2. ASSUME NEW i \in Instances, Enter(i) PROVE (Published /\ AcknowledgedIsPublished)'
  BY <1>2 DEF Types, TypeOK, Serial, Retries, Published, AcknowledgedIsPublished,
     AtCall, RowStates, Notes, IInv, Enter, Goes, jobVars, ghosts
<1>3. ASSUME NEW i \in Instances, PickNothing(i)
      PROVE (Published /\ AcknowledgedIsPublished)'
  BY <1>3 DEF Types, TypeOK, Serial, Retries, Published, AcknowledgedIsPublished,
     AtCall, RowStates, Notes, IInv, PickNothing, Releases, Goes, NoPlan, jobVars,
     rowVars, ghosts
<1>4. ASSUME NEW i \in Instances, QueryRefused(i)
      PROVE (Published /\ AcknowledgedIsPublished)'
  BY <1>4 DEF Types, TypeOK, Serial, Retries, Published, AcknowledgedIsPublished,
     AtCall, RowStates, Notes, IInv, QueryRefused, Decides, Goes, jobVars, rowVars,
     ghosts
<1>5. ASSUME NEW i \in Instances, AttemptFails(i)
      PROVE (Published /\ AcknowledgedIsPublished)'
  BY <1>5 DEF Types, TypeOK, Serial, Retries, Published, AcknowledgedIsPublished,
     AtCall, RowStates, Notes, IInv, AttemptFails, GivesUp, Decides, Goes, jobVars,
     rowVars, ghosts
<1>6. ASSUME NEW i \in Instances, Downloaded(i)
      PROVE (Published /\ AcknowledgedIsPublished)'
  BY <1>6 DEF Types, TypeOK, Serial, Retries, Published, AcknowledgedIsPublished,
     AtCall, RowStates, Notes, IInv, Downloaded, Decides, Goes, jobVars, rowVars,
     ghosts
<1>7. ASSUME NEW i \in Instances, Publish(i) PROVE (Published /\ AcknowledgedIsPublished)'
  <2>1. /\ at[i] = "decided" /\ plan[i].state # "ignored" /\ Goes(i, "published")
        /\ UNCHANGED <<jobVars, rowVars, lock, call, unsaved, dropped, own, faults>>
    BY <1>7 DEF Publish
  <2>2. CASE /\ MayMerge(JobOf[call[i]]) /\ UNCHANGED plan
             /\ item' = [item EXCEPT ![JobOf[call[i]]] = MergedItem(JobOf[call[i]], call[i], plan[i].state)]
             /\ merged' = [merged EXCEPT ![call[i]] = plan[i].state]
    <3>1. /\ call[i] \in Calls /\ JobOf[call[i]] \in Jobs /\ row[call[i]] = "pending"
          /\ \A k \in Instances : at[k] # "idle" => k = i
      BY <2>1 DEF IInv, Types, TypeOK, Serial, AtCall
    <3>2. \A k \in Instances : at'[k] = "published" => k = i
      BY <2>1, <3>1 DEF IInv, Types, TypeOK, Goes
    <3>3. \A c \in Calls : merged'[c] = IF c = call[i] THEN plan[i].state ELSE merged[c]
      BY <2>2, <3>1 DEF IInv, Types
    <3> QED
      BY <2>1, <2>2, <3>1, <3>2, <3>3
      DEF IInv, Types, TypeOK, Published, AcknowledgedIsPublished, rowVars
  <2>3. CASE /\ plan' = [plan EXCEPT ![i] = [state |-> "ignored", failures |-> plan[i].failures]]
             /\ UNCHANGED <<item, merged>>
    BY <2>1, <2>3 DEF Types, TypeOK, Serial, Retries, Published,
       AcknowledgedIsPublished, AtCall, RowStates, Notes, IInv, MayMerge, MergedItem,
       Unpublished, Goes, jobVars, rowVars
  <2> QED
    BY <1>7, <2>2, <2>3 DEF Publish, Unpublished
<1>8. ASSUME NEW i \in Instances, Acknowledge(i)
      PROVE (Published /\ AcknowledgedIsPublished)'
  BY <1>8 DEF Types, TypeOK, Serial, Retries, Published, AcknowledgedIsPublished,
     AtCall, RowStates, Notes, IInv, Acknowledge, Releases, Goes, NoPlan, jobVars,
     ghosts
<1>9. ASSUME NEW i \in Instances, NEW c \in Calls, Pick(i, c)
      PROVE (Published /\ AcknowledgedIsPublished)'
  BY <1>9 DEF Types, TypeOK, Serial, Retries, Published, AcknowledgedIsPublished,
     AtCall, RowStates, Notes, IInv, Pick, Recoverable, Decides, Goes, jobVars,
     rowVars, ghosts
<1>10. ASSUME NEW i \in Instances, NEW o \in Outcomes, QueryAnswered(i, o)
      PROVE (Published /\ AcknowledgedIsPublished)'
  <2>1. at[i] = "picked" /\ UNCHANGED <<jobVars, item, rowVars, lock, call, ghosts, faults>>
    BY <1>10 DEF QueryAnswered
  <2>2. CASE Goes(i, "downloading") /\ UNCHANGED plan
    BY <2>1, <2>2 DEF Types, TypeOK, Serial, Retries, Published,
       AcknowledgedIsPublished, AtCall, RowStates, Notes, IInv, Decides, Goes,
       jobVars, rowVars, ghosts
  <2>3. CASE Decides(i, "ignored", failures[call[i]])
    BY <2>1, <2>3 DEF Types, TypeOK, Serial, Retries, Published,
       AcknowledgedIsPublished, AtCall, RowStates, Notes, IInv, Decides, Goes,
       jobVars, rowVars, ghosts
  <2>4. CASE Decides(i, "failed", failures[call[i]])
    BY <2>1, <2>4 DEF Types, TypeOK, Serial, Retries, Published,
       AcknowledgedIsPublished, AtCall, RowStates, Notes, IInv, Decides, Goes,
       jobVars, rowVars, ghosts
  <2>5. CASE Decides(i, "pending", 0)
    BY <2>1, <2>5 DEF Types, TypeOK, Serial, Retries, Published,
       AcknowledgedIsPublished, AtCall, RowStates, Notes, IInv, Decides, Goes,
       jobVars, rowVars, ghosts
  <2> QED
    BY <1>10, <2>2, <2>3, <2>4, <2>5 DEF QueryAnswered, Outcomes
<1>11. ASSUME NEW i \in Instances, PublishRaises(i)
      PROVE (Published /\ AcknowledgedIsPublished)'
  BY <1>11 DEF Types, TypeOK, Serial, Retries, Published, AcknowledgedIsPublished,
     AtCall, RowStates, Notes, IInv, PublishRaises, Releases, Goes, NoPlan, jobVars,
     rowVars, ghosts
<1>12. ASSUME NEW i \in Instances, InstanceDies(i)
      PROVE (Published /\ AcknowledgedIsPublished)'
  BY <1>12 DEF Types, TypeOK, Serial, Retries, Published, AcknowledgedIsPublished,
     AtCall, RowStates, Notes, IInv, InstanceDies, Goes, NoPlan, jobVars, rowVars,
     ghosts
<1>13. CASE UNCHANGED <<row, at, call, plan, merged>>
  BY <1>13 DEF Types, TypeOK, Serial, Retries, Published, AcknowledgedIsPublished,
     AtCall, RowStates, Notes, IInv
<1> QED
  BY <1>1, <1>2, <1>3, <1>4, <1>5, <1>6, <1>7, <1>8, <1>9, <1>10, <1>11, <1>12, <1>13
     DEF Next, QueueMoves, QueueOnly, Recovers, vars, jobVars, rowVars, threadVars,
     ghosts, ObserverFails, SevenDaysPass, SaveHistory, SaveFails, RecordResult,
     DiesInTaskDone, ExecutionEnds, DeleteHistory

(* task_done follows the end of the execution and precedes completion.      *)
LEMMA EndedStep == IInv /\ [Next]_vars => Ended'
<1> SUFFICES ASSUME IInv, [Next]_vars PROVE Ended'
  OBVIOUS
<1> USE RecoveryAssumption
<1>1. ASSUME NEW j \in Jobs, Queue!Submit(j), QueueOnly PROVE Ended'
  BY <1>1 DEF Types, TypeOK, Ended, JobStates, IInv, Queue!Submit, Queue!Move,
     QueueOnly, rowVars, threadVars, ghosts
<1>2. ASSUME NEW j \in Jobs, Queue!HandOut(j), QueueOnly PROVE Ended'
  BY <1>2 DEF Types, TypeOK, Ended, JobStates, IInv, Queue!HandOut, Queue!Move,
     QueueOnly, rowVars, threadVars, ghosts
<1>3. ASSUME NEW j \in Jobs, Queue!Cancel({j}), QueueOnly PROVE Ended'
  BY <1>3 DEF Types, TypeOK, Ended, JobStates, IInv, Queue!Cancel, Queue!Move,
     QueueOnly, rowVars, threadVars, ghosts
<1>4. ASSUME NEW j \in Jobs, Queue!Lose({j}), QueueOnly PROVE Ended'
  BY <1>4 DEF Types, TypeOK, Ended, JobStates, IInv, Queue!Lose, Queue!Move,
     QueueOnly, rowVars, threadVars, ghosts
<1>5. ASSUME NEW j \in Jobs, NEW S \in SUBSET Jobs, SaveHistory(j, S) PROVE Ended'
  BY <1>5 DEF Types, TypeOK, Ended, JobStates, IInv, SaveHistory, rowVars, threadVars
<1>6. ASSUME NEW j \in Jobs, SaveFails(j) PROVE Ended'
  BY <1>6 DEF Types, TypeOK, Ended, JobStates, IInv, SaveFails, rowVars, threadVars
<1>7. ASSUME NEW j \in Jobs, RecordResult(j) PROVE Ended'
  BY <1>7 DEF Types, TypeOK, Ended, JobStates, IInv, RecordResult, Queue!Record,
     Queue!Move, rowVars, threadVars, ghosts
<1>8. ASSUME NEW j \in Jobs, DiesInTaskDone(j) PROVE Ended'
  BY <1>8 DEF Types, TypeOK, Ended, JobStates, IInv, DiesInTaskDone, rowVars,
     threadVars, ghosts
<1>9. ASSUME NEW j \in Jobs, NEW r \in {"none", "success", "error"}, ExecutionEnds(j, r)
      PROVE Ended'
  BY <1>9 DEF Types, TypeOK, Ended, JobStates, IInv, ExecutionEnds,
     Queue!ExecutionEnds, rowVars, threadVars, ghosts
<1>10. CASE UNCHANGED <<status, executing, result, saved>>
  BY <1>10 DEF Types, TypeOK, Ended, JobStates, IInv
<1> QED
  BY <1>1, <1>2, <1>3, <1>4, <1>5, <1>6, <1>7, <1>8, <1>9, <1>10 DEF Next, QueueMoves,
     QueueOnly, Recovers, vars, jobVars, rowVars, threadVars, ghosts, ProviderAccepts,
     ObserverFails, SevenDaysPass, DeleteHistory, Enter, PickNothing, QueryRefused,
     AttemptFails, Downloaded, Publish, Acknowledge, Pick, QueryAnswered,
     PublishRaises, InstanceDies

(* A worker writes its history entry once.                                  *)
LEMMA WrittenStep == IInv /\ [Next]_vars => WrittenOnce'
<1> SUFFICES ASSUME IInv, [Next]_vars PROVE WrittenOnce'
  OBVIOUS
<1> USE RecoveryAssumption
<1>1. ASSUME NEW j \in Jobs, Queue!Submit(j), QueueOnly PROVE WrittenOnce'
  BY <1>1 DEF Types, TypeOK, Ended, WrittenOnce, JobStates, Serial, AtCall, NoItem,
     IInv, Queue!Submit, Queue!Move, QueueOnly, rowVars, threadVars, ghosts
<1>2. ASSUME NEW j \in Jobs, Queue!HandOut(j), QueueOnly PROVE WrittenOnce'
  BY <1>2 DEF Types, TypeOK, Ended, WrittenOnce, JobStates, Serial, AtCall, NoItem,
     IInv, Queue!HandOut, Queue!Move, QueueOnly, rowVars, threadVars, ghosts
<1>3. ASSUME NEW j \in Jobs, Queue!Cancel({j}), QueueOnly PROVE WrittenOnce'
  BY <1>3 DEF Types, TypeOK, Ended, WrittenOnce, JobStates, Serial, AtCall, NoItem,
     IInv, Queue!Cancel, Queue!Move, QueueOnly, rowVars, threadVars, ghosts
<1>4. ASSUME NEW j \in Jobs, Queue!Lose({j}), QueueOnly PROVE WrittenOnce'
  BY <1>4 DEF Types, TypeOK, Ended, WrittenOnce, JobStates, Serial, AtCall, NoItem,
     IInv, Queue!Lose, Queue!Move, QueueOnly, rowVars, threadVars, ghosts
<1>5. ASSUME NEW j \in Jobs, NEW S \in SUBSET Jobs, SaveHistory(j, S) PROVE WrittenOnce'
  BY <1>5 DEF Types, TypeOK, Ended, WrittenOnce, JobStates, Serial, AtCall, NoItem,
     IInv, SaveHistory, rowVars, threadVars
<1>6. ASSUME NEW j \in Jobs, SaveFails(j) PROVE WrittenOnce'
  BY <1>6 DEF Types, TypeOK, Ended, WrittenOnce, JobStates, Serial, AtCall, NoItem,
     IInv, SaveFails, rowVars, threadVars
<1>7. ASSUME NEW j \in Jobs, RecordResult(j) PROVE WrittenOnce'
  BY <1>7 DEF Types, TypeOK, Ended, WrittenOnce, JobStates, Serial, AtCall, NoItem,
     IInv, RecordResult, Queue!Record, Queue!Move, rowVars, threadVars, ghosts
<1>8. ASSUME NEW j \in Jobs, DiesInTaskDone(j) PROVE WrittenOnce'
  BY <1>8 DEF Types, TypeOK, Ended, WrittenOnce, JobStates, Serial, AtCall, NoItem,
     IInv, DiesInTaskDone, rowVars, threadVars, ghosts
<1>9. ASSUME NEW j \in Jobs, NEW r \in {"none", "success", "error"}, ExecutionEnds(j, r)
      PROVE WrittenOnce'
  BY <1>9 DEF Types, TypeOK, Ended, WrittenOnce, JobStates, Serial, AtCall, NoItem,
     IInv, ExecutionEnds, Queue!ExecutionEnds, rowVars, threadVars, ghosts
<1>10. ASSUME NEW S \in SUBSET Jobs, DeleteHistory(S) PROVE WrittenOnce'
  BY <1>10 DEF Types, TypeOK, Ended, WrittenOnce, JobStates, Serial, AtCall, NoItem,
     IInv, DeleteHistory, Removed, jobVars, rowVars, threadVars
<1>11. ASSUME NEW i \in Instances, Publish(i) PROVE WrittenOnce'
  <2>1. /\ at[i] = "decided" /\ plan[i].state # "ignored" /\ Goes(i, "published")
        /\ UNCHANGED <<jobVars, rowVars, lock, call, unsaved, dropped, own, faults>>
    BY <1>11 DEF Publish
  <2>2. CASE /\ MayMerge(JobOf[call[i]]) /\ UNCHANGED plan
             /\ item' = [item EXCEPT ![JobOf[call[i]]] = MergedItem(JobOf[call[i]], call[i], plan[i].state)]
             /\ merged' = [merged EXCEPT ![call[i]] = plan[i].state]
    BY <2>1, <2>2 DEF Types, TypeOK, Ended, WrittenOnce, JobStates, Serial, AtCall,
       NoItem, IInv, MayMerge, MergedItem, Unpublished, Goes, jobVars, rowVars
  <2>3. CASE /\ plan' = [plan EXCEPT ![i] = [state |-> "ignored", failures |-> plan[i].failures]]
             /\ UNCHANGED <<item, merged>>
    BY <2>1, <2>3 DEF Types, TypeOK, Ended, WrittenOnce, JobStates, Serial, AtCall,
       NoItem, IInv, MayMerge, MergedItem, Unpublished, Goes, jobVars, rowVars
  <2> QED
    BY <1>11, <2>2, <2>3 DEF Publish, Unpublished
<1>12. CASE UNCHANGED <<status, executing, result, saved, item>>
  BY <1>12 DEF Types, TypeOK, Ended, WrittenOnce, JobStates, Serial, AtCall, NoItem,
     IInv
<1> QED
  BY <1>1, <1>2, <1>3, <1>4, <1>5, <1>6, <1>7, <1>8, <1>9, <1>10, <1>11, <1>12 DEF
     Next, QueueMoves, QueueOnly, Recovers, vars, jobVars, rowVars, threadVars,
     ghosts, ProviderAccepts, ObserverFails, SevenDaysPass, Enter, PickNothing,
     QueryRefused, AttemptFails, Downloaded, Acknowledge, Pick, QueryAnswered,
     PublishRaises, InstanceDies

(* The entry of a saved success is the worker's own.                        *)
LEMMA OwnStep == IInv /\ [Next]_vars => OwnResult'
<1> SUFFICES ASSUME IInv, [Next]_vars PROVE OwnResult'
  OBVIOUS
<1> USE RecoveryAssumption
<1>1. ASSUME NEW j \in Jobs, NEW S \in SUBSET Jobs, SaveHistory(j, S) PROVE OwnResult'
  BY <1>1 DEF Types, TypeOK, Ended, OwnResult, OwnItem, JobStates, Serial, AtCall,
     IInv, SaveHistory, rowVars, threadVars
<1>2. ASSUME NEW j \in Jobs, SaveFails(j) PROVE OwnResult'
  BY <1>2 DEF Types, TypeOK, Ended, OwnResult, OwnItem, JobStates, Serial, AtCall,
     IInv, SaveFails, rowVars, threadVars
<1>3. ASSUME NEW j \in Jobs, DiesInTaskDone(j) PROVE OwnResult'
  BY <1>3 DEF Types, TypeOK, Ended, OwnResult, OwnItem, JobStates, Serial, AtCall,
     IInv, DiesInTaskDone, rowVars, threadVars, ghosts
<1>4. ASSUME NEW j \in Jobs, NEW r \in {"none", "success", "error"}, ExecutionEnds(j, r)
      PROVE OwnResult'
  BY <1>4 DEF Types, TypeOK, Ended, OwnResult, OwnItem, JobStates, Serial, AtCall,
     IInv, ExecutionEnds, Queue!ExecutionEnds, rowVars, threadVars, ghosts
<1>5. ASSUME NEW S \in SUBSET Jobs, DeleteHistory(S) PROVE OwnResult'
  BY <1>5 DEF Types, TypeOK, Ended, OwnResult, OwnItem, JobStates, Serial, AtCall,
     IInv, DeleteHistory, Removed, jobVars, rowVars, threadVars
<1>6. ASSUME NEW i \in Instances, Publish(i) PROVE OwnResult'
  BY <1>6 DEF Types, TypeOK, Ended, OwnResult, OwnItem, JobStates, Serial, AtCall,
     IInv, Publish, MayMerge, MergedItem, Unpublished, Goes, jobVars, rowVars
<1>7. CASE UNCHANGED <<result, saved, item, unsaved, dropped>>
  BY <1>7 DEF Types, TypeOK, Ended, OwnResult, OwnItem, JobStates, Serial, AtCall, IInv
<1> QED
  BY <1>1, <1>2, <1>3, <1>4, <1>5, <1>6, <1>7 DEF Next, QueueMoves, QueueOnly,
     Recovers, vars, jobVars, rowVars, threadVars, ghosts, ProviderAccepts,
     ObserverFails, SevenDaysPass, RecordResult, Enter, PickNothing, QueryRefused,
     AttemptFails, Downloaded, Acknowledge, Pick, QueryAnswered, PublishRaises,
     InstanceDies

(* A recovered call is shown from its publication on.                       *)
LEMMA ShownStep == IInv /\ [Next]_vars => (PublishedIsShown /\ RecoveredIsShown)'
<1> SUFFICES ASSUME IInv, [Next]_vars PROVE (PublishedIsShown /\ RecoveredIsShown)'
  OBVIOUS
<1> USE RecoveryAssumption
<1>1. ASSUME NEW c \in Calls, ProviderAccepts(c)
      PROVE (PublishedIsShown /\ RecoveredIsShown)'
  BY <1>1 DEF Types, TypeOK, Serial, PublishedIsShown, RecoveredIsShown, Shown,
     AtCall, NoItem, NoNotes, RowStates, Notes, IInv, ProviderAccepts, threadVars,
     ghosts
<1>2. ASSUME NEW j \in Jobs, NEW S \in SUBSET Jobs, SaveHistory(j, S)
      PROVE (PublishedIsShown /\ RecoveredIsShown)'
  BY <1>2 DEF Types, TypeOK, Serial, PublishedIsShown, RecoveredIsShown, Shown,
     AtCall, NoItem, NoNotes, RowStates, Notes, IInv, SaveHistory, rowVars, threadVars
<1>3. ASSUME NEW S \in SUBSET Jobs, DeleteHistory(S)
      PROVE (PublishedIsShown /\ RecoveredIsShown)'
  BY <1>3 DEF Types, TypeOK, Serial, PublishedIsShown, RecoveredIsShown, Shown,
     AtCall, NoItem, NoNotes, RowStates, Notes, IInv, DeleteHistory, Removed, jobVars,
     rowVars, threadVars
<1>4. ASSUME NEW i \in Instances, Enter(i) PROVE (PublishedIsShown /\ RecoveredIsShown)'
  BY <1>4 DEF Types, TypeOK, Serial, PublishedIsShown, RecoveredIsShown, Shown,
     AtCall, NoItem, NoNotes, RowStates, Notes, IInv, Enter, Goes, jobVars,
     ghosts
<1>5. ASSUME NEW i \in Instances, PickNothing(i)
      PROVE (PublishedIsShown /\ RecoveredIsShown)'
  BY <1>5 DEF Types, TypeOK, Serial, PublishedIsShown, RecoveredIsShown, Shown,
     AtCall, NoItem, NoNotes, RowStates, Notes, IInv, PickNothing, Releases, Goes,
     NoPlan, jobVars, rowVars, ghosts
<1>6. ASSUME NEW i \in Instances, QueryRefused(i)
      PROVE (PublishedIsShown /\ RecoveredIsShown)'
  BY <1>6 DEF Types, TypeOK, Serial, PublishedIsShown, RecoveredIsShown, Shown,
     AtCall, NoItem, NoNotes, RowStates, Notes, IInv, QueryRefused, Decides, Goes,
     jobVars, rowVars, ghosts
<1>7. ASSUME NEW i \in Instances, AttemptFails(i)
      PROVE (PublishedIsShown /\ RecoveredIsShown)'
  BY <1>7 DEF Types, TypeOK, Serial, PublishedIsShown, RecoveredIsShown, Shown,
     AtCall, NoItem, NoNotes, RowStates, Notes, IInv, AttemptFails, GivesUp, Decides,
     Goes, jobVars, rowVars, ghosts
<1>8. ASSUME NEW i \in Instances, Downloaded(i)
      PROVE (PublishedIsShown /\ RecoveredIsShown)'
  BY <1>8 DEF Types, TypeOK, Serial, PublishedIsShown, RecoveredIsShown, Shown,
     AtCall, NoItem, NoNotes, RowStates, Notes, IInv, Downloaded, Decides, Goes,
     jobVars, rowVars, ghosts
<1>9. ASSUME NEW i \in Instances, Publish(i) PROVE (PublishedIsShown /\ RecoveredIsShown)'
  <2>1. /\ at[i] = "decided" /\ plan[i].state # "ignored" /\ Goes(i, "published")
        /\ UNCHANGED <<jobVars, rowVars, lock, call, unsaved, dropped, own, faults>>
    BY <1>9 DEF Publish
  <2>2. CASE /\ MayMerge(JobOf[call[i]]) /\ UNCHANGED plan
             /\ item' = [item EXCEPT ![JobOf[call[i]]] = MergedItem(JobOf[call[i]], call[i], plan[i].state)]
             /\ merged' = [merged EXCEPT ![call[i]] = plan[i].state]
    <3>1. /\ call[i] \in Calls /\ JobOf[call[i]] \in Jobs /\ row[call[i]] = "pending"
          /\ \A k \in Instances : at[k] # "idle" => k = i
      BY <2>1 DEF IInv, Types, TypeOK, Serial, AtCall
    <3>2. \A k \in Instances : at'[k] = "published" => k = i
      BY <2>1, <3>1 DEF IInv, Types, TypeOK, Goes
    <3>3. /\ item'[JobOf[call[i]]].note[call[i]] = plan[i].state
          /\ \A c \in Calls : c # call[i] => item'[JobOf[c]].note[c] = item[JobOf[c]].note[c]
      <4>1. item[JobOf[call[i]]].note \in [Calls -> Notes]
        BY <3>1 DEF IInv, Types, TypeOK
      <4>2. item'[JobOf[call[i]]].note = [item[JobOf[call[i]]].note EXCEPT ![call[i]] = plan[i].state]
        BY <2>2, <3>1 DEF IInv, Types, TypeOK, MergedItem
      <4>3. ASSUME NEW c \in Calls, c # call[i]
          PROVE item'[JobOf[c]].note[c] = item[JobOf[c]].note[c]
        <5>1. CASE JobOf[c] = JobOf[call[i]]
          BY <3>1, <4>1, <4>2, <4>3, <5>1
        <5>2. CASE JobOf[c] # JobOf[call[i]]
          BY <2>2, <3>1, <5>2 DEF IInv, Types, TypeOK
        <5> QED
          BY <5>1, <5>2
      <4> QED
        BY <3>1, <4>1, <4>2, <4>3
    <3>4. PublishedIsShown'
      BY <2>1, <2>2, <3>1, <3>2, <3>3 DEF IInv, PublishedIsShown, Shown
    <3>5. RecoveredIsShown'
      BY <2>1, <2>2, <3>1, <3>3 DEF IInv, RecoveredIsShown, jobVars, rowVars
    <3> QED
      BY <3>4, <3>5
  <2>3. CASE /\ plan' = [plan EXCEPT ![i] = [state |-> "ignored", failures |-> plan[i].failures]]
             /\ UNCHANGED <<item, merged>>
    BY <2>1, <2>3 DEF Types, TypeOK, Serial, PublishedIsShown, RecoveredIsShown,
       Shown, AtCall, NoItem, NoNotes, RowStates, Notes, IInv, MayMerge, MergedItem,
       Unpublished, Goes, jobVars, rowVars
  <2> QED
    BY <1>9, <2>2, <2>3 DEF Publish, Unpublished
<1>10. ASSUME NEW i \in Instances, Acknowledge(i)
      PROVE (PublishedIsShown /\ RecoveredIsShown)'
  BY <1>10 DEF Types, TypeOK, Serial, PublishedIsShown, RecoveredIsShown, Shown,
     AtCall, NoItem, NoNotes, RowStates, Notes, IInv, Acknowledge, Releases, Goes,
     NoPlan, jobVars, ghosts
<1>11. ASSUME NEW i \in Instances, NEW c \in Calls, Pick(i, c)
      PROVE (PublishedIsShown /\ RecoveredIsShown)'
  BY <1>11 DEF Types, TypeOK, Serial, PublishedIsShown, RecoveredIsShown, Shown,
     AtCall, NoItem, NoNotes, RowStates, Notes, IInv, Pick, Recoverable, Decides,
     Goes, jobVars, rowVars, ghosts
<1>12. ASSUME NEW i \in Instances, NEW o \in Outcomes, QueryAnswered(i, o)
      PROVE (PublishedIsShown /\ RecoveredIsShown)'
  BY <1>12 DEF Types, TypeOK, Serial, PublishedIsShown, RecoveredIsShown, Shown,
     AtCall, NoItem, NoNotes, RowStates, Notes, IInv, QueryAnswered, Decides, Goes,
     jobVars, rowVars, ghosts
<1>13. ASSUME NEW i \in Instances, PublishRaises(i)
      PROVE (PublishedIsShown /\ RecoveredIsShown)'
  BY <1>13 DEF Types, TypeOK, Serial, PublishedIsShown, RecoveredIsShown, Shown,
     AtCall, NoItem, NoNotes, RowStates, Notes, IInv, PublishRaises, Releases, Goes,
     NoPlan, jobVars, rowVars, ghosts
<1>14. ASSUME NEW i \in Instances, InstanceDies(i)
      PROVE (PublishedIsShown /\ RecoveredIsShown)'
  BY <1>14 DEF Types, TypeOK, Serial, PublishedIsShown, RecoveredIsShown, Shown,
     AtCall, NoItem, NoNotes, RowStates, Notes, IInv, InstanceDies, Goes, NoPlan,
     jobVars, rowVars, ghosts
<1>15. CASE UNCHANGED <<item, row, at, call, plan, dropped, own>>
  BY <1>15 DEF Types, TypeOK, Serial, PublishedIsShown, RecoveredIsShown, Shown,
     AtCall, NoItem, NoNotes, RowStates, Notes, IInv
<1> QED
  BY <1>1, <1>2, <1>3, <1>4, <1>5, <1>6, <1>7, <1>8, <1>9, <1>10, <1>11, <1>12, <1>13,
     <1>14, <1>15 DEF Next, QueueMoves, QueueOnly, Recovers, vars, jobVars, rowVars,
     threadVars, ghosts, ObserverFails, SevenDaysPass, SaveFails, RecordResult,
     DiesInTaskDone, ExecutionEnds

-----------------------------------------------------------------------------
(* Nothing is ordered, saved or recovered at first.                         *)
LEMMA InitInv == Init => IInv
<1> SUFFICES ASSUME Init PROVE IInv
  OBVIOUS
<1> USE RecoveryAssumption DEF Init, Queue!Init, NoItem, NoNotes, NoPlan
<1>1. Types
  BY DEF Types, TypeOK, JobStates, Notes, RowStates
<1>2. Serial /\ Retries /\ Published /\ PublishedIsShown
  BY DEF Serial, Retries, Published, PublishedIsShown, AtCall
<1>3. AcknowledgedIsPublished /\ RecoveredIsShown
  BY DEF AcknowledgedIsPublished, RecoveredIsShown
<1>4. Ended /\ WrittenOnce /\ OwnResult
  BY DEF Ended, WrittenOnce, OwnResult
<1> QED
  BY <1>1, <1>2, <1>3, <1>4 DEF IInv

(* The inductive invariant holds in every reachable state.                  *)
THEOREM IInvHolds == Spec => []IInv
<1>1. IInv /\ [Next]_vars => IInv'
  BY TypesStep, SerialStep, RetriesStep, PublishedStep, EndedStep, WrittenStep, OwnStep,
     ShownStep DEF IInv
<1> QED
  BY InitInv, <1>1, PTL DEF Spec

(* The tables, the history and the recovery threads are typed; in           *)
(* particular no row counts more than MaxFailures consecutive failures.     *)
THEOREM RecoveryTypeCorrect == Spec => []TypeOK
<1>1. IInv => TypeOK
  BY DEF IInv, Types
<1> QED
  BY IInvHolds, <1>1, PTL

(* A checkpoint is closed as recovered or failed only if the history was    *)
(* told the same before, with any number of deaths and database errors.     *)
THEOREM AcknowledgedIsPublishedHolds == Spec => []AcknowledgedIsPublished
<1>1. IInv => AcknowledgedIsPublished
  BY DEF IInv
<1> QED
  BY IInvHolds, <1>1, PTL

(* The history of a completed job is the worker's own entry, although       *)
(* recovery may have been at work on the job when the worker came back.     *)
THEOREM CompletedShowsOwnResultHolds == Spec => []CompletedShowsOwnResult
<1>1. IInv => CompletedShowsOwnResult
  BY DEF IInv, Ended, OwnResult, OwnItem, CompletedShowsOwnResult
<1> QED
  BY IInvHolds, <1>1, PTL

(* Results of several calls of one job do not displace each other.          *)
THEOREM RecoveredIsShownHolds == Spec => []RecoveredIsShown
<1>1. IInv => RecoveredIsShown
  BY DEF IInv
<1> QED
  BY IInvHolds, <1>1, PTL

(* No call is worked on by two instances, whatever dies holding the lock.   *)
THEOREM OneRecovererHolds == Spec => []OneRecoverer
<1>1. IInv => OneRecoverer
  BY RecoveryAssumption DEF IInv, Serial, Types, TypeOK, AtCall, OneRecoverer
<1> QED
  BY IInvHolds, <1>1, PTL

(* A step that changes a worker's success in the history deletes it.        *)
THEOREM SuccessIsFinalHolds == Spec => SuccessIsFinal
<1> DEFINE Kept == \A j \in Jobs : item[j].kind = "success" => item'[j] \in {item[j], NoItem}
<1>1. IInv /\ [Next]_vars => [Kept]_vars
  <2> SUFFICES ASSUME IInv, Next PROVE Kept
    OBVIOUS
  <2>1. CASE UNCHANGED item
    BY <2>1
  <2>2. ASSUME NEW j \in Jobs, NEW S \in SUBSET Jobs, SaveHistory(j, S) PROVE Kept
    <3>1. item[j].kind = "success" => item[j] = OwnItem /\ result[j] = "success"
      BY <2>2 DEF IInv, WrittenOnce, SaveHistory
    <3> QED
      BY <2>2, <3>1 DEF SaveHistory, IInv, Types, TypeOK, OwnItem
  <2>3. ASSUME NEW S \in SUBSET Jobs, DeleteHistory(S) PROVE Kept
    BY <2>3 DEF DeleteHistory, Removed, IInv, Types, TypeOK
  <2>4. ASSUME NEW i \in Instances, Publish(i) PROVE Kept
    BY <2>4 DEF Publish, MayMerge, IInv, Types, TypeOK
  <2> QED
    BY <2>1, <2>2, <2>3, <2>4
    DEF Next, QueueMoves, Recovers, ProviderAccepts, ObserverFails, SevenDaysPass, SaveFails,
        RecordResult, DiesInTaskDone, ExecutionEnds, Enter, PickNothing, QueryRefused,
        AttemptFails, Downloaded, Acknowledge, Pick, QueryAnswered, PublishRaises,
        InstanceDies
<1> QED
  BY IInvHolds, <1>1, PTL DEF Spec, SuccessIsFinal
=============================================================================
