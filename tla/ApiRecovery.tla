---------------------------- MODULE ApiRecovery ----------------------------
(***************************************************************************)
(* Recovery of results that were ordered from a provider before the worker *)
(* was lost: the table scheduler_api_recovery and the recovery thread of   *)
(* every instance (utils/api_recovery.py), and the history table both it   *)
(* and user_queue_task_done write (utils/history_store.py).                *)
(*                                                                         *)
(* The jobs themselves move as JobLifecycle allows, which the shared queue *)
(* is shown to implement.  The history and the queue are two databases: a  *)
(* late worker saves its history in one transaction and completes the job  *)
(* in another, and recovery may come between them.                         *)
(***************************************************************************)
EXTENDS Integers, FiniteSets

CONSTANTS
  Jobs,
  Calls, JobOf,   \* accepted orders that `submission' recognises, and their job
  Instances,
  MaxFailures,    \* 20 consecutive failures
  MaxFaults,      \* bound: process deaths, database errors, deletions from the history
  Nobody, NoCall

ASSUME RecoveryAssumption ==
  /\ IsFiniteSet(Jobs) /\ JobOf \in [Calls -> Jobs]
  /\ Nobody \notin Instances /\ NoCall \notin Calls
  /\ MaxFailures \in Nat \ {0}
  /\ MaxFaults \in Nat

VARIABLES
  status, executing,   \* the queue, see JobLifecycle
  result, saved,       \* task_done: what the execution reported; history saved
  item,                \* the history table
  ordered,             \* the provider accepted the call
  row, failures, old,  \* scheduler_api_recovery; seven days have passed
  lock,                \* the recovery file lock
  at, call, plan,      \* run_once of each instance: where, which row, what to write
  merged,              \* history: the state last merged for a call
  unsaved, dropped,    \* history: jobs whose save failed; whose row was removed
  own,                 \* history: jobs whose worker saved an entry
  faults

jobVars == <<status, executing, result, saved, ordered>>
rowVars == <<row, failures, old>>
threadVars == <<lock, at, call, plan>>
ghosts == <<merged, unsaved, dropped, own>>
vars == <<jobVars, item, rowVars, threadVars, ghosts, faults>>

Queue == INSTANCE JobLifecycle WITH state <- status

NoNotes == [c \in Calls |-> "none"]
NoItem == [kind |-> "absent", note |-> NoNotes]
NoPlan == [state |-> "none", failures |-> 0]

Fault == faults < MaxFaults /\ faults' = faults + 1

Init ==
  /\ Queue!Init
  /\ result = [j \in Jobs |-> "none"] /\ saved = {} /\ ordered = {}
  /\ item = [j \in Jobs |-> NoItem]
  /\ row = [c \in Calls |-> "none"]
  /\ failures = [c \in Calls |-> 0]
  /\ old = [c \in Calls |-> FALSE]
  /\ lock = Nobody
  /\ at = [i \in Instances |-> "idle"]
  /\ call = [i \in Instances |-> NoCall]
  /\ plan = [i \in Instances |-> NoPlan]
  /\ merged = NoNotes /\ unsaved = {} /\ dropped = {} /\ own = {}
  /\ faults = 0

-----------------------------------------------------------------------------
(* The jobs and user_queue_task_done.                                       *)

QueueMoves ==
  /\ \E j \in Jobs : Queue!Submit(j) \/ Queue!HandOut(j) \/ Queue!Cancel({j}) \/ Queue!Lose({j})
  /\ UNCHANGED <<result, saved, ordered, item, rowVars, threadVars, ghosts, faults>>

(* observe: a checkpoint is kept while the table calls the job running.     *)
ProviderAccepts(c) ==
  /\ JobOf[c] \in executing /\ c \notin ordered
  /\ ordered' = ordered \cup {c}
  /\ row' = [row EXCEPT ![c] = IF status[JobOf[c]] = "running" THEN "pending" ELSE @]
  /\ UNCHANGED <<status, executing, result, saved, item, failures, old, threadVars,
                 ghosts, faults>>

(* _record: an error of the observer is logged and the node goes on.        *)
ObserverFails(c) ==
  /\ JobOf[c] \in executing /\ c \notin ordered /\ Fault
  /\ ordered' = ordered \cup {c}
  /\ UNCHANGED <<status, executing, result, saved, item, rowVars, threadVars, ghosts>>

(* The execution ends and task_done begins, or the process dies.            *)
ExecutionEnds(j, r) ==
  /\ Queue!ExecutionEnds(j)
  /\ result' = [result EXCEPT ![j] = r]
  /\ UNCHANGED <<saved, ordered, item, rowVars, threadVars, ghosts, faults>>

(* save: the entry is written as a whole; then the oldest entries S beyond  *)
(* the limit go, which may include an entry that was made long before.      *)
SaveHistory(j, S) ==
  LET written == [item EXCEPT ![j] = [kind |-> result[j], note |-> NoNotes]] IN
  /\ result[j] # "none" /\ j \notin saved
  /\ \A k \in S : written[k].kind # "absent"
  /\ IF S = {} THEN UNCHANGED faults ELSE Fault
  /\ item' = [k \in Jobs |-> IF k \in S THEN NoItem ELSE written[k]]
  /\ dropped' = (dropped \ {j}) \cup S
  /\ saved' = saved \cup {j} /\ own' = own \cup {j}
  /\ UNCHANGED <<status, executing, result, ordered, rowVars, threadVars, merged, unsaved>>

(* _save_history_item logs the error and task_done goes on.                 *)
SaveFails(j) ==
  /\ result[j] # "none" /\ j \notin saved /\ Fault
  /\ saved' = saved \cup {j} /\ unsaved' = unsaved \cup {j}
  /\ UNCHANGED <<status, executing, result, ordered, item, rowVars, threadVars, merged,
                 dropped, own>>

(* complete, after the history was saved                                    *)
RecordResult(j) ==
  /\ j \in saved
  /\ Queue!Record(j, IF result[j] = "success" THEN "completed" ELSE "failed")
  /\ UNCHANGED <<result, saved, ordered, item, rowVars, threadVars, ghosts, faults>>

(* The process dies inside task_done.                                       *)
DiesInTaskDone(j) ==
  /\ result[j] # "none" /\ status[j] \in {"running", "worker_lost"} /\ Fault
  /\ result' = [result EXCEPT ![j] = "none"]
  /\ saved' = saved \ {j}
  /\ UNCHANGED <<status, executing, ordered, item, rowVars, threadVars, ghosts>>

(* delete, delete_owner and clear (or a save for a job not modelled here)   *)
Removed(S) ==
  /\ item' = [j \in Jobs |-> IF j \in S THEN NoItem ELSE item[j]]
  /\ dropped' = dropped \cup S

(* An owner deletes an entry or all of them, an administrator everything.   *)
DeleteHistory(S) ==
  /\ Fault /\ S # {} /\ \A j \in S : item[j].kind # "absent"
  /\ Removed(S)
  /\ UNCHANGED <<jobVars, rowVars, threadVars, merged, unsaved, own>>

-----------------------------------------------------------------------------
(* run_once of one instance: _recover_one under the file lock.              *)

Goes(i, to) == at' = [at EXCEPT ![i] = to]
Decides(i, s, n) == Goes(i, "decided") /\ plan' = [plan EXCEPT ![i] = [state |-> s, failures |-> n]]
Releases(i) ==
  /\ Goes(i, "idle") /\ lock' = Nobody
  /\ call' = [call EXCEPT ![i] = NoCall] /\ plan' = [plan EXCEPT ![i] = NoPlan]

(* The lock is taken and checkpoints of jobs that ended are set aside.      *)
Enter(i) ==
  /\ at[i] = "idle" /\ lock = Nobody /\ lock' = i
  /\ row' = [c \in Calls |-> IF row[c] = "pending" /\ status[JobOf[c]] \in {"completed", "cancelled", "failed"}
                             THEN "ignored" ELSE row[c]]
  /\ Goes(i, "entered")
  /\ UNCHANGED <<jobVars, item, failures, old, call, plan, ghosts, faults>>

Recoverable(c) == row[c] = "pending" /\ status[JobOf[c]] = "worker_lost"

(* Mutant: a call is asked for however old it is.                           *)
MutTooOld(c) == FALSE
TooOld(c) == old[c]

(* One due row is taken; after seven days it is given up unasked.           *)
Pick(i, c) ==
  /\ at[i] = "entered" /\ Recoverable(c)
  /\ call' = [call EXCEPT ![i] = c]
  /\ \/ ~TooOld(c) /\ Goes(i, "picked") /\ UNCHANGED plan
     \/ TooOld(c) /\ Decides(i, "failed", failures[c])
  /\ UNCHANGED <<jobVars, item, rowVars, lock, ghosts, faults>>

PickNothing(i) ==
  /\ at[i] = "entered" /\ \A c \in Calls : ~Recoverable(c)
  /\ Releases(i)
  /\ UNCHANGED <<jobVars, item, rowVars, ghosts, faults>>

StillLost(i) == status[JobOf[call[i]]] = "worker_lost"     \* _require_lost

(* The provider answers; `result' reads the answer, _require_lost follows.  *)
QueryAnswered(i, outcome) ==
  /\ at[i] = "picked"
  /\ \/ ~StillLost(i) /\ Decides(i, "ignored", failures[call[i]])
     \/ StillLost(i) /\ outcome = "succeeded" /\ Goes(i, "downloading") /\ UNCHANGED plan
     \/ StillLost(i) /\ outcome = "failed" /\ Decides(i, "failed", failures[call[i]])
     \/ StillLost(i) /\ outcome = "pending" /\ Decides(i, "pending", 0)
  /\ UNCHANGED <<jobVars, item, rowVars, lock, call, ghosts, faults>>

(* 401, 403, 404 and 410: nothing more can be learnt about the call.        *)
QueryRefused(i) ==
  /\ at[i] = "picked"
  /\ Decides(i, "failed", failures[call[i]])
  /\ UNCHANGED <<jobVars, item, rowVars, lock, call, ghosts, faults>>

GivesUp(n) == n >= MaxFailures

(* Query, download or asset registration raise: tried again later, but not  *)
(* for ever.                                                                *)
AttemptFails(i) ==
  LET n == failures[call[i]] + 1 IN
  /\ at[i] \in {"picked", "downloading"}
  /\ Decides(i, IF GivesUp(n) THEN "failed" ELSE "pending", n)
  /\ UNCHANGED <<jobVars, item, rowVars, lock, call, ghosts, faults>>

(* _download: files under the call's own path, then _require_lost.          *)
Downloaded(i) ==
  /\ at[i] = "downloading"
  /\ Decides(i, IF StillLost(i) THEN "recovered" ELSE "ignored", failures[call[i]])
  /\ UNCHANGED <<jobVars, item, rowVars, lock, call, ghosts, faults>>

(* Mutants: a result of the worker itself is merged over; the entry is made *)
(* anew instead of being added to.                                          *)
MutMayMerge(j) == TRUE
MayMerge(j) == item[j].kind # "success"
MutMergedItem(j, c, s) == [kind |-> "error", note |-> [NoNotes EXCEPT ![c] = s]]
(* merge_api_recovery: a missing entry is made as an interrupted one.       *)
MergedItem(j, c, s) ==
  [kind |-> IF item[j].kind = "absent" THEN "error" ELSE item[j].kind,
   note |-> [item[j].note EXCEPT ![c] = s]]

(* Mutant: a refused merge is acknowledged as it was planned.               *)
MutUnpublished(s) == s
Unpublished(s) == "ignored"

(* _publish: the queue's write lock is held while the history is merged, so *)
(* the job cannot be completed in between.                                  *)
Publish(i) ==
  LET c == call[i]
      j == JobOf[c]
      s == plan[i].state
  IN
  /\ at[i] = "decided" /\ s # "ignored"
  /\ Goes(i, "published")
  /\ IF StillLost(i) /\ MayMerge(j)
     THEN /\ item' = [item EXCEPT ![j] = MergedItem(j, c, s)]
          /\ merged' = [merged EXCEPT ![c] = s]
          /\ UNCHANGED plan
     ELSE /\ plan' = [plan EXCEPT ![i] = [state |-> Unpublished(s), failures |-> plan[i].failures]]
          /\ UNCHANGED <<item, merged>>
  /\ UNCHANGED <<jobVars, rowVars, lock, call, unsaved, dropped, own, faults>>

(* A database error in _publish ends this run; the row is left as it is.    *)
PublishRaises(i) ==
  /\ at[i] = "decided" /\ plan[i].state # "ignored" /\ Fault
  /\ Releases(i)
  /\ UNCHANGED <<jobVars, item, rowVars, ghosts>>

(* The last UPDATE, after the history was committed.                        *)
Acknowledge(i) ==
  /\ at[i] = "published" \/ (at[i] = "decided" /\ plan[i].state = "ignored")
  /\ row' = [row EXCEPT ![call[i]] = plan[i].state]
  /\ failures' = [failures EXCEPT ![call[i]] = plan[i].failures]
  /\ Releases(i)
  /\ UNCHANGED <<jobVars, item, old, ghosts, faults>>

(* The instance dies; the operating system frees its lock.                  *)
InstanceDies(i) ==
  /\ at[i] # "idle" /\ Fault
  /\ Goes(i, "idle") /\ lock' = IF lock = i THEN Nobody ELSE lock
  /\ call' = [call EXCEPT ![i] = NoCall] /\ plan' = [plan EXCEPT ![i] = NoPlan]
  /\ UNCHANGED <<jobVars, item, rowVars, ghosts>>

SevenDaysPass(c) ==
  /\ row[c] = "pending" /\ ~old[c] /\ old' = [old EXCEPT ![c] = TRUE]
  /\ UNCHANGED <<jobVars, item, row, failures, threadVars, ghosts, faults>>

-----------------------------------------------------------------------------
Outcomes == {"succeeded", "failed", "pending"}

Recovers(i) ==
  \/ PickNothing(i) \/ QueryRefused(i) \/ AttemptFails(i)
  \/ Downloaded(i) \/ Publish(i) \/ Acknowledge(i)
  \/ \E c \in Calls : Pick(i, c)
  \/ \E o \in Outcomes : QueryAnswered(i, o)

Next ==
  \/ QueueMoves
  \/ \E c \in Calls : ProviderAccepts(c) \/ ObserverFails(c) \/ SevenDaysPass(c)
  \/ \E j \in Jobs :
       \/ SaveFails(j) \/ RecordResult(j) \/ DiesInTaskDone(j)
       \/ \E S \in SUBSET Jobs : SaveHistory(j, S)
       \/ \E r \in {"none", "success", "error"} : ExecutionEnds(j, r)
  \/ \E S \in SUBSET Jobs : DeleteHistory(S)
  \/ \E i \in Instances : Enter(i) \/ Recovers(i) \/ PublishRaises(i) \/ InstanceDies(i)

Spec == Init /\ [][Next]_vars

(* The thread wakes every five seconds, its requests have timeouts, and the *)
(* clock runs.  Nothing is assumed of the provider.                         *)
Fairness ==
  /\ \A i \in Instances : WF_vars(Enter(i)) /\ WF_vars(Recovers(i))
  /\ \A c \in Calls : WF_vars(SevenDaysPass(c))

FairSpec == Spec /\ Fairness

-----------------------------------------------------------------------------
RowStates == {"none", "pending", "recovered", "failed", "ignored"}
Notes == {"none", "pending", "recovered", "failed"}

(* What the tables, the history and the recovery threads hold.              *)
TypeOK ==
  /\ result \in [Jobs -> {"none", "success", "error"}] /\ saved \subseteq Jobs
  /\ ordered \subseteq Calls
  /\ item \in [Jobs -> [kind : {"absent", "success", "error"}, note : [Calls -> Notes]]]
  /\ row \in [Calls -> RowStates] /\ failures \in [Calls -> 0 .. MaxFailures]
  /\ old \in [Calls -> BOOLEAN]
  /\ lock \in Instances \cup {Nobody} /\ call \in [Instances -> Calls \cup {NoCall}]
  /\ at \in [Instances -> {"idle", "entered", "picked", "downloading", "decided", "published"}]
  /\ plan \in [Instances -> [state : RowStates, failures : 0 .. MaxFailures]]

(* A successful result in the history is never touched by recovery, not     *)
(* even between the worker's save and its completion: it only leaves by     *)
(* deletion.                                                                *)
SuccessIsFinal ==
  [][\A j \in Jobs : item[j].kind = "success" => item'[j] \in {item[j], NoItem}]_vars

(* "Persist history before acknowledging": a checkpoint is closed as        *)
(* recovered or failed only if the history says the same, whatever died or  *)
(* was refused on the way.                                                  *)
AcknowledgedIsPublished ==
  \A c \in Calls : row[c] \in {"recovered", "failed"} => merged[c] = row[c]

(* A job that the table calls completed shows the worker's own result and   *)
(* nothing of a recovery that was under way when the worker came back.      *)
CompletedShowsOwnResult ==
  \A j \in Jobs : status[j] = "completed" /\ j \notin unsaved \cup dropped
    => item[j] = [kind |-> "success", note |-> NoNotes]

(* A recovered video stays in the history of its job next to those of other *)
(* calls, unless the worker wrote its own result after all or the entry was *)
(* deleted.                                                                 *)
RecoveredIsShown ==
  \A c \in Calls : row[c] = "recovered" =>
    \/ item[JobOf[c]].note[c] = "recovered"
    \/ JobOf[c] \in dropped \cup own

(* No two instances query or download for the same call at a time ("a       *)
(* single recovery worker"); they would write the same partial file.        *)
OneRecoverer ==
  \A i, k \in Instances : i # k /\ call[i] # NoCall => call[k] # call[i]

(* Every checkpoint of a lost job is settled in the end, however the        *)
(* provider answers.  The database errs finitely often: a row whose         *)
(* publication always raised would stay the first one due and hold up the   *)
(* rest.                                                                    *)
LostCallsSettle ==
  \A c \in Calls : Recoverable(c) ~> ~Recoverable(c)
=============================================================================
