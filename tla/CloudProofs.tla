---------------------------- MODULE CloudProofs ----------------------------
(***************************************************************************)
(* Machine-checked proofs about CloudArchive, for every set of prompts,    *)
(* outputs and upload threads, every limit and every bound on faults and   *)
(* backfills.  Late results of lost jobs, backfills of running ones and    *)
(* work that outlives its lease are all allowed: the theorems speak of the *)
(* rows and prompts these did not touch, and so prove that they cannot     *)
(* spread to the others.                                                   *)
(***************************************************************************)
EXTENDS CloudArchive, FiniteSetTheorems, TLAPS

(* A set of outputs has a size.                                             *)
LEMMA CountType ==
  ASSUME NEW S \in SUBSET Arts
  PROVE  Cardinality(S) \in Nat
  BY FS_Subset, FS_CardinalityType, CloudAssumption

(* The rows that stand for no row are rows.                                 *)
LEMMA NoRowsTyped == NoTask \in TaskRows /\ NoArt \in ArtRows
  BY CloudAssumption DEF NoTask, NoArt, TaskRows, ArtRows, ArtStatuses

(* enqueue_task never touches a row that is being uploaded.                 *)
LEMMA EnqueuedKeepsWork ==
  ASSUME TypeOK, NEW t \in Tasks, NEW found \in SUBSET Arts, Enqueued(t, found)
  PROVE  /\ task' \in [Tasks -> TaskRows] /\ art' \in [Arts -> ArtRows]
         /\ relisted' \subseteq Tasks
         /\ \A a \in Arts : art[a].status # "none" => art'[a] = art[a]
         /\ \A u \in Tasks : task[u] # NoTask =>
              /\ task'[u].cloud = task[u].cloud
              /\ task'[u].mstatus = task[u].mstatus
              /\ task'[u].mowner = task[u].mowner
              /\ task'[u].mlive = task[u].mlive
         /\ \A u \in Tasks : task[u] = NoTask => task'[u].cloud # "cloud_failed"
<1>1. Cardinality(found) \in Nat
  BY CountType
<1>2. NoTask \in TaskRows /\ NoArt \in ArtRows
  BY NoRowsTyped
<1> DEFINE fresh == [NoTask EXCEPT !.cloud = IF found = {} THEN "no_artifacts" ELSE "pending",
                                   !.count = Cardinality(found), !.mstatus = "pending"]
           kept == [task[t] EXCEPT !.count = Cardinality(found)]
<1>3. task' = [task EXCEPT ![t] = IF task[t] = NoTask THEN fresh ELSE kept]
  BY DEF Enqueued, TypeOK
<1>4. fresh \in TaskRows /\ fresh.cloud # "cloud_failed"
  BY <1>1, <1>2 DEF TaskRows, Final, NoTask
<1>5. /\ kept \in TaskRows /\ kept.cloud = task[t].cloud /\ kept.mstatus = task[t].mstatus
      /\ kept.mowner = task[t].mowner /\ kept.mlive = task[t].mlive
  BY <1>1 DEF TypeOK, TaskRows
<1>6. NoTask.cloud # "cloud_failed" /\ NoArt.status = "none"
  BY DEF NoTask, NoArt
<1>7. [NoArt EXCEPT !.status = "pending"] \in ArtRows
  BY <1>2 DEF ArtRows, ArtStatuses, NoArt
<1>8. art' \in [Arts -> ArtRows]
  BY <1>7 DEF Enqueued, TypeOK
<1>9. \A a \in Arts : art[a].status # "none" => art'[a] = art[a]
  BY <1>6 DEF Enqueued
<1>10. task' \in [Tasks -> TaskRows]
  BY <1>3, <1>4, <1>5 DEF TypeOK
<1>11. relisted' \subseteq Tasks
  BY DEF Enqueued, TypeOK
<1> HIDE DEF fresh, kept
<1> QED
  BY <1>3, <1>4, <1>5, <1>6, <1>8, <1>9, <1>10, <1>11 DEF TypeOK

(* reset_failed restarts the task's manifest and only artifacts that failed.*)
LEMMA ResetKeepsWork ==
  ASSUME TypeOK, NEW t \in Tasks, ResetFailed(t)
  PROVE  /\ task' \in [Tasks -> TaskRows] /\ art' \in [Arts -> ArtRows]
         /\ relisted' \subseteq Tasks
         /\ \A a \in Arts : art[a].status = "uploading" => art'[a] = art[a]
         /\ \A u \in Tasks \ {t} : task'[u] = task[u]
         /\ task'[t].cloud = "pending"
<1> DEFINE reset == [task[t] EXCEPT !.cloud = "pending", !.mstatus = "pending",
                                    !.mtries = 0, !.mowner = Nobody, !.mlive = FALSE]
<1>1. task' = [task EXCEPT ![t] = reset]
  BY DEF ResetFailed, TypeOK
<1>2. reset \in TaskRows /\ reset.cloud = "pending"
  <2>1. 0 \in 0 .. MaxAttempts
    BY CloudAssumption
  <2>2. task[t] \in TaskRows
    BY DEF TypeOK
  <2>3. {"pending"} \subseteq {"none", "pending", "uploading"} \cup Final
    OBVIOUS
  <2> QED
    BY <2>1, <2>2, <2>3 DEF TaskRows
<1>3. [NoArt EXCEPT !.status = "pending"] \in ArtRows
  BY NoRowsTyped DEF ArtRows, ArtStatuses, NoArt
<1>4. art' \in [Arts -> ArtRows]
  BY <1>3 DEF ResetFailed, TypeOK
<1>5. \A a \in Arts : art[a].status = "uploading" => art'[a] = art[a]
  BY DEF ResetFailed
<1>6. relisted' \subseteq Tasks
  BY DEF ResetFailed, TypeOK
<1> HIDE DEF reset
<1> QED
  BY <1>1, <1>2, <1>4, <1>5, <1>6 DEF TypeOK

(* Recording an artifact's result touches that row and its task's counters. *)
LEMMA ResultKeepsWork ==
  ASSUME TypeOK, NEW a \in Arts, NEW s \in ArtStatuses, ArtifactResult(a, s)
  PROVE  /\ task' \in [Tasks -> TaskRows] /\ art' \in [Arts -> ArtRows]
         /\ \A b \in Arts \ {a} : art'[b] = art[b]
         /\ \A u \in Tasks : /\ task'[u].cloud = task[u].cloud
                             /\ task'[u].mstatus = task[u].mstatus
                             /\ task'[u].mowner = task[u].mowner
                             /\ task'[u].mlive = task[u].mlive
<1> DEFINE rows == [art EXCEPT ![a] = [@ EXCEPT !.status = s, !.owner = Nobody, !.live = FALSE]]
           t == TaskOf[a]
           n == Cardinality({b \in ArtsOf(t) : rows[b].status # "none"})
           m == Cardinality({b \in ArtsOf(t) : CountsAsFailed(rows[b].status)})
           row == [task[t] EXCEPT !.count = n, !.failed = m]
<1>1. t \in Tasks
  BY CloudAssumption
<1>2. n \in Nat /\ m \in Nat
  BY CountType DEF ArtsOf
<1>3. art' = rows /\ task' = [task EXCEPT ![t] = row]
  BY DEF ArtifactResult, Counted
<1>4. [art[a] EXCEPT !.status = s, !.owner = Nobody, !.live = FALSE] \in ArtRows
  BY DEF TypeOK, ArtRows
<1>5. art' \in [Arts -> ArtRows] /\ \A b \in Arts \ {a} : art'[b] = art[b]
  BY <1>3, <1>4 DEF TypeOK
<1> HIDE DEF n, m, rows, t
<1>6. /\ row \in TaskRows /\ row.cloud = task[t].cloud /\ row.mstatus = task[t].mstatus
      /\ row.mowner = task[t].mowner /\ row.mlive = task[t].mlive
  <2>1. task[t] \in TaskRows
    BY <1>1 DEF TypeOK
  <2> QED
    BY <1>2, <2>1 DEF TaskRows
<1> HIDE DEF row
<1> QED
  BY <1>1, <1>3, <1>5, <1>6 DEF TypeOK
-----------------------------------------------------------------------------
(* The tables start within their types.                                     *)
LEMMA TypeInit == Init => TypeOK
  BY NoRowsTyped DEF Init, TypeOK, Terminal, OnArtifactRow, OnManifestRow

(* A thread that leaves its row, or a registrar that writes one.            *)
LEMMA ToIdleType ==
  ASSUME TypeOK, NEW c \in Threads, ToIdle(c)
  PROVE  /\ at' \in [Threads -> {"idle", "reconcile", "down"} \cup OnArtifactRow \cup OnManifestRow]
         /\ work' \in [Threads -> Arts \cup Tasks \cup {Nothing}]
         /\ \A d \in Threads : /\ at'[d] \in OnArtifactRow => work'[d] \in Arts
                               /\ at'[d] \in OnManifestRow => work'[d] \in Tasks
         /\ at'[c] = "idle"
         /\ \A d \in Threads \ {c} : at'[d] = at[d] /\ work'[d] = work[d]
  BY DEF ToIdle, TypeOK, OnArtifactRow, OnManifestRow

(* What the history shows of a prompt are outputs.                          *)
LEMMA FoundType == TypeOK => \A t \in Tasks : Found(t) \in SUBSET Arts
  BY DEF Found, ArtsOf

(* Every step keeps the tables and the threads within their types.          *)
LEMMA TypeStep == TypeOK /\ [Next]_vars => TypeOK'
<1> SUFFICES ASSUME TypeOK, [Next]_vars PROVE TypeOK'
  OBVIOUS
<1> USE DEF jobVars, storeVars, threadVars, ossVars, auxVars, bounds
<1>1. ASSUME NEW t \in Tasks, SaveHistory(t) PROVE TypeOK'
  BY <1>1 DEF SaveHistory, TypeOK
<1>2. ASSUME NEW t \in Tasks, JobCompletes(t) PROVE TypeOK'
  BY <1>2 DEF JobCompletes, TypeOK, Terminal
<1>3. ASSUME NEW t \in Tasks, CompleteRaises(t) PROVE TypeOK'
  BY <1>3 DEF CompleteRaises, TypeOK
<1>4. ASSUME NEW t \in Tasks, JobCancelled(t) PROVE TypeOK'
  BY <1>4 DEF JobCancelled, TypeOK, Terminal
<1>5. ASSUME NEW t \in Tasks, JobLost(t) PROVE TypeOK'
  BY <1>5 DEF JobLost, TypeOK, Terminal
<1>6. ASSUME NEW t \in Tasks, EnqueueCompletion(t) PROVE TypeOK'
  <2>1. /\ task' \in [Tasks -> TaskRows] /\ art' \in [Arts -> ArtRows]
        /\ relisted' \subseteq Tasks
    BY <1>6, FoundType, EnqueuedKeepsWork DEF EnqueueCompletion
  <2> QED
    BY <1>6, <2>1 DEF EnqueueCompletion, TypeOK
<1>7. ASSUME NEW t \in Tasks, EnqueueLost(t) PROVE TypeOK'
  BY <1>7 DEF EnqueueLost, TypeOK
<1>8. ASSUME NEW t \in Tasks, ManifestLeaseExpires(t) PROVE TypeOK'
  <2>1. [task[t] EXCEPT !.mlive = FALSE] \in TaskRows
    <3>1. task[t] \in TaskRows
      BY DEF TypeOK
    <3> QED
      BY <3>1 DEF TaskRows
  <2> QED
    BY <1>8, <2>1 DEF ManifestLeaseExpires, TypeOK
<1>9. ASSUME NEW a \in Arts, ArtifactLeaseExpires(a) PROVE TypeOK'
  <2>1. [art[a] EXCEPT !.live = FALSE] \in ArtRows
    BY DEF TypeOK, ArtRows
  <2> QED
    BY <1>9, <2>1 DEF ArtifactLeaseExpires, TypeOK
<1>10. ASSUME NEW S \in SUBSET Tasks, BackfillRead(S) PROVE TypeOK'
  BY <1>10 DEF BackfillRead, TypeOK, Registrars
<1>11. ASSUME NEW r \in Registrars, NEW e \in plan[r], PlanWrite(r, e) PROVE TypeOK'
  <2>1. e.task \in Tasks /\ e.found \in SUBSET Arts
    BY DEF TypeOK
  <2>2. /\ task' \in [Tasks -> TaskRows] /\ art' \in [Arts -> ArtRows]
        /\ relisted' \subseteq Tasks
    BY <1>11, <2>1, EnqueuedKeepsWork, ResetKeepsWork DEF PlanWrite
  <2>3. /\ at' \in [Threads -> {"idle", "reconcile", "down"} \cup OnArtifactRow \cup OnManifestRow]
        /\ \A c \in Threads : /\ at'[c] \in OnArtifactRow => at[c] \in OnArtifactRow
                              /\ at'[c] \in OnManifestRow => at[c] \in OnManifestRow
    BY <1>11 DEF PlanWrite, TypeOK, OnArtifactRow, OnManifestRow
  <2>4. plan' \in [Registrars -> SUBSET [task : Tasks, do : {"look", "register", "retry"},
                                         found : SUBSET Arts]]
    BY <1>11 DEF PlanWrite, TypeOK
  <2> QED
    BY <1>11, <2>2, <2>3, <2>4 DEF PlanWrite, TypeOK
<1>12. ASSUME NEW c \in Threads, ReconcileRead(c) PROVE TypeOK'
  <2>1. plan' \in [Registrars -> SUBSET [task : Tasks, do : {"look", "register", "retry"},
                                         found : SUBSET Arts]]
    BY <1>12 DEF ReconcileRead, Unregistered, TypeOK, Registrars
  <2> QED
    BY <1>12, <2>1 DEF ReconcileRead, TypeOK, OnArtifactRow, OnManifestRow
<1>13. ASSUME NEW c \in Threads, StoreRaises(c) PROVE TypeOK'
  BY <1>13, ToIdleType DEF StoreRaises, TypeOK, Registrars
<1>14. ASSUME NEW c \in Threads, ThreadDies(c) PROVE TypeOK'
  BY <1>14 DEF ThreadDies, TypeOK, Registrars, OnArtifactRow, OnManifestRow
<1>15. ASSUME NEW c \in Threads, ThreadStarts(c) PROVE TypeOK'
  BY <1>15 DEF ThreadStarts, Step, TypeOK, OnArtifactRow, OnManifestRow
<1>16. ASSUME NEW c \in Threads, NEW a \in Arts, ClaimArtifact(c, a) PROVE TypeOK'
  <2> DEFINE row == [status |-> "uploading", tries |-> art[a].tries + 1, owner |-> c, live |-> TRUE]
  <2>1. row \in ArtRows
    BY DEF TypeOK, ArtRows, ArtStatuses
  <2>2. art' \in [Arts -> ArtRows]
    BY <1>16, <2>1 DEF ClaimArtifact, TypeOK
  <2>3. TaskOf[a] \in Tasks
    BY CloudAssumption
  <2>4. [task[TaskOf[a]] EXCEPT !.cloud = "uploading"] \in TaskRows
    BY <2>3 DEF TypeOK, TaskRows
  <2>5. task' \in [Tasks -> TaskRows]
    BY <1>16, <2>3, <2>4 DEF ClaimArtifact, TypeOK
  <2> QED
    BY <1>16, <2>2, <2>5 DEF ClaimArtifact, TypeOK, OnArtifactRow, OnManifestRow
<1>17. ASSUME NEW c \in Threads, NEW a \in Arts, RenewArtifact(c, a) PROVE TypeOK'
  <2>1. [art[a] EXCEPT !.live = TRUE] \in ArtRows
    BY DEF TypeOK, ArtRows
  <2> QED
    BY <1>17, <2>1 DEF RenewArtifact, TypeOK
<1>18. ASSUME NEW c \in Threads, NEW t \in Tasks, ClaimManifest(c, t) PROVE TypeOK'
  <2>1. task[t].mtries + 1 \in 0 .. MaxAttempts
    BY <1>18, CloudAssumption DEF ClaimManifest, TypeOK, TaskRows
  <2>2. [task[t] EXCEPT !.mstatus = "uploading", !.mtries = task[t].mtries + 1,
                        !.mowner = c, !.mlive = TRUE] \in TaskRows
    <3>1. task[t] \in TaskRows
      BY DEF TypeOK
    <3> QED
      BY <2>1, <3>1 DEF TaskRows
  <2>3. task' = [task EXCEPT ![t] = [task[t] EXCEPT !.mstatus = "uploading",
                   !.mtries = task[t].mtries + 1, !.mowner = c, !.mlive = TRUE]]
    BY <1>18 DEF ClaimManifest
  <2>4. task' \in [Tasks -> TaskRows]
    BY <2>2, <2>3 DEF TypeOK
  <2> QED
    BY <1>18, <2>4 DEF ClaimManifest, TypeOK, OnArtifactRow, OnManifestRow
<1>19. ASSUME NEW c \in Threads, NEW t \in Tasks, RenewManifest(c, t) PROVE TypeOK'
  <2>1. [task[t] EXCEPT !.mlive = TRUE] \in TaskRows
    <3>1. task[t] \in TaskRows
      BY DEF TypeOK
    <3> QED
      BY <3>1 DEF TaskRows
  <2> QED
    BY <1>19, <2>1 DEF RenewManifest, TypeOK
<1>20. ASSUME NEW c \in Threads, Fetched(c) \/ Transferred(c) PROVE TypeOK'
  BY <1>20 DEF Fetched, Transferred, Step, TypeOK, OnArtifactRow, OnManifestRow
<1>21. ASSUME NEW c \in Threads,
              ArtifactSucceeded(c) \/ ArtifactFailed(c) \/ ArtifactSourceMissing(c)
       PROVE  TypeOK'
  <2>1. work[c] \in Arts
    BY <1>21 DEF ArtifactSucceeded, ArtifactFailed, ArtifactSourceMissing, TypeOK, OnArtifactRow
  <2>2. PICK s \in ArtStatuses : ArtifactResult(work[c], s) /\ ToIdle(c)
    BY <1>21 DEF ArtifactSucceeded, ArtifactFailed, ArtifactSourceMissing, FailedStatus,
                 ArtStatuses, Settled
  <2>3. task' \in [Tasks -> TaskRows] /\ art' \in [Arts -> ArtRows]
    BY <2>1, <2>2, ResultKeepsWork
  <2> QED
    BY <1>21, <2>2, <2>3, ToIdleType
    DEF ArtifactSucceeded, ArtifactFailed, ArtifactSourceMissing, TypeOK
<1>22. ASSUME NEW c \in Threads, BuildManifest(c) \/ ManifestTransferred(c) PROVE TypeOK'
  BY <1>22 DEF BuildManifest, ManifestTransferred, Step, TypeOK, OnArtifactRow, OnManifestRow
<1>23. ASSUME NEW c \in Threads, ManifestSucceeded(c) \/ ManifestFailed(c) PROVE TypeOK'
  <2>1. work[c] \in Tasks
    BY <1>23 DEF ManifestSucceeded, ManifestFailed, TypeOK, OnManifestRow
  <2>2. PICK s \in Final \cup {"uploading"}, m \in {"uploaded", "failed", "pending"} :
           task' = [task EXCEPT ![work[c]] =
                     [@ EXCEPT !.cloud = s, !.mstatus = m, !.mowner = Nobody, !.mlive = FALSE]]
    BY <1>23 DEF ManifestSucceeded, ManifestFailed, DesiredStatus, Final
  <2>3. [task[work[c]] EXCEPT !.cloud = s, !.mstatus = m, !.mowner = Nobody, !.mlive = FALSE]
          \in TaskRows
    <3>1. task[work[c]] \in TaskRows
      BY <2>1 DEF TypeOK
    <3> QED
      BY <3>1 DEF TaskRows
  <2>4. task' \in [Tasks -> TaskRows]
    BY <2>1, <2>2, <2>3 DEF TypeOK
  <2>5. ToIdle(c)
    BY <1>23 DEF ManifestSucceeded, ManifestFailed
  <2> QED
    BY <1>23, <2>4, <2>5, ToIdleType DEF ManifestSucceeded, ManifestFailed, TypeOK
<1>24. ASSUME NEW r \in Registrars, NEW e \in plan[r], PlanLook(r, e) PROVE TypeOK'
  <2>1. e.task \in Tasks /\ Found(e.task) \in SUBSET Arts
    BY FoundType DEF TypeOK
  <2>2. plan' \in [Registrars -> SUBSET [task : Tasks, do : {"look", "register", "retry"},
                                         found : SUBSET Arts]]
    BY <1>24, <2>1 DEF PlanLook, TypeOK
  <2> QED
    BY <1>24, <2>2 DEF PlanLook, TypeOK
<1>25. ASSUME NEW c \in Threads, NEW a \in Arts, ArtifactLeaseOutlived(c, a) PROVE TypeOK'
  <2>1. [art[a] EXCEPT !.live = FALSE] \in ArtRows
    BY DEF TypeOK, ArtRows
  <2> QED
    BY <1>25, <2>1 DEF ArtifactLeaseOutlived, TypeOK
<1>26. ASSUME NEW c \in Threads, NEW t \in Tasks, ManifestLeaseOutlived(c, t) PROVE TypeOK'
  <2>1. [task[t] EXCEPT !.mlive = FALSE] \in TaskRows
    <3>1. task[t] \in TaskRows
      BY DEF TypeOK
    <3> QED
      BY <3>1 DEF TaskRows
  <2> QED
    BY <1>26, <2>1 DEF ManifestLeaseOutlived, TypeOK
<1>27. CASE UNCHANGED vars
  BY <1>27 DEF vars, TypeOK
<1> QED
  BY <1>1, <1>2, <1>3, <1>4, <1>5, <1>6, <1>7, <1>8, <1>9, <1>10, <1>11, <1>12, <1>13,
     <1>14, <1>15, <1>16, <1>17, <1>18, <1>19, <1>20, <1>21, <1>22, <1>23, <1>24,
     <1>25, <1>26, <1>27
  DEF Next, SchedulerStep, Progress, Registrars

(* The tables and the threads stay within their types.                      *)
THEOREM CloudTypeCorrect == Spec => []TypeOK
  BY TypeInit, TypeStep, PTL DEF Spec
-----------------------------------------------------------------------------
(* A thread at work holds the live lease of its row, so nobody else can     *)
(* have claimed it: until a lease of that row runs out under its thread.    *)
LeaseInv ==
  /\ \A c \in Threads, a \in Arts : OnArt(c, a) /\ a \notin strayed =>
       art[a].status = "uploading" /\ art[a].owner = c /\ art[a].live
  /\ \A c \in Threads, t \in Tasks : OnManifest(c, t) /\ t \notin strayed =>
       task[t].mstatus = "uploading" /\ task[t].mowner = c /\ task[t].mlive

Ended(t) == task[t].mstatus \in {"uploaded", "failed"}

(* A retry is planned only for a prompt whose manifest has ended, once per  *)
(* prompt, and by nobody but the backfill tool: it cannot reset a manifest  *)
(* that a thread is uploading, unless it is one that strayed.               *)
RetryInv ==
  /\ \A t \in Tasks : task[t].cloud = "cloud_failed" => Ended(t)
  /\ \A e \in plan[Operator] : e.do = "retry" /\ e.task \notin strayed => Ended(e.task)
  /\ \A e, f \in plan[Operator] : e.task = f.task => e = f
  /\ \A c \in Threads : \A e \in plan[c] : e.do # "retry"

CloudInv == TypeOK /\ LeaseInv /\ RetryInv

(* Steps that touch neither the tables' leases nor anyone's place.          *)
LEMMA LeaseFrame ==
  ASSUME CloudInv, UNCHANGED <<task, art, plan>>, strayed \subseteq strayed',
         \A c \in Threads, a \in Arts : OnArt(c, a)' => OnArt(c, a),
         \A c \in Threads, t \in Tasks : OnManifest(c, t)' => OnManifest(c, t)
  PROVE  LeaseInv' /\ RetryInv'
<1>1. LeaseInv'
  BY DEF CloudInv, LeaseInv
<1>2. RetryInv'
  BY DEF CloudInv, RetryInv, Ended
<1> QED
  BY <1>1, <1>2

(* What a registration leaves alone is enough for both invariants.          *)
LEMMA EnqueuedLeases ==
  ASSUME CloudInv, NEW t \in Tasks, NEW found \in SUBSET Arts, Enqueued(t, found),
         \A c \in Threads, a \in Arts : OnArt(c, a)' => OnArt(c, a),
         \A c \in Threads, u \in Tasks : OnManifest(c, u)' => OnManifest(c, u),
         \A r \in Registrars : plan'[r] \subseteq plan[r], strayed' = strayed
  PROVE  LeaseInv' /\ RetryInv'
<1>1. /\ \A a \in Arts : art[a].status # "none" => art'[a] = art[a]
      /\ \A u \in Tasks : task[u] # NoTask =>
           /\ task'[u].cloud = task[u].cloud
           /\ task'[u].mstatus = task[u].mstatus
           /\ task'[u].mowner = task[u].mowner
           /\ task'[u].mlive = task[u].mlive
      /\ \A u \in Tasks : task[u] = NoTask => task'[u].cloud # "cloud_failed"
  BY EnqueuedKeepsWork DEF CloudInv
<1>2. NoTask.mstatus = "none"
  BY DEF NoTask
<1>3. \A u \in Tasks : Ended(u) => Ended(u)'
  BY <1>1, <1>2 DEF Ended
<1>4. LeaseInv'
  BY <1>1, <1>2 DEF CloudInv, LeaseInv
<1>5. \A u \in Tasks : task'[u].cloud = "cloud_failed" => Ended(u)'
  BY <1>1, <1>3 DEF CloudInv, RetryInv
<1>6. \A e \in plan[Operator] : e.task \in Tasks
  BY DEF CloudInv, TypeOK, Registrars
<1>7. plan'[Operator] \subseteq plan[Operator] /\ \A c \in Threads : plan'[c] \subseteq plan[c]
  BY DEF Registrars
<1> QED
  BY <1>3, <1>4, <1>5, <1>6, <1>7 DEF CloudInv, RetryInv, Ended

(* Nothing is leased and no retry has been asked for.                       *)
LEMMA LeaseInit == Init => LeaseInv /\ RetryInv
  BY DEF Init, LeaseInv, RetryInv, OnArt, OnManifest, OnArtifactRow, OnManifestRow, NoTask, Registrars

(* Every step keeps both: a claim finds no thread on the row, and a result  *)
(* or a reset only clears the lease of a row whose owner leaves it.         *)
LEMMA LeaseStep ==
  ASSUME CloudInv, TypeOK', [Next]_vars
  PROVE  LeaseInv' /\ RetryInv'
<1> USE DEF jobVars, storeVars, threadVars, ossVars, auxVars, bounds
<1>0. TypeOK /\ LeaseInv /\ RetryInv
  BY DEF CloudInv
<1>1. ASSUME NEW t \in Tasks,
             SaveHistory(t) \/ JobCompletes(t) \/ CompleteRaises(t) \/ JobCancelled(t)
             \/ JobLost(t) \/ EnqueueLost(t)
      PROVE  LeaseInv' /\ RetryInv'
  <2>1. UNCHANGED <<task, art, plan, at, work, strayed>>
    BY <1>1 DEF SaveHistory, JobCompletes, CompleteRaises, JobCancelled, JobLost, EnqueueLost
  <2> QED
    BY <2>1, LeaseFrame DEF OnArt, OnManifest
<1>2. ASSUME NEW t \in Tasks, EnqueueCompletion(t) PROVE LeaseInv' /\ RetryInv'
  <2>1. Found(t) \in SUBSET Arts
    BY <1>0, FoundType
  <2>2. Enqueued(t, Found(t)) /\ UNCHANGED <<at, work, plan, strayed>>
    BY <1>2 DEF EnqueueCompletion
  <2> QED
    BY <2>1, <2>2, EnqueuedLeases DEF OnArt, OnManifest
<1>3. ASSUME NEW t \in Tasks, ManifestLeaseExpires(t) PROVE LeaseInv' /\ RetryInv'
  <2>1. \A c \in Threads : OnManifest(c, t) => t \in strayed
    BY <1>0, <1>3 DEF ManifestLeaseExpires, LeaseInv
  <2>2. \A u \in Tasks : /\ u # t => task'[u] = task[u]
                         /\ task'[u].cloud = task[u].cloud /\ task'[u].mstatus = task[u].mstatus
    BY <1>0, <1>3 DEF ManifestLeaseExpires, TypeOK, TaskRows
  <2>3. UNCHANGED <<art, at, work, plan, strayed>>
    BY <1>3 DEF ManifestLeaseExpires
  <2>4. LeaseInv'
    BY <1>0, <2>1, <2>2, <2>3 DEF LeaseInv, OnArt, OnManifest
  <2>5. \A e \in plan[Operator] : e.task \in Tasks
    BY <1>0 DEF TypeOK, Registrars
  <2>6. RetryInv'
    BY <1>0, <2>2, <2>3, <2>5 DEF RetryInv, Ended
  <2> QED
    BY <2>4, <2>6
<1>4. ASSUME NEW a \in Arts, ArtifactLeaseExpires(a) PROVE LeaseInv' /\ RetryInv'
  <2>1. \A c \in Threads : OnArt(c, a) => a \in strayed
    BY <1>0, <1>4 DEF ArtifactLeaseExpires, LeaseInv
  <2>2. UNCHANGED <<task, at, work, plan, strayed>> /\ \A b \in Arts \ {a} : art'[b] = art[b]
    BY <1>0, <1>4 DEF ArtifactLeaseExpires, TypeOK
  <2>3. LeaseInv'
    BY <1>0, <2>1, <2>2 DEF LeaseInv, OnArt, OnManifest
  <2>4. RetryInv'
    BY <1>0, <2>2 DEF RetryInv, Ended
  <2> QED
    BY <2>3, <2>4
<1>5. ASSUME NEW S \in SUBSET Tasks, BackfillRead(S) PROVE LeaseInv' /\ RetryInv'
  <2>1. UNCHANGED <<task, art, at, work, strayed>> /\ \A c \in Threads : plan'[c] = plan[c]
    BY <1>0, <1>5, CloudAssumption DEF BackfillRead, TypeOK, Registrars
  <2>2. LeaseInv'
    BY <1>0, <2>1 DEF LeaseInv, OnArt, OnManifest
  <2>3. plan'[Operator] = {[task |-> t, do |-> IF task[t] = NoTask THEN "look" ELSE "retry",
                            found |-> {}] : t \in S}
    BY <1>0, <1>5 DEF BackfillRead, TypeOK, Registrars
  <2>4. \A t \in S : task[t] # NoTask => Ended(t)
    BY <1>0, <1>5 DEF BackfillRead, RetryInv
  <2>5. \A e \in plan'[Operator] : e.do = "retry" => Ended(e.task)
    BY <2>3, <2>4
  <2>6. \A e, f \in plan'[Operator] : e.task = f.task => e = f
    <3> DEFINE entry(t) == [task |-> t, found |-> {},
                            do |-> IF task[t] = NoTask THEN "look" ELSE "retry"]
    <3>1. \A t \in S : entry(t).task = t
      OBVIOUS
    <3>2. \A e \in plan'[Operator] : \E t \in S : e = entry(t)
      BY <2>3
    <3> HIDE DEF entry
    <3> QED
      BY <3>1, <3>2
  <2>7. RetryInv'
    BY <1>0, <2>1, <2>5, <2>6 DEF RetryInv, Ended
  <2> QED
    BY <2>2, <2>7
<1>6. ASSUME NEW r \in Registrars, NEW e \in plan[r], PlanWrite(r, e) PROVE LeaseInv' /\ RetryInv'
  <2>1. e.task \in Tasks /\ e.found \in SUBSET Arts
    BY <1>0 DEF TypeOK
  <2>2. \A q \in Registrars : plan'[q] \subseteq plan[q]
    BY <1>0, <1>6 DEF PlanWrite, TypeOK
  <2>3. work' = work /\ strayed' = strayed /\ \A c \in Threads : at'[c] = "idle" \/ at'[c] = at[c]
    BY <1>0, <1>6 DEF PlanWrite, TypeOK
  <2>4. /\ \A c \in Threads, a \in Arts : OnArt(c, a)' => OnArt(c, a)
        /\ \A c \in Threads, u \in Tasks : OnManifest(c, u)' => OnManifest(c, u)
    BY <2>3 DEF OnArt, OnManifest, OnArtifactRow, OnManifestRow
  <2>5. CASE Enqueued(e.task, e.found)
    BY <2>1, <2>2, <2>3, <2>4, <2>5, EnqueuedLeases
  <2>6. CASE e.do = "retry" /\ ResetFailed(e.task)
    <3>1. r = Operator /\ (e.task \notin strayed => Ended(e.task))
      BY <1>0, <1>6, <2>6 DEF RetryInv, Registrars
    <3>2. /\ \A a \in Arts : art[a].status = "uploading" => art'[a] = art[a]
          /\ \A u \in Tasks \ {e.task} : task'[u] = task[u]
          /\ task'[e.task].cloud = "pending"
      BY <1>0, <2>1, <2>6, ResetKeepsWork
    <3>3. \A c \in Threads : OnManifest(c, e.task) => e.task \in strayed
      BY <1>0, <2>1, <3>1 DEF LeaseInv, Ended
    <3>4. LeaseInv'
      BY <1>0, <2>3, <2>4, <3>2, <3>3 DEF LeaseInv
    <3>5. \A f \in plan'[Operator] : f \in plan[Operator] /\ f # e
      BY <1>0, <1>6, <3>1 DEF PlanWrite, TypeOK
    <3>6. \A f \in plan'[Operator] : f.task \in Tasks \ {e.task}
      BY <1>0, <1>6, <3>1, <3>5 DEF RetryInv, TypeOK
    <3>7. \A f \in plan'[Operator] : f.do = "retry" /\ f.task \notin strayed' => Ended(f.task)'
      BY <1>0, <2>3, <3>2, <3>5, <3>6 DEF RetryInv, Ended
    <3>8. \A u \in Tasks : task'[u].cloud = "cloud_failed" => Ended(u)'
      BY <1>0, <2>1, <3>2 DEF RetryInv, Ended
    <3>9. \A c \in Threads : plan'[c] \subseteq plan[c]
      BY <2>2 DEF Registrars
    <3>10. RetryInv'
      BY <1>0, <3>5, <3>7, <3>8, <3>9 DEF RetryInv, Ended
    <3> QED
      BY <3>4, <3>10
  <2> QED
    BY <1>6, <2>5, <2>6 DEF PlanWrite
<1>7. ASSUME NEW c \in Threads, ReconcileRead(c) PROVE LeaseInv' /\ RetryInv'
  <2>1. /\ UNCHANGED <<task, art, work, strayed>>
        /\ \A d \in Threads : at'[d] = at[d] \/ at'[d] = "reconcile"
    BY <1>0, <1>7 DEF ReconcileRead, TypeOK
  <2>2. LeaseInv'
    BY <1>0, <2>1 DEF LeaseInv, OnArt, OnManifest, OnArtifactRow, OnManifestRow
  <2>3. /\ plan'[Operator] = plan[Operator]
        /\ \A d \in Threads : \A e \in plan'[d] : e \in plan[d] \/ e.do = "look"
    BY <1>0, <1>7, CloudAssumption DEF ReconcileRead, TypeOK, Registrars
  <2>4. RetryInv'
    BY <1>0, <2>1, <2>3 DEF RetryInv, Ended
  <2> QED
    BY <2>2, <2>4
<1>8. ASSUME NEW c \in Threads, StoreRaises(c) \/ ThreadDies(c) \/ ThreadStarts(c)
      PROVE  LeaseInv' /\ RetryInv'
  <2>1. /\ UNCHANGED <<task, art, strayed>>
        /\ \A d \in Threads : at'[d] \in {"idle", "down"} \/ (at'[d] = at[d] /\ work'[d] = work[d])
    BY <1>0, <1>8 DEF StoreRaises, ThreadDies, ThreadStarts, ToIdle, Step, TypeOK
  <2>2. LeaseInv'
    BY <1>0, <2>1 DEF LeaseInv, OnArt, OnManifest, OnArtifactRow, OnManifestRow
  <2>3. plan'[Operator] = plan[Operator] /\ \A d \in Threads : plan'[d] \subseteq plan[d]
    BY <1>0, <1>8, CloudAssumption DEF StoreRaises, ThreadDies, ThreadStarts, TypeOK, Registrars
  <2>4. RetryInv'
    BY <1>0, <2>1, <2>3 DEF RetryInv, Ended
  <2> QED
    BY <2>2, <2>4
<1>9. ASSUME NEW c \in Threads, NEW a \in Arts, ClaimArtifact(c, a) PROVE LeaseInv' /\ RetryInv'
  <2>1. \A d \in Threads : OnArt(d, a) => a \in strayed
    BY <1>0, <1>9 DEF ClaimArtifact, Claimable, LeaseInv
  <2>2. /\ art'[a].status = "uploading" /\ art'[a].owner = c /\ art'[a].live
        /\ \A b \in Arts \ {a} : art'[b] = art[b]
    BY <1>0, <1>9 DEF ClaimArtifact, TypeOK
  <2>3. /\ at'[c] = "fetch" /\ work'[c] = a /\ plan' = plan /\ strayed' = strayed
        /\ \A d \in Threads \ {c} : at'[d] = at[d] /\ work'[d] = work[d]
    BY <1>0, <1>9 DEF ClaimArtifact, TypeOK
  <2>4. \A u \in Tasks : /\ task'[u].cloud = task[u].cloud \/ task'[u].cloud = "uploading"
                         /\ task'[u].mstatus = task[u].mstatus
                         /\ task'[u].mowner = task[u].mowner /\ task'[u].mlive = task[u].mlive
    <3>1. TaskOf[a] \in Tasks /\ task' = [task EXCEPT ![TaskOf[a]].cloud = "uploading"]
      BY <1>9, CloudAssumption DEF ClaimArtifact
    <3>2. \A u \in Tasks : task[u] \in TaskRows
      BY <1>0 DEF TypeOK
    <3> QED
      BY <1>0, <3>1, <3>2 DEF TypeOK, TaskRows
  <2>5. LeaseInv'
    BY <1>0, <2>1, <2>2, <2>3, <2>4 DEF LeaseInv, OnArt, OnManifest, OnArtifactRow, OnManifestRow
  <2>6. \A u \in Tasks : Ended(u)' <=> Ended(u)
    BY <2>4 DEF Ended
  <2>7. \A e \in plan[Operator] : e.task \in Tasks
    BY <1>0 DEF TypeOK, Registrars
  <2>8. RetryInv'
    BY <1>0, <2>3, <2>4, <2>6, <2>7 DEF RetryInv, Ended
  <2> QED
    BY <2>5, <2>8
<1>10. ASSUME NEW c \in Threads, NEW a \in Arts, RenewArtifact(c, a) PROVE LeaseInv' /\ RetryInv'
  <2>1. /\ UNCHANGED <<task, at, work, plan, strayed>>
        /\ \A b \in Arts : /\ art'[b].status = art[b].status /\ art'[b].owner = art[b].owner
                           /\ art[b].live => art'[b].live
    BY <1>0, <1>10 DEF RenewArtifact, TypeOK, ArtRows
  <2>2. LeaseInv'
    BY <1>0, <2>1 DEF LeaseInv, OnArt, OnManifest
  <2>3. RetryInv'
    BY <1>0, <2>1 DEF RetryInv, Ended
  <2> QED
    BY <2>2, <2>3
<1>11. ASSUME NEW c \in Threads, NEW t \in Tasks, ClaimManifest(c, t) PROVE LeaseInv' /\ RetryInv'
  <2>1. /\ \A d \in Threads : OnManifest(d, t) => t \in strayed
        /\ ~Ended(t) /\ task[t].cloud # "cloud_failed"
    BY <1>0, <1>11 DEF ClaimManifest, Claimable, LeaseInv, RetryInv, Ended
  <2>2. /\ task'[t].mstatus = "uploading" /\ task'[t].mowner = c /\ task'[t].mlive
        /\ task'[t].cloud = task[t].cloud
        /\ \A u \in Tasks \ {t} : task'[u] = task[u]
    <3>1. task[t] \in TaskRows
      BY <1>0 DEF TypeOK
    <3> QED
      BY <1>0, <1>11, <3>1 DEF ClaimManifest, TypeOK, TaskRows
  <2>3. /\ at'[c] = "build" /\ work'[c] = t
        /\ plan' = plan /\ art' = art /\ strayed' = strayed
        /\ \A d \in Threads \ {c} : at'[d] = at[d] /\ work'[d] = work[d]
    BY <1>0, <1>11 DEF ClaimManifest, TypeOK
  <2>4. LeaseInv'
    BY <1>0, <2>1, <2>2, <2>3 DEF LeaseInv, OnArt, OnManifest, OnArtifactRow, OnManifestRow
  <2>5. \A u \in Tasks : Ended(u) => Ended(u)'
    BY <2>1, <2>2 DEF Ended
  <2>6. \A e \in plan[Operator] : e.task \in Tasks
    BY <1>0 DEF TypeOK, Registrars
  <2>7. RetryInv'
    BY <1>0, <2>1, <2>2, <2>3, <2>5, <2>6 DEF RetryInv, Ended
  <2> QED
    BY <2>4, <2>7
<1>12. ASSUME NEW c \in Threads, NEW t \in Tasks, RenewManifest(c, t) PROVE LeaseInv' /\ RetryInv'
  <2>1. /\ UNCHANGED <<art, at, work, plan, strayed>>
        /\ \A u \in Tasks : /\ task'[u].cloud = task[u].cloud /\ task'[u].mstatus = task[u].mstatus
                            /\ task'[u].mowner = task[u].mowner
                            /\ task[u].mlive => task'[u].mlive
    BY <1>0, <1>12 DEF RenewManifest, TypeOK, TaskRows
  <2>2. LeaseInv'
    BY <1>0, <2>1 DEF LeaseInv, OnArt, OnManifest
  <2>3. \A e \in plan[Operator] : e.task \in Tasks
    BY <1>0 DEF TypeOK, Registrars
  <2>4. RetryInv'
    BY <1>0, <2>1, <2>3 DEF RetryInv, Ended
  <2> QED
    BY <2>2, <2>4
<1>13. ASSUME NEW c \in Threads,
              Fetched(c) \/ Transferred(c) \/ BuildManifest(c) \/ ManifestTransferred(c)
       PROVE  LeaseInv' /\ RetryInv'
  <2>1. UNCHANGED <<task, art, work, plan, strayed>>
    BY <1>13 DEF Fetched, Transferred, BuildManifest, ManifestTransferred
  <2>2. \A d \in Threads : /\ at'[d] \in OnArtifactRow => at[d] \in OnArtifactRow
                           /\ at'[d] \in OnManifestRow => at[d] \in OnManifestRow
    BY <1>0, <1>13 DEF Fetched, Transferred, BuildManifest, ManifestTransferred, Step, TypeOK,
                       OnArtifactRow, OnManifestRow
  <2> QED
    BY <2>1, <2>2, LeaseFrame DEF OnArt, OnManifest
<1>14. ASSUME NEW c \in Threads,
              ArtifactSucceeded(c) \/ ArtifactFailed(c) \/ ArtifactSourceMissing(c)
       PROVE  LeaseInv' /\ RetryInv'
  <2>1. work[c] \in Arts /\ OnArt(c, work[c])
    BY <1>0, <1>14
    DEF ArtifactSucceeded, ArtifactFailed, ArtifactSourceMissing, TypeOK, OnArt, OnArtifactRow
  <2>2. PICK s \in ArtStatuses : /\ ArtifactResult(work[c], s) /\ ToIdle(c)
                                 /\ plan' = plan /\ strayed' = strayed
    BY <1>14 DEF ArtifactSucceeded, ArtifactFailed, ArtifactSourceMissing, FailedStatus,
                 ArtStatuses, Settled
  <2>3. /\ \A b \in Arts \ {work[c]} : art'[b] = art[b]
        /\ \A u \in Tasks : /\ task'[u].cloud = task[u].cloud
                            /\ task'[u].mstatus = task[u].mstatus
                            /\ task'[u].mowner = task[u].mowner
                            /\ task'[u].mlive = task[u].mlive
    BY <1>0, <2>1, <2>2, ResultKeepsWork
  <2>4. at'[c] = "idle" /\ \A d \in Threads \ {c} : at'[d] = at[d] /\ work'[d] = work[d]
    BY <1>0, <2>2, ToIdleType
  <2>5. \A d \in Threads \ {c} : OnArt(d, work[c]) => work[c] \in strayed
    BY <1>0, <2>1 DEF LeaseInv
  <2>6. LeaseInv'
    BY <1>0, <2>2, <2>3, <2>4, <2>5 DEF LeaseInv, OnArt, OnManifest, OnArtifactRow, OnManifestRow
  <2>7. \A e \in plan[Operator] : e.task \in Tasks
    BY <1>0 DEF TypeOK, Registrars
  <2>8. RetryInv'
    BY <1>0, <2>2, <2>3, <2>7 DEF RetryInv, Ended
  <2> QED
    BY <2>6, <2>8
<1>15. ASSUME NEW c \in Threads, ManifestSucceeded(c) \/ ManifestFailed(c)
       PROVE  LeaseInv' /\ RetryInv'
  <2>1. work[c] \in Tasks /\ OnManifest(c, work[c])
    BY <1>0, <1>15 DEF ManifestSucceeded, ManifestFailed, TypeOK, OnManifest, OnManifestRow
  <2>2. PICK s \in Final \cup {"uploading"}, m \in {"uploaded", "failed", "pending"} :
           /\ m = "pending" => s = "uploading"
           /\ task' = [task EXCEPT ![work[c]] =
                     [@ EXCEPT !.cloud = s, !.mstatus = m, !.mowner = Nobody, !.mlive = FALSE]]
    BY <1>15 DEF ManifestSucceeded, ManifestFailed, DesiredStatus, Final
  <2>3. task[work[c]] \in TaskRows
    BY <1>0, <2>1 DEF TypeOK
  <2>4. /\ task'[work[c]].cloud = s /\ task'[work[c]].mstatus = m
        /\ \A u \in Tasks \ {work[c]} : task'[u] = task[u]
    BY <1>0, <2>1, <2>2, <2>3 DEF TypeOK, TaskRows
  <2>5. ToIdle(c) /\ plan' = plan /\ art' = art /\ strayed' = strayed
    BY <1>15 DEF ManifestSucceeded, ManifestFailed
  <2>6. at'[c] = "idle" /\ \A d \in Threads \ {c} : at'[d] = at[d] /\ work'[d] = work[d]
    BY <1>0, <2>5, ToIdleType
  <2>7. work[c] \notin strayed =>
          (\A d \in Threads \ {c} : ~OnManifest(d, work[c])) /\ ~Ended(work[c])
    BY <1>0, <2>1 DEF LeaseInv, Ended
  <2>8. LeaseInv'
    BY <1>0, <2>4, <2>5, <2>6, <2>7 DEF LeaseInv, OnArt, OnManifest, OnArtifactRow, OnManifestRow
  <2>9. \A u \in Tasks \ strayed : Ended(u) => Ended(u)'
    BY <2>4, <2>7 DEF Ended
  <2>10. \A u \in Tasks : task'[u].cloud = "cloud_failed" => Ended(u)'
    BY <1>0, <2>2, <2>4 DEF RetryInv, Ended
  <2>11. \A e \in plan[Operator] : e.task \in Tasks
    BY <1>0 DEF TypeOK, Registrars
  <2>12. RetryInv'
    BY <1>0, <2>5, <2>9, <2>10, <2>11 DEF RetryInv, Ended
  <2> QED
    BY <2>8, <2>12
<1>16. ASSUME NEW r \in Registrars, NEW e \in plan[r], PlanLook(r, e) PROVE LeaseInv' /\ RetryInv'
  <2>1. UNCHANGED <<task, art, at, work, strayed>>
    BY <1>16 DEF PlanLook
  <2>2. LeaseInv'
    BY <1>0, <2>1 DEF LeaseInv, OnArt, OnManifest
  <2>3. \A q \in Registrars \ {r} : plan'[q] = plan[q]
    BY <1>0, <1>16 DEF PlanLook, TypeOK
  <2>4. PICK f : /\ plan'[r] = (plan[r] \ {e}) \cup {f}
                 /\ f.task = e.task /\ f.do = "register"
    BY <1>0, <1>16 DEF PlanLook, TypeOK
  <2>5. \A g, h \in plan'[Operator] : g.task = h.task => g = h
    <3>1. CASE r = Operator
      BY <1>0, <2>4, <3>1 DEF RetryInv
    <3>2. CASE r # Operator
      BY <1>0, <2>3, <3>2 DEF RetryInv, Registrars
    <3> QED
      BY <3>1, <3>2
  <2>6. \A q \in Registrars : \A g \in plan'[q] : g.do = "retry" => g \in plan[q]
    BY <2>3, <2>4
  <2>7. RetryInv'
    BY <1>0, <2>1, <2>5, <2>6 DEF RetryInv, Ended, Registrars
  <2> QED
    BY <2>2, <2>7
<1>17. ASSUME NEW c \in Threads, NEW a \in Arts, ArtifactLeaseOutlived(c, a)
       PROVE  LeaseInv' /\ RetryInv'
  <2>1. UNCHANGED <<task, at, work, plan>> /\ strayed' = strayed \cup {a}
    BY <1>17 DEF ArtifactLeaseOutlived
  <2>2. \A b \in Arts \ {a} : art'[b] = art[b]
    BY <1>0, <1>17 DEF ArtifactLeaseOutlived, TypeOK
  <2>3. LeaseInv'
    BY <1>0, <2>1, <2>2 DEF LeaseInv, OnArt, OnManifest
  <2>4. RetryInv'
    BY <1>0, <2>1 DEF RetryInv, Ended
  <2> QED
    BY <2>3, <2>4
<1>18. ASSUME NEW c \in Threads, NEW t \in Tasks, ManifestLeaseOutlived(c, t)
       PROVE  LeaseInv' /\ RetryInv'
  <2>1. UNCHANGED <<art, at, work, plan>> /\ strayed' = strayed \cup {t}
    BY <1>18 DEF ManifestLeaseOutlived
  <2>2. \A u \in Tasks : /\ u # t => task'[u] = task[u]
                         /\ task'[u].cloud = task[u].cloud /\ task'[u].mstatus = task[u].mstatus
    BY <1>0, <1>18 DEF ManifestLeaseOutlived, TypeOK, TaskRows
  <2>3. LeaseInv'
    BY <1>0, <2>1, <2>2 DEF LeaseInv, OnArt, OnManifest
  <2>4. \A e \in plan[Operator] : e.task \in Tasks
    BY <1>0 DEF TypeOK, Registrars
  <2>5. RetryInv'
    BY <1>0, <2>1, <2>2, <2>4 DEF RetryInv, Ended
  <2> QED
    BY <2>3, <2>5
<1>19. CASE UNCHANGED vars
  BY <1>19, LeaseFrame DEF vars, OnArt, OnManifest
<1> QED
  BY <1>1, <1>2, <1>3, <1>4, <1>5, <1>6, <1>7, <1>8, <1>9, <1>10, <1>11, <1>12, <1>13,
     <1>14, <1>15, <1>16, <1>17, <1>18, <1>19
  DEF Next, SchedulerStep, Progress, Registrars

(* The invariant of the leases holds throughout.                            *)
LEMMA CloudInvariant == Spec => []CloudInv
<1>1. Init => CloudInv
  BY TypeInit, LeaseInit DEF CloudInv
<1>2. CloudInv /\ [Next]_vars => CloudInv'
  <2> SUFFICES ASSUME CloudInv, [Next]_vars PROVE CloudInv'
    OBVIOUS
  <2>1. TypeOK'
    BY TypeStep DEF CloudInv
  <2>2. LeaseInv' /\ RetryInv'
    BY <2>1, LeaseStep
  <2> QED
    BY <2>1, <2>2 DEF CloudInv
<1> QED
  BY <1>1, <1>2, PTL DEF Spec

(* However threads die, databases fail, failed uploads are retried and      *)
(* leases of other rows are outlived, two upload threads never work on the  *)
(* same media object or manifest while its own leases are kept.             *)
THEOREM NoDuplicateUploadHolds == Spec => []NoDuplicateUpload
<1>1. CloudInv => NoDuplicateUpload
  BY DEF CloudInv, LeaseInv, NoDuplicateUpload
<1> QED
  BY <1>1, CloudInvariant, PTL

-----------------------------------------------------------------------------
(* The live leases of the rows that did not stray; claim_artifact and       *)
(* claim_manifest count them and maybe more.                                *)
LiveArts == {a \in Arts \ strayed : art[a].status = "uploading" /\ art[a].live}
LiveManifests == {t \in Tasks \ strayed : task[t].mstatus = "uploading" /\ task[t].mlive}
LeasesInLimit == Cardinality(LiveArts) + Cardinality(LiveManifests) <= Concurrency

(* How many they are is a number, not above what is counted.                *)
LEMMA LiveCounts ==
  /\ IsFiniteSet(LiveArts) /\ Cardinality(LiveArts) \in Nat
  /\ IsFiniteSet(LiveManifests) /\ Cardinality(LiveManifests) \in Nat
  /\ LiveLeases \in Nat
  /\ Cardinality(LiveArts) + Cardinality(LiveManifests) <= LiveLeases
<1> DEFINE A == {a \in Arts : art[a].status = "uploading" /\ art[a].live}
           M == {t \in Tasks : task[t].mstatus = "uploading" /\ task[t].mlive}
<1>1. LiveArts \subseteq A /\ LiveManifests \subseteq M
  BY DEF LiveArts, LiveManifests
<1>2. IsFiniteSet(A) /\ IsFiniteSet(M)
  BY FS_Subset, CloudAssumption
<1>3. LiveLeases = Cardinality(A) + Cardinality(M)
  BY DEF LiveLeases
<1> HIDE DEF A, M
<1>4. /\ IsFiniteSet(LiveArts) /\ Cardinality(LiveArts) <= Cardinality(A)
      /\ IsFiniteSet(LiveManifests) /\ Cardinality(LiveManifests) <= Cardinality(M)
  BY <1>1, <1>2, FS_Subset
<1>5. /\ Cardinality(A) \in Nat /\ Cardinality(M) \in Nat
      /\ Cardinality(LiveArts) \in Nat /\ Cardinality(LiveManifests) \in Nat
  BY <1>2, <1>4, FS_CardinalityType
<1> QED
  BY <1>3, <1>4, <1>5

(* The same of the next state.                                              *)
LEMMA NextLiveCounts ==
  /\ IsFiniteSet(LiveArts') /\ Cardinality(LiveArts') \in Nat
  /\ IsFiniteSet(LiveManifests') /\ Cardinality(LiveManifests') \in Nat
<1>1. IsFiniteSet(LiveArts') /\ IsFiniteSet(LiveManifests')
  BY FS_Subset, CloudAssumption DEF LiveArts, LiveManifests
<1> QED
  BY <1>1, FS_CardinalityType

(* Steps after which no further lease is live.                              *)
LEMMA LiveFrame ==
  ASSUME LeasesInLimit, LiveArts' \subseteq LiveArts, LiveManifests' \subseteq LiveManifests
  PROVE  LeasesInLimit'
<1>1. /\ Cardinality(LiveArts') <= Cardinality(LiveArts)
      /\ Cardinality(LiveManifests') <= Cardinality(LiveManifests)
  BY LiveCounts, FS_Subset
<1>2. Concurrency \in Nat
  BY CloudAssumption
<1> QED
  BY <1>1, <1>2, LiveCounts, NextLiveCounts DEF LeasesInLimit

(* A step that takes one lease when a slot is free.                         *)
LEMMA LiveClaim ==
  ASSUME SlotFree, NEW a, NEW t,
         \/ LiveArts' \subseteq LiveArts \cup {a} /\ LiveManifests' \subseteq LiveManifests
         \/ LiveArts' \subseteq LiveArts /\ LiveManifests' \subseteq LiveManifests \cup {t}
  PROVE  LeasesInLimit'
<1>1. Concurrency \in Nat
  BY CloudAssumption
<1>2. ASSUME NEW S, NEW T, NEW x, IsFiniteSet(T), S \subseteq T \cup {x}
      PROVE  Cardinality(S) <= Cardinality(T) + 1
  <2>0. Cardinality(T) \in Nat
    BY <1>2, FS_CardinalityType
  <2>1. IsFiniteSet(T \cup {x}) /\ Cardinality(T \cup {x}) <= Cardinality(T) + 1
    BY <1>2, <2>0, FS_AddElement
  <2>2. IsFiniteSet(S) /\ Cardinality(S) <= Cardinality(T \cup {x})
    BY <1>2, <2>1, FS_Subset
  <2>3. Cardinality(S) \in Nat /\ Cardinality(T) \in Nat /\ Cardinality(T \cup {x}) \in Nat
    BY <1>2, <2>1, <2>2, FS_CardinalityType
  <2> QED
    BY <2>1, <2>2, <2>3
<1>3. ASSUME NEW S, NEW T, IsFiniteSet(T), S \subseteq T
      PROVE  Cardinality(S) <= Cardinality(T)
  BY <1>3, FS_Subset
<1>4. CASE LiveArts' \subseteq LiveArts \cup {a} /\ LiveManifests' \subseteq LiveManifests
  <2>1. /\ Cardinality(LiveArts') <= Cardinality(LiveArts) + 1
        /\ Cardinality(LiveManifests') <= Cardinality(LiveManifests)
    BY <1>2, <1>3, <1>4, LiveCounts
  <2> QED
    BY <1>1, <2>1, LiveCounts, NextLiveCounts DEF LeasesInLimit, SlotFree
<1>5. CASE LiveArts' \subseteq LiveArts /\ LiveManifests' \subseteq LiveManifests \cup {t}
  <2>1. /\ Cardinality(LiveArts') <= Cardinality(LiveArts)
        /\ Cardinality(LiveManifests') <= Cardinality(LiveManifests) + 1
    BY <1>2, <1>3, <1>5, LiveCounts
  <2> QED
    BY <1>1, <2>1, LiveCounts, NextLiveCounts DEF LeasesInLimit, SlotFree
<1> QED
  BY <1>4, <1>5

(* Registration and reset leave no live lease that was not live before.     *)
LEMMA EnqueuedNotLive ==
  ASSUME TypeOK, NEW t \in Tasks, NEW found \in SUBSET Arts, Enqueued(t, found),
         strayed' = strayed
  PROVE  LiveArts' \subseteq LiveArts /\ LiveManifests' \subseteq LiveManifests
<1>1. [NoArt EXCEPT !.status = "pending"].status = "pending"
  BY DEF NoArt
<1>2. LiveArts' \subseteq LiveArts
  BY <1>1 DEF Enqueued, LiveArts
<1>3. \A u \in Tasks : task[u] # NoTask =>
           /\ task'[u].mstatus = task[u].mstatus
           /\ task'[u].mlive = task[u].mlive
  BY EnqueuedKeepsWork
<1> DEFINE fresh == [NoTask EXCEPT !.cloud = IF found = {} THEN "no_artifacts" ELSE "pending",
                                   !.count = Cardinality(found), !.mstatus = "pending"]
<1>4. \A u \in Tasks : task[u] = NoTask => task'[u] = fresh \/ task'[u] = NoTask
  BY DEF Enqueued, TypeOK
<1>5. fresh.mstatus = "pending" /\ NoTask.mstatus = "none"
  BY DEF NoTask
<1> HIDE DEF fresh
<1>6. LiveManifests' \subseteq LiveManifests
  BY <1>3, <1>4, <1>5 DEF LiveManifests
<1> QED
  BY <1>2, <1>6

(* A reset restarts rows without a lease.                                   *)
LEMMA ResetNotLive ==
  ASSUME TypeOK, NEW t \in Tasks, ResetFailed(t), strayed' = strayed
  PROVE  LiveArts' \subseteq LiveArts /\ LiveManifests' \subseteq LiveManifests
<1>1. [NoArt EXCEPT !.status = "pending"].status = "pending"
  BY DEF NoArt
<1>2. LiveArts' \subseteq LiveArts
  BY <1>1 DEF ResetFailed, LiveArts
<1>3. task[t] \in TaskRows
  BY DEF TypeOK
<1>4. task'[t].mlive = FALSE /\ \A u \in Tasks \ {t} : task'[u] = task[u]
  BY <1>3 DEF ResetFailed, TypeOK, TaskRows
<1>5. LiveManifests' \subseteq LiveManifests
  BY <1>4 DEF LiveManifests
<1> QED
  BY <1>2, <1>5

(* No step takes them beyond the configured concurrency: a claim counts     *)
(* them first, and nothing else makes one live of a row that did not stray. *)
LEMMA LimitStep ==
  ASSUME CloudInv, LeasesInLimit, [Next]_vars
  PROVE  LeasesInLimit'
<1> USE DEF jobVars, storeVars, threadVars, ossVars, auxVars, bounds
<1>0. TypeOK /\ LeaseInv /\ RetryInv
  BY DEF CloudInv
<1>1. UNCHANGED <<storeVars, strayed>> => LeasesInLimit'
  BY LiveFrame DEF LiveArts, LiveManifests
<1>2. ASSUME NEW t \in Tasks,
             SaveHistory(t) \/ JobCompletes(t) \/ CompleteRaises(t) \/ JobCancelled(t)
             \/ JobLost(t) \/ EnqueueLost(t)
      PROVE  LeasesInLimit'
  BY <1>1, <1>2 DEF SaveHistory, JobCompletes, CompleteRaises, JobCancelled, JobLost, EnqueueLost
<1>3. ASSUME NEW c \in Threads,
             \/ Fetched(c) \/ Transferred(c) \/ BuildManifest(c) \/ ManifestTransferred(c)
             \/ ReconcileRead(c) \/ StoreRaises(c) \/ ThreadDies(c) \/ ThreadStarts(c)
      PROVE  LeasesInLimit'
  BY <1>1, <1>3 DEF Fetched, Transferred, BuildManifest, ManifestTransferred, ReconcileRead,
                    StoreRaises, ThreadDies, ThreadStarts
<1>4. ASSUME NEW S \in SUBSET Tasks, BackfillRead(S) PROVE LeasesInLimit'
  BY <1>1, <1>4 DEF BackfillRead
<1>5. ASSUME NEW t \in Tasks, EnqueueCompletion(t) PROVE LeasesInLimit'
  BY <1>0, <1>5, FoundType, EnqueuedNotLive, LiveFrame DEF EnqueueCompletion
<1>6. ASSUME NEW r \in Registrars, NEW e \in plan[r], PlanWrite(r, e) PROVE LeasesInLimit'
  <2>1. e.task \in Tasks /\ e.found \in SUBSET Arts
    BY <1>0 DEF TypeOK
  <2> QED
    BY <1>0, <1>6, <2>1, EnqueuedNotLive, ResetNotLive, LiveFrame DEF PlanWrite
<1>7. ASSUME NEW t \in Tasks, ManifestLeaseExpires(t) PROVE LeasesInLimit'
  <2>1. /\ art' = art /\ strayed' = strayed
        /\ \A u \in Tasks : task'[u].mlive => task'[u] = task[u]
    BY <1>0, <1>7 DEF ManifestLeaseExpires, TypeOK, TaskRows
  <2> QED
    BY <2>1, LiveFrame DEF LiveArts, LiveManifests
<1>8. ASSUME NEW a \in Arts, ArtifactLeaseExpires(a) PROVE LeasesInLimit'
  <2>1. /\ task' = task /\ strayed' = strayed
        /\ \A b \in Arts : art'[b].live => art'[b] = art[b]
    BY <1>0, <1>8 DEF ArtifactLeaseExpires, TypeOK, ArtRows
  <2> QED
    BY <2>1, LiveFrame DEF LiveArts, LiveManifests
<1>9. ASSUME NEW c \in Threads, NEW a \in Arts, RenewArtifact(c, a) PROVE LeasesInLimit'
  <2>1. a \notin strayed => art[a].status = "uploading" /\ art[a].live
    BY <1>0, <1>9 DEF RenewArtifact, LeaseInv, OnArt, OnArtifactRow
  <2>2. task' = task /\ strayed' = strayed /\ \A b \in Arts \ {a} : art'[b] = art[b]
    BY <1>0, <1>9 DEF RenewArtifact, TypeOK
  <2> QED
    BY <2>1, <2>2, LiveFrame DEF LiveArts, LiveManifests
<1>10. ASSUME NEW c \in Threads, NEW t \in Tasks, RenewManifest(c, t) PROVE LeasesInLimit'
  <2>1. t \notin strayed => task[t].mstatus = "uploading" /\ task[t].mlive
    BY <1>0, <1>10 DEF RenewManifest, LeaseInv, OnManifest, OnManifestRow
  <2>2. art' = art /\ strayed' = strayed /\ \A u \in Tasks \ {t} : task'[u] = task[u]
    BY <1>0, <1>10 DEF RenewManifest, TypeOK
  <2> QED
    BY <2>1, <2>2, LiveFrame DEF LiveArts, LiveManifests
<1>11. ASSUME NEW c \in Threads, NEW a \in Arts, ClaimArtifact(c, a) PROVE LeasesInLimit'
  <2>1. SlotFree /\ strayed' = strayed /\ \A b \in Arts \ {a} : art'[b] = art[b]
    BY <1>0, <1>11 DEF ClaimArtifact, TypeOK
  <2>2. \A u \in Tasks : task'[u].mstatus = task[u].mstatus /\ task'[u].mlive = task[u].mlive
    <3>1. TaskOf[a] \in Tasks /\ task' = [task EXCEPT ![TaskOf[a]].cloud = "uploading"]
      BY <1>11, CloudAssumption DEF ClaimArtifact
    <3>2. \A u \in Tasks : task[u] \in TaskRows
      BY <1>0 DEF TypeOK
    <3> QED
      BY <1>0, <3>1, <3>2 DEF TypeOK, TaskRows
  <2>3. LiveArts' \subseteq LiveArts \cup {a} /\ LiveManifests' \subseteq LiveManifests
    BY <2>1, <2>2 DEF LiveArts, LiveManifests
  <2> QED
    BY <2>1, <2>3, LiveClaim
<1>12. ASSUME NEW c \in Threads, NEW t \in Tasks, ClaimManifest(c, t) PROVE LeasesInLimit'
  <2>1. /\ SlotFree /\ art' = art /\ strayed' = strayed
        /\ \A u \in Tasks \ {t} : task'[u] = task[u]
    BY <1>0, <1>12 DEF ClaimManifest, TypeOK
  <2>2. LiveArts' \subseteq LiveArts /\ LiveManifests' \subseteq LiveManifests \cup {t}
    BY <2>1 DEF LiveArts, LiveManifests
  <2> QED
    BY <2>1, <2>2, LiveClaim
<1>13. ASSUME NEW c \in Threads,
              ArtifactSucceeded(c) \/ ArtifactFailed(c) \/ ArtifactSourceMissing(c)
       PROVE  LeasesInLimit'
  <2>1. work[c] \in Arts
    BY <1>0, <1>13 DEF ArtifactSucceeded, ArtifactFailed, ArtifactSourceMissing, TypeOK, OnArtifactRow
  <2>2. PICK s \in ArtStatuses : ArtifactResult(work[c], s) /\ strayed' = strayed
    BY <1>13 DEF ArtifactSucceeded, ArtifactFailed, ArtifactSourceMissing, FailedStatus,
                 ArtStatuses, Settled
  <2>3. /\ \A b \in Arts \ {work[c]} : art'[b] = art[b]
        /\ \A u \in Tasks : /\ task'[u].mstatus = task[u].mstatus
                            /\ task'[u].mlive = task[u].mlive
    BY <1>0, <2>1, <2>2, ResultKeepsWork
  <2>4. art'[work[c]].live = FALSE
    BY <1>0, <2>1, <2>2 DEF ArtifactResult, TypeOK, ArtRows
  <2> QED
    BY <2>2, <2>3, <2>4, LiveFrame DEF LiveArts, LiveManifests
<1>14. ASSUME NEW c \in Threads, ManifestSucceeded(c) \/ ManifestFailed(c) PROVE LeasesInLimit'
  <2>1. work[c] \in Tasks
    BY <1>0, <1>14 DEF ManifestSucceeded, ManifestFailed, TypeOK, OnManifestRow
  <2>2. task[work[c]] \in TaskRows
    BY <1>0, <2>1 DEF TypeOK
  <2>3. PICK s, m : task' = [task EXCEPT ![work[c]] =
                     [@ EXCEPT !.cloud = s, !.mstatus = m, !.mowner = Nobody, !.mlive = FALSE]]
    BY <1>14 DEF ManifestSucceeded, ManifestFailed
  <2>4. task'[work[c]].mlive = FALSE /\ \A u \in Tasks \ {work[c]} : task'[u] = task[u]
    BY <1>0, <2>1, <2>2, <2>3 DEF TypeOK, TaskRows
  <2>5. art' = art /\ strayed' = strayed
    BY <1>14 DEF ManifestSucceeded, ManifestFailed
  <2> QED
    BY <2>4, <2>5, LiveFrame DEF LiveArts, LiveManifests
<1>15. ASSUME NEW r \in Registrars, NEW e \in plan[r], PlanLook(r, e) PROVE LeasesInLimit'
  BY <1>1, <1>15 DEF PlanLook
<1>16. ASSUME NEW c \in Threads, NEW a \in Arts, ArtifactLeaseOutlived(c, a) PROVE LeasesInLimit'
  <2>1. task' = task /\ strayed' = strayed \cup {a} /\ \A b \in Arts \ {a} : art'[b] = art[b]
    BY <1>0, <1>16 DEF ArtifactLeaseOutlived, TypeOK
  <2> QED
    BY <2>1, LiveFrame DEF LiveArts, LiveManifests
<1>17. ASSUME NEW c \in Threads, NEW t \in Tasks, ManifestLeaseOutlived(c, t) PROVE LeasesInLimit'
  <2>1. art' = art /\ strayed' = strayed \cup {t} /\ \A u \in Tasks \ {t} : task'[u] = task[u]
    BY <1>0, <1>17 DEF ManifestLeaseOutlived, TypeOK
  <2> QED
    BY <2>1, LiveFrame DEF LiveArts, LiveManifests
<1>18. CASE UNCHANGED vars
  BY <1>1, <1>18 DEF vars
<1> QED
  BY <1>2, <1>3, <1>4, <1>5, <1>6, <1>7, <1>8, <1>9, <1>10, <1>11, <1>12, <1>13, <1>14, <1>15,
     <1>16, <1>17, <1>18
  DEF Next, SchedulerStep, Progress, Registrars

(* Threads at work on such rows map one to one to live leases.              *)
LEMMA LimitFromLeases == CloudInv /\ LeasesInLimit => GlobalUploadLimit
<1> SUFFICES ASSUME CloudInv, LeasesInLimit PROVE GlobalUploadLimit
  OBVIOUS
<1>0. TypeOK /\ LeaseInv
  BY DEF CloudInv
<1> DEFINE A == {c \in Threads : at[c] \in OnArtifactRow /\ work[c] \notin strayed}
           M == {c \in Threads : at[c] \in OnManifestRow /\ work[c] \notin strayed}
           f == [c \in A |-> work[c]]
           g == [c \in M |-> work[c]]
<1>1. \A c \in A : work[c] \in LiveArts /\ art[work[c]].owner = c
  BY <1>0 DEF LeaseInv, OnArt, LiveArts, TypeOK
<1>2. \A c \in M : work[c] \in LiveManifests /\ task[work[c]].mowner = c
  BY <1>0 DEF LeaseInv, OnManifest, LiveManifests, TypeOK
<1>3. f \in Injection(A, LiveArts) /\ g \in Injection(M, LiveManifests)
  BY <1>1, <1>2 DEF Injection, IsInjective
<1> HIDE DEF A, M, f, g
<1>4. /\ IsFiniteSet(A) /\ Cardinality(A) <= Cardinality(LiveArts)
      /\ IsFiniteSet(M) /\ Cardinality(M) <= Cardinality(LiveManifests)
  BY <1>3, LiveCounts, FS_Injection
<1>5. Cardinality(A \cup M) <= Cardinality(A) + Cardinality(M)
  <2>1. IsFiniteSet(A \cap M) /\ Cardinality(A \cap M) \in Nat
    BY <1>4, FS_Subset, FS_CardinalityType
  <2>2. Cardinality(A \cup M) = Cardinality(A) + Cardinality(M) - Cardinality(A \cap M)
    BY <1>4, FS_Union
  <2>3. Cardinality(A) \in Nat /\ Cardinality(M) \in Nat
    BY <1>4, FS_CardinalityType
  <2> QED
    BY <2>1, <2>2, <2>3
<1>6. Cardinality(A \cup M) \in Nat /\ Cardinality(A) \in Nat /\ Cardinality(M) \in Nat
  BY <1>4, FS_Union, FS_CardinalityType
<1>7. Cardinality(A \cup M) <= Concurrency
  BY <1>4, <1>5, <1>6, LiveCounts, CloudAssumption DEF LeasesInLimit
<1>8. A \cup M = {c \in Threads : AtWork(c) /\ work[c] \notin strayed}
  BY DEF A, M, AtWork
<1> QED
  BY <1>7, <1>8 DEF GlobalUploadLimit

(* cloud_upload_concurrency bounds the threads that really upload, on all   *)
(* instances together: what claim counts are leases, and each thread at     *)
(* work holds a live one of its own.  A lease outlived by its work frees a  *)
(* slot too early, but never one slot more than the threads on such rows.   *)
THEOREM GlobalUploadLimitHolds == Spec => []GlobalUploadLimit
<1>1. Init => LeasesInLimit
  <2> SUFFICES ASSUME Init PROVE LeasesInLimit
    OBVIOUS
  <2>1. LiveArts = {} /\ LiveManifests = {}
    BY DEF Init, LiveArts, LiveManifests, NoArt, NoTask
  <2> QED
    BY <2>1, LiveCounts, FS_EmptySet, CloudAssumption DEF LeasesInLimit
<1>2. CloudInv /\ LeasesInLimit /\ [Next]_vars => LeasesInLimit'
  BY LimitStep
<1> QED
  BY <1>1, <1>2, CloudInvariant, LimitFromLeases, PTL DEF Spec

-----------------------------------------------------------------------------
(* What the final status of a prompt rests on.                              *)

(* The outputs of a prompt are registered all together or not at all.       *)
Listed(t) == \A a \in ArtsOf(t) : art[a].status # "none"
Unlisted(t) == \A a \in ArtsOf(t) : art[a] = NoArt

(* The counter of outputs may be overwritten by 0 and the counter of        *)
(* failures may lag behind a reset, but neither is wrong where it matters.  *)
RowInv(t) ==
  /\ Listed(t) \/ Unlisted(t)
  /\ task[t].mstatus = "none" => task[t] = NoTask /\ Unlisted(t)
  /\ task[t].count # 0 => Listed(t)
  /\ task[t].failed = 0 => \A a \in ArtsOf(t) : ~CountsAsFailed(art[a].status)
  /\ task[t].cloud = "cloud_completed" => task[t].mstatus = "uploaded"

(* An uploaded manifest tells the status and the rows as they are.          *)
DoneInv(t) ==
  Undisturbed(t) /\ task[t].mstatus = "uploaded" =>
    /\ MediaSettled(t) /\ task[t].cloud = DesiredStatus(task[t])
    /\ manifest[t] = [cloud |-> task[t].cloud, rows |-> RowsOf(t)]

(* What a thread carries for its manifest is still true.                    *)
BuildInv(c) ==
  at[c] \in OnManifestRow /\ Undisturbed(work[c]) =>
    /\ MediaSettled(work[c])
    /\ at[c] = "build" => built[c] = [cloud |-> DesiredStatus(task[work[c]]), rows |-> Nothing]
    /\ at[c] # "build" =>
         built[c] = [cloud |-> DesiredStatus(task[work[c]]), rows |-> RowsOf(work[c])]
    /\ at[c] = "confirm" => manifest[work[c]] = built[c]

TableInv == /\ \A t \in Tasks : RowInv(t) /\ DoneInv(t)
            /\ \A c \in Threads : BuildInv(c)

(* A registrar found all outputs of a prompt or none.                       *)
PlanInv == \A r \in Registrars : \A e \in plan[r] : e.found \in {{}, ArtsOf(e.task)}

(* A row at work is a row, uploaded media are in the bucket.                *)
BucketInv ==
  /\ \A c \in Threads, a \in Arts : OnArt(c, a) => art[a].status # "none"
  /\ \A a \in Arts : art[a].status = "uploaded" => a \in bucket
  /\ \A c \in Threads : at[c] = "check" => work[c] \in bucket

OssShape == built = [c \in Threads |-> built[c]] /\ manifest = [t \in Tasks |-> manifest[t]]

ArchiveInv == PlanInv /\ BucketInv /\ OssShape /\ TableInv

-----------------------------------------------------------------------------
(* What is looked up of a prompt is all of its outputs or none.             *)
LEMMA FoundAll == \A t : Found(t) \in {{}, ArtsOf(t)}
  BY DEF Found

(* Plans keep to it.                                                        *)
LEMMA PlanStep ==
  ASSUME TypeOK, PlanInv, [Next]_vars
  PROVE  PlanInv'
<1> USE DEF jobVars, storeVars, threadVars, ossVars, auxVars, bounds
<1>0. \A t : ArtsOf(t)' = ArtsOf(t)
  BY DEF ArtsOf
<1>1. (\A r \in Registrars : plan'[r] \subseteq plan[r]) => PlanInv'
  BY <1>0 DEF PlanInv
<1>2. ASSUME NEW S \in SUBSET Tasks, BackfillRead(S) PROVE PlanInv'
  <2>1. \A r \in Registrars : \A e \in plan'[r] : e \in plan[r] \/ e.found = {}
    BY <1>2 DEF BackfillRead, TypeOK
  <2> QED
    BY <1>0, <2>1 DEF PlanInv
<1>3. ASSUME NEW c \in Threads, ReconcileRead(c) PROVE PlanInv'
  <2>1. \A r \in Registrars : \A e \in plan'[r] : e \in plan[r] \/ e.found = {}
    BY <1>3 DEF ReconcileRead, TypeOK, Registrars
  <2> QED
    BY <1>0, <2>1 DEF PlanInv
<1>4. ASSUME NEW r \in Registrars, NEW e \in plan[r], PlanLook(r, e) PROVE PlanInv'
  <2>1. PICK f : f = [task |-> e.task, do |-> "register", found |-> Found(e.task)]
    OBVIOUS
  <2>2. \A q \in Registrars : plan'[q] \subseteq plan[q] \cup {f}
    BY <1>4, <2>1 DEF PlanLook, TypeOK
  <2>3. f.found = Found(e.task) /\ f.task = e.task
    BY <2>1
  <2>4. f.found \in {{}, ArtsOf(f.task)}
    BY <2>3, FoundAll
  <2> QED
    BY <1>0, <2>2, <2>4 DEF PlanInv
<1>5. ASSUME NEW r \in Registrars, NEW e, PlanWrite(r, e) PROVE PlanInv'
  <2>1. \A q \in Registrars : plan'[q] \subseteq plan[q]
    BY <1>5 DEF PlanWrite, TypeOK
  <2> QED
    BY <1>1, <2>1
<1>6. ASSUME NEW c \in Threads, StoreRaises(c) \/ ThreadDies(c) PROVE PlanInv'
  <2>1. \A q \in Registrars : plan'[q] \subseteq plan[q]
    BY <1>6 DEF StoreRaises, ThreadDies, TypeOK
  <2> QED
    BY <1>1, <2>1
<1>7. plan' = plan => PlanInv'
  BY <1>1
<1>8. ASSUME NEW t \in Tasks, SchedulerStep(t) \/ ManifestLeaseExpires(t) PROVE PlanInv'
  BY <1>7, <1>8 DEF SchedulerStep, SaveHistory, JobCompletes, CompleteRaises, JobCancelled, JobLost,
              EnqueueCompletion, EnqueueLost, ManifestLeaseExpires
<1>9. ASSUME NEW c \in Threads, Progress(c) PROVE PlanInv'
  <2>1. CASE \E e \in plan[c] : PlanLook(c, e) \/ PlanWrite(c, e)
    BY <1>4, <1>5, <2>1 DEF Registrars
  <2>2. CASE ~\E e \in plan[c] : PlanLook(c, e) \/ PlanWrite(c, e)
    BY <1>7, <1>9, <2>2
    DEF Progress, Fetched, Transferred, ArtifactSucceeded, ArtifactFailed, ArtifactSourceMissing,
        BuildManifest, ManifestTransferred, ManifestSucceeded, ManifestFailed
  <2> QED
    BY <2>1, <2>2
<1>10. ASSUME NEW c \in Threads,
             \/ ThreadStarts(c)
             \/ \E a \in Arts : ClaimArtifact(c, a) \/ RenewArtifact(c, a) \/ ArtifactLeaseOutlived(c, a)
             \/ \E t \in Tasks : ClaimManifest(c, t) \/ RenewManifest(c, t) \/ ManifestLeaseOutlived(c, t)
      PROVE  PlanInv'
  BY <1>7, <1>10 DEF ThreadStarts, ClaimArtifact, RenewArtifact, ClaimManifest, RenewManifest,
                     ArtifactLeaseOutlived, ManifestLeaseOutlived
<1>11. ASSUME NEW a \in Arts, ArtifactLeaseExpires(a) PROVE PlanInv'
  BY <1>7, <1>11 DEF ArtifactLeaseExpires
<1>12. CASE UNCHANGED vars
  BY <1>7, <1>12 DEF vars
<1> QED
  BY <1>2, <1>3, <1>4, <1>5, <1>6, <1>8, <1>9, <1>10, <1>11, <1>12 DEF Next, Registrars

-----------------------------------------------------------------------------
(* The columns of a prompt's row and of its outputs' rows that matter here. *)
Kept(t) == /\ task'[t].count = task[t].count /\ task'[t].failed = task[t].failed
           /\ \A a \in ArtsOf(t) : /\ art'[a].status = art[a].status
                                   /\ art[a] = NoArt => art'[a] = NoArt
KeptRow(t) == /\ Kept(t) /\ manifest'[t] = manifest[t]
              /\ task'[t].cloud = task[t].cloud /\ task'[t].mstatus = task[t].mstatus
              /\ task[t] = NoTask => task'[t] = NoTask

(* A prompt that is undisturbed was so before the step.                     *)
Calm(t) == Undisturbed(t)' => Undisturbed(t)

(* What is computed from those columns stays as it is.                      *)
LEMMA KeptComputed ==
  ASSUME NEW t \in Tasks, Kept(t)
  PROVE  /\ MediaSettled(t)' <=> MediaSettled(t)
         /\ RowsOf(t)' = RowsOf(t)
         /\ DesiredStatus(task[t])' = DesiredStatus(task[t])
<1>1. \A a \in ArtsOf(t) : art'[a].status = art[a].status
  BY DEF Kept
<1>2. ArtsOf(t)' = ArtsOf(t)
  BY DEF ArtsOf
<1>3. (MediaSettled(t)' <=> MediaSettled(t)) /\ RowsOf(t)' = RowsOf(t)
  BY <1>1, <1>2 DEF MediaSettled, RowsOf
<1>4. DesiredStatus(task[t])' = DesiredStatus(task[t])
  BY DEF Kept, DesiredStatus
<1> QED
  BY <1>3, <1>4

(* A step that keeps the columns of a prompt keeps what is said of it.      *)
LEMMA RowFrame ==
  ASSUME NEW t \in Tasks, RowInv(t), Kept(t),
         task'[t].cloud # "cloud_completed" \/ task'[t].mstatus = "uploaded",
         task'[t].mstatus = "none" => task[t].mstatus = "none" /\ task'[t] = task[t]
  PROVE  RowInv(t)'
<1>1. ArtsOf(t)' = ArtsOf(t)
  BY DEF ArtsOf
<1>2. (Listed(t) => Listed(t)') /\ (Unlisted(t) => Unlisted(t)')
  BY <1>1 DEF Listed, Unlisted, Kept
<1>3. (\A a \in ArtsOf(t) : ~CountsAsFailed(art[a].status))
        => \A a \in ArtsOf(t) : ~CountsAsFailed(art'[a].status)
  BY DEF Kept
<1> QED
  BY <1>1, <1>2, <1>3 DEF RowInv, Kept, CountsAsFailed

LEMMA TaskFrame ==
  ASSUME NEW t \in Tasks, RowInv(t), DoneInv(t), KeptRow(t), Calm(t)
  PROVE  RowInv(t)' /\ DoneInv(t)'
<1>1. Kept(t)
  BY DEF KeptRow
<1>2. /\ MediaSettled(t)' <=> MediaSettled(t)
      /\ RowsOf(t)' = RowsOf(t)
      /\ DesiredStatus(task[t])' = DesiredStatus(task[t])
  BY <1>1, KeptComputed
<1>3. RowInv(t)'
  <2>1. task'[t].mstatus = "none" => task'[t] = NoTask /\ task[t] = NoTask
    BY DEF RowInv, KeptRow
  <2> QED
    BY <1>1, <2>1, RowFrame DEF KeptRow, RowInv
<1>4. DoneInv(t)'
  BY <1>2 DEF DoneInv, KeptRow, Calm
<1> QED
  BY <1>3, <1>4

(* A thread that stays on its manifest, and the rows it stands for.         *)
LEMMA BuildFrame ==
  ASSUME TypeOK, NEW c \in Threads, BuildInv(c),
         at'[c] \in OnManifestRow /\ Undisturbed(work[c])' =>
           /\ at'[c] = at[c] /\ work'[c] = work[c] /\ built'[c] = built[c]
           /\ Kept(work[c]) /\ manifest'[work[c]] = manifest[work[c]] /\ Undisturbed(work[c])
  PROVE  BuildInv(c)'
<1> SUFFICES ASSUME at'[c] \in OnManifestRow, Undisturbed(work[c])' PROVE BuildInv(c)'
  BY DEF BuildInv
<1>1. at[c] \in OnManifestRow
  OBVIOUS
<1>2. PICK t \in Tasks : t = work[c] /\ t = work'[c]
  BY <1>1 DEF TypeOK
<1>3. Kept(t) /\ manifest'[t] = manifest[t] /\ Undisturbed(t)
  BY <1>2
<1>4. /\ MediaSettled(t)' <=> MediaSettled(t)
      /\ RowsOf(t)' = RowsOf(t) /\ DesiredStatus(task[t])' = DesiredStatus(task[t])
  BY <1>3, KeptComputed
<1>5. /\ MediaSettled(t)
      /\ at[c] = "build" => built[c] = [cloud |-> DesiredStatus(task[t]), rows |-> Nothing]
      /\ at[c] # "build" => built[c] = [cloud |-> DesiredStatus(task[t]), rows |-> RowsOf(t)]
      /\ at[c] = "confirm" => manifest[t] = built[c]
  BY <1>1, <1>2, <1>3 DEF BuildInv
<1>6. /\ MediaSettled(t)'
      /\ at'[c] = "build" => built'[c] = [cloud |-> DesiredStatus(task[t])', rows |-> Nothing]
      /\ at'[c] # "build" => built'[c] = [cloud |-> DesiredStatus(task[t])', rows |-> RowsOf(t)']
      /\ at'[c] = "confirm" => manifest'[t] = built'[c]
  BY <1>3, <1>4, <1>5
<1> QED
  BY <1>2, <1>6 DEF BuildInv

(* A step that rewrites the rows of one prompt only: the invariant has to   *)
(* be shown for that prompt and for the threads on its manifest.            *)
LEMMA OnePrompt ==
  ASSUME TypeOK, TableInv, NEW t \in Tasks,
         \A u \in Tasks \ {t} : KeptRow(u) /\ Calm(u),
         RowInv(t)' /\ DoneInv(t)',
         \A c \in Threads : at'[c] \in OnManifestRow /\ work'[c] # t =>
           at'[c] = at[c] /\ work'[c] = work[c] /\ built'[c] = built[c],
         \A c \in Threads : at'[c] \in OnManifestRow /\ work'[c] = t => BuildInv(c)'
  PROVE  TableInv'
<1>1. ASSUME NEW u \in Tasks PROVE RowInv(u)' /\ DoneInv(u)'
  <2>1. CASE u = t
    BY <2>1
  <2>2. CASE u # t
    BY <2>2, TaskFrame DEF TableInv
  <2> QED
    BY <2>1, <2>2
<1>2. ASSUME NEW c \in Threads PROVE BuildInv(c)'
  <2>1. CASE at'[c] \in OnManifestRow /\ work'[c] = t
    BY <2>1
  <2>2. CASE at'[c] \in OnManifestRow /\ work'[c] # t
    <3>1. at'[c] = at[c] /\ work'[c] = work[c] /\ built'[c] = built[c]
      BY <2>2
    <3>2. PICK u \in Tasks \ {t} : u = work[c] /\ u = work'[c]
      BY <2>2, <3>1 DEF TypeOK
    <3>3. Kept(u) /\ manifest'[u] = manifest[u] /\ (Undisturbed(u)' => Undisturbed(u))
      BY <3>2 DEF KeptRow, Calm
    <3> QED
      BY <3>1, <3>2, <3>3, BuildFrame DEF TableInv
  <2>3. CASE at'[c] \notin OnManifestRow
    BY <2>3 DEF BuildInv
  <2> QED
    BY <2>1, <2>2, <2>3
<1> QED
  BY <1>1, <1>2 DEF TableInv

(* Steps that rewrite none.                                                 *)
LEMMA NoPrompt ==
  ASSUME TypeOK, TableInv,
         \A u \in Tasks : KeptRow(u) /\ Calm(u),
         \A c \in Threads : at'[c] \in OnManifestRow =>
           at'[c] = at[c] /\ work'[c] = work[c] /\ built'[c] = built[c]
  PROVE  TableInv'
<1>1. ASSUME NEW u \in Tasks PROVE RowInv(u)' /\ DoneInv(u)'
  BY TaskFrame DEF TableInv
<1>2. ASSUME NEW c \in Threads PROVE BuildInv(c)'
  <2>1. CASE at'[c] \in OnManifestRow
    <3>1. PICK u \in Tasks : u = work[c] /\ u = work'[c]
      BY <2>1 DEF TypeOK
    <3>2. Kept(u) /\ manifest'[u] = manifest[u] /\ (Undisturbed(u)' => Undisturbed(u))
      BY <3>1 DEF KeptRow, Calm
    <3> QED
      BY <2>1, <3>1, <3>2, BuildFrame DEF TableInv
  <2>2. CASE at'[c] \notin OnManifestRow
    BY <2>2 DEF BuildInv
  <2> QED
    BY <2>1, <2>2
<1> QED
  BY <1>1, <1>2 DEF TableInv

(* Rows that are the same are kept.                                         *)
LEMMA SameRow ==
  ASSUME NEW t \in Tasks, task'[t] = task[t], manifest'[t] = manifest[t],
         \A a \in ArtsOf(t) : art'[a] = art[a]
  PROVE  KeptRow(t)
  BY DEF KeptRow, Kept

(* As long as the history only grows, a prompt does not get calm again.     *)
LEMMA GrowsCalm ==
  ASSUME strayed \subseteq strayed', NEW t, t \in relisted => t \in relisted'
  PROVE  Calm(t)
  BY DEF Calm, Undisturbed, ArtsOf
-----------------------------------------------------------------------------
(* Steps that declare nothing uploaded and put no thread behind a transfer. *)
LEMMA BucketFrame ==
  ASSUME BucketInv, bucket \subseteq bucket',
         \A a \in Arts : art'[a] = art[a] \/ art'[a].status \notin {"none", "uploaded"},
         \A c \in Threads : at'[c] = "check" => at[c] = "check" /\ work'[c] = work[c],
         \A c \in Threads, a \in Arts : OnArt(c, a)' => OnArt(c, a) \/ art'[a].status # "none"
  PROVE  BucketInv'
  BY DEF BucketInv

(* Registration declares nothing uploaded.                                  *)
LEMMA EnqueuedBucket ==
  ASSUME NEW t, NEW found, Enqueued(t, found)
  PROVE  \A a \in Arts : art'[a] = art[a] \/ art'[a].status \notin {"none", "uploaded"}
<1>1. [NoArt EXCEPT !.status = "pending"].status = "pending"
  BY DEF NoArt
<1> QED
  BY <1>1 DEF Enqueued

(* Nor does a reset.                                                        *)
LEMMA ResetBucket ==
  ASSUME NEW t, ResetFailed(t)
  PROVE  \A a \in Arts : art'[a] = art[a] \/ art'[a].status \notin {"none", "uploaded"}
<1>1. [NoArt EXCEPT !.status = "pending"].status = "pending"
  BY DEF NoArt
<1> QED
  BY <1>1 DEF ResetFailed

(* What a result makes of an output.                                        *)
LEMMA ResultStatus ==
  ASSUME TypeOK, NEW a \in Arts, NEW s \in ArtStatuses, ArtifactResult(a, s)
  PROVE  art'[a].status = s /\ \A b \in Arts \ {a} : art'[b] = art[b]
  BY DEF ArtifactResult, TypeOK, ArtRows

(* A row is declared uploaded only behind a transfer that was seen in OSS.  *)
LEMMA BucketStep ==
  ASSUME TypeOK, BucketInv, [Next]_vars
  PROVE  BucketInv'
<1> USE DEF jobVars, storeVars, threadVars, ossVars, auxVars, bounds
<1>1. UNCHANGED <<art, at, work, bucket>> => BucketInv'
  BY BucketFrame DEF OnArt
<1>2. ASSUME NEW t \in Tasks,
             \/ SaveHistory(t) \/ JobCompletes(t) \/ CompleteRaises(t) \/ JobCancelled(t)
             \/ JobLost(t) \/ EnqueueLost(t) \/ ManifestLeaseExpires(t)
      PROVE  BucketInv'
  BY <1>1, <1>2 DEF SaveHistory, JobCompletes, CompleteRaises, JobCancelled, JobLost, EnqueueLost,
                    ManifestLeaseExpires
<1>3. ASSUME NEW t \in Tasks, EnqueueCompletion(t) PROVE BucketInv'
  BY <1>3, EnqueuedBucket, BucketFrame DEF EnqueueCompletion, OnArt
<1>4. ASSUME NEW a \in Arts,
             ArtifactLeaseExpires(a) \/ \E c \in Threads : RenewArtifact(c, a) \/ ArtifactLeaseOutlived(c, a)
      PROVE  BucketInv'
  <2>1. UNCHANGED <<at, work, bucket>> /\ art[a].status = "uploading"
    BY <1>4 DEF ArtifactLeaseExpires, RenewArtifact, ArtifactLeaseOutlived
  <2>2. art'[a].status = "uploading" /\ \A b \in Arts \ {a} : art'[b] = art[b]
    BY <1>4, <2>1 DEF ArtifactLeaseExpires, RenewArtifact, ArtifactLeaseOutlived, TypeOK, ArtRows
  <2> QED
    BY <2>1, <2>2, BucketFrame DEF OnArt
<1>5. ASSUME NEW S \in SUBSET Tasks, BackfillRead(S) PROVE BucketInv'
  BY <1>1, <1>5 DEF BackfillRead
<1>6. ASSUME NEW r \in Registrars, NEW e \in plan[r], PlanWrite(r, e) PROVE BucketInv'
  <2>1. UNCHANGED <<work, bucket>> /\ \A c \in Threads : at'[c] = at[c] \/ at'[c] = "idle"
    BY <1>6 DEF PlanWrite, TypeOK
  <2>2. \A a \in Arts : art'[a] = art[a] \/ art'[a].status \notin {"none", "uploaded"}
    BY <1>6, EnqueuedBucket, ResetBucket DEF PlanWrite
  <2> QED
    BY <2>1, <2>2, BucketFrame DEF OnArt, OnArtifactRow
<1>7. ASSUME NEW c \in Threads,
             \/ Fetched(c) \/ BuildManifest(c) \/ ManifestTransferred(c)
             \/ ReconcileRead(c) \/ StoreRaises(c) \/ ThreadDies(c) \/ ThreadStarts(c)
             \/ ManifestSucceeded(c) \/ ManifestFailed(c)
             \/ \E t \in Tasks : ClaimManifest(c, t) \/ RenewManifest(c, t) \/ ManifestLeaseOutlived(c, t)
      PROVE  BucketInv'
  <2>1. UNCHANGED <<art, bucket>>
    BY <1>7 DEF Fetched, BuildManifest, ManifestTransferred, ReconcileRead, StoreRaises, ThreadDies,
                ThreadStarts, ManifestSucceeded, ManifestFailed, ClaimManifest, RenewManifest,
                ManifestLeaseOutlived
  <2>2. \A d \in Threads : at'[d] = "check" => at[d] = "check" /\ work'[d] = work[d]
    BY <1>7 DEF Fetched, BuildManifest, ManifestTransferred, ReconcileRead, StoreRaises, ThreadDies,
                ThreadStarts, ManifestSucceeded, ManifestFailed, ClaimManifest, RenewManifest,
                ManifestLeaseOutlived, Step, ToIdle, TypeOK
  <2>3. \A d \in Threads : at'[d] \in OnArtifactRow => at[d] \in OnArtifactRow /\ work'[d] = work[d]
    BY <1>7 DEF Fetched, BuildManifest, ManifestTransferred, ReconcileRead, StoreRaises, ThreadDies,
                ThreadStarts, ManifestSucceeded, ManifestFailed, ClaimManifest, RenewManifest,
                ManifestLeaseOutlived, Step, ToIdle, TypeOK, OnArtifactRow
  <2> QED
    BY <2>1, <2>2, <2>3, BucketFrame DEF OnArt
<1>8. ASSUME NEW c \in Threads, Transferred(c) PROVE BucketInv'
  BY <1>8 DEF Transferred, Step, TypeOK, BucketInv, OnArt, OnArtifactRow
<1>9. ASSUME NEW c \in Threads, NEW a \in Arts, ClaimArtifact(c, a) PROVE BucketInv'
  <2>1. /\ bucket' = bucket /\ art'[a].status = "uploading"
        /\ \A b \in Arts \ {a} : art'[b] = art[b]
    BY <1>9 DEF ClaimArtifact, TypeOK
  <2>2. \A d \in Threads : at'[d] = "check" => at[d] = "check" /\ work'[d] = work[d]
    BY <1>9 DEF ClaimArtifact, TypeOK
  <2>3. \A d \in Threads, b \in Arts : OnArt(d, b)' => OnArt(d, b) \/ b = a
    BY <1>9 DEF ClaimArtifact, TypeOK, OnArt
  <2> QED
    BY <2>1, <2>2, <2>3, BucketFrame
<1>10. ASSUME NEW c \in Threads,
              ArtifactSucceeded(c) \/ ArtifactFailed(c) \/ ArtifactSourceMissing(c)
       PROVE  BucketInv'
  <2>1. work[c] \in Arts /\ bucket' = bucket
    BY <1>10 DEF ArtifactSucceeded, ArtifactFailed, ArtifactSourceMissing, TypeOK, OnArtifactRow
  <2>2. PICK s \in ArtStatuses : /\ ArtifactResult(work[c], s) /\ ToIdle(c)
                                 /\ s # "none" /\ (s = "uploaded" => at[c] = "check")
    BY <1>10 DEF ArtifactSucceeded, ArtifactFailed, ArtifactSourceMissing, FailedStatus,
                 ArtStatuses, Settled
  <2>3. art'[work[c]].status = s /\ \A b \in Arts \ {work[c]} : art'[b] = art[b]
    BY <2>1, <2>2, ResultStatus
  <2>4. \A d \in Threads : at'[d] = "check" => at[d] = "check" /\ work'[d] = work[d]
    BY <2>2, ToIdleType
  <2>5. \A d \in Threads : at'[d] \in OnArtifactRow => at[d] \in OnArtifactRow /\ work'[d] = work[d]
    BY <2>2, ToIdleType DEF OnArtifactRow
  <2> QED
    BY <2>1, <2>2, <2>3, <2>4, <2>5 DEF BucketInv, OnArt
<1>11. ASSUME NEW r \in Registrars, NEW e \in plan[r], PlanLook(r, e) PROVE BucketInv'
  BY <1>1, <1>11 DEF PlanLook
<1>12. CASE UNCHANGED vars
  BY <1>1, <1>12 DEF vars
<1> QED
  BY <1>2, <1>3, <1>4, <1>5, <1>6, <1>7, <1>8, <1>9, <1>10, <1>11, <1>12
  DEF Next, SchedulerStep, Progress, Registrars

(* The OSS side keeps its shape.                                            *)
LEMMA ShapeStep ==
  ASSUME OssShape, [Next]_vars
  PROVE  OssShape'
<1> USE DEF jobVars, storeVars, threadVars, ossVars, auxVars, bounds
<1>1. UNCHANGED <<built, manifest>> => OssShape'
  BY DEF OssShape
<1>2. ASSUME NEW t \in Tasks, SchedulerStep(t) \/ ManifestLeaseExpires(t) PROVE OssShape'
  BY <1>1, <1>2 DEF SchedulerStep, SaveHistory, JobCompletes, CompleteRaises, JobCancelled, JobLost,
                    EnqueueCompletion, EnqueueLost, ManifestLeaseExpires
<1>3. ASSUME NEW r, NEW e, PlanLook(r, e) \/ PlanWrite(r, e) PROVE OssShape'
  BY <1>1, <1>3 DEF PlanLook, PlanWrite
<1>4. ASSUME NEW c \in Threads,
             \/ ReconcileRead(c) \/ StoreRaises(c) \/ ThreadDies(c) \/ ThreadStarts(c)
             \/ \E a \in Arts : ClaimArtifact(c, a) \/ RenewArtifact(c, a) \/ ArtifactLeaseOutlived(c, a)
             \/ \E t \in Tasks : ClaimManifest(c, t) \/ RenewManifest(c, t) \/ ManifestLeaseOutlived(c, t)
      PROVE  OssShape'
  BY <1>4 DEF ReconcileRead, StoreRaises, ThreadDies, ThreadStarts, ClaimArtifact, RenewArtifact,
              ClaimManifest, RenewManifest, ArtifactLeaseOutlived, ManifestLeaseOutlived, ToIdle, OssShape
<1>5. ASSUME NEW c \in Threads, Progress(c) PROVE OssShape'
  BY <1>3, <1>5
  DEF Progress, Fetched, Transferred, ArtifactSucceeded, ArtifactFailed, ArtifactSourceMissing,
      BuildManifest, ManifestTransferred, ManifestSucceeded, ManifestFailed, ToIdle, OssShape
<1> QED
  BY <1>1, <1>2, <1>3, <1>4, <1>5 DEF Next, vars, ArtifactLeaseExpires, BackfillRead

-----------------------------------------------------------------------------
(* What is known of a prompt that nothing disturbed and whose manifest is   *)
(* under way or uploaded.                                                   *)
LEMMA UnderWay ==
  ASSUME TypeOK, LeaseInv, TableInv, NEW t \in Tasks, Undisturbed(t)
  PROVE  /\ task[t].mstatus = "uploaded" => MediaSettled(t)
         /\ \A c \in Threads : OnManifest(c, t) =>
              MediaSettled(t) /\ task[t].mstatus = "uploading" /\ ManifestUnderWay(t)
<1>1. task[t].mstatus = "uploaded" => MediaSettled(t)
  BY DEF TableInv, DoneInv
<1>2. ASSUME NEW c \in Threads, OnManifest(c, t)
      PROVE  MediaSettled(t) /\ task[t].mstatus = "uploading" /\ ManifestUnderWay(t)
  <2>1. ManifestUnderWay(t)
    BY <1>2 DEF ManifestUnderWay
  <2>2. task[t].mstatus = "uploading"
    BY <1>2 DEF LeaseInv, Undisturbed
  <2>3. MediaSettled(t)
    BY <1>2 DEF TableInv, BuildInv, OnManifest
  <2> QED
    BY <2>1, <2>2, <2>3
<1> QED
  BY <1>1, <1>2

(* Rewriting the rows of a prompt keeps the invariant if it is kept of its  *)
(* columns and no thread is left on an undisturbed manifest of it.          *)
LEMMA Rewritten ==
  ASSUME TypeOK, TableInv, NEW t \in Tasks,
         \A u \in Tasks \ {t} : KeptRow(u), \A u \in Tasks : Calm(u),
         RowInv(t)', Undisturbed(t)' => task'[t].mstatus # "uploaded",
         Undisturbed(t) => \A c \in Threads : ~OnManifest(c, t),
         \A c \in Threads : at'[c] \in OnManifestRow =>
           at'[c] = at[c] /\ work'[c] = work[c] /\ built'[c] = built[c]
  PROVE  TableInv'
<1>1. DoneInv(t)'
  BY DEF DoneInv
<1>2. ASSUME NEW c \in Threads, at'[c] \in OnManifestRow, work'[c] = t PROVE BuildInv(c)'
  <2>1. OnManifest(c, t)
    BY <1>2 DEF OnManifest
  <2>2. ~Undisturbed(t)'
    BY <2>1 DEF Calm
  <2> QED
    BY <1>2, <2>2 DEF BuildInv
<1> QED
  BY <1>1, <1>2, OnePrompt

(* enqueue_task                                                             *)
LEMMA EnqueuedTable ==
  ASSUME CloudInv, TableInv, NEW t \in Tasks, NEW found \in {{}, ArtsOf(t)}, Enqueued(t, found),
         manifest' = manifest, strayed' = strayed,
         \A c \in Threads : at'[c] \in OnManifestRow =>
           at'[c] = at[c] /\ work'[c] = work[c] /\ built'[c] = built[c]
  PROVE  TableInv'
<1>0. TypeOK /\ LeaseInv /\ RowInv(t) /\ task[t] \in TaskRows /\ found \in SUBSET Arts
  BY DEF CloudInv, TableInv, TypeOK, ArtsOf
<1>1. \A u \in Tasks : Calm(u)
  <2>1. relisted \subseteq relisted'
    BY DEF Enqueued
  <2> QED
    BY <2>1, GrowsCalm
<1> DEFINE fresh == [NoTask EXCEPT !.cloud = IF found = {} THEN "no_artifacts" ELSE "pending",
                                   !.count = Cardinality(found), !.mstatus = "pending"]
           kept == [task[t] EXCEPT !.count = Cardinality(found)]
<1>2. task' = [task EXCEPT ![t] = IF task[t] = NoTask THEN fresh ELSE kept]
  BY <1>0 DEF Enqueued, TypeOK
<1>3. /\ fresh.mstatus = "pending" /\ fresh.cloud # "cloud_completed"
      /\ fresh.count = Cardinality(found) /\ fresh.failed = 0
  BY DEF NoTask
<1>4. /\ kept.cloud = task[t].cloud /\ kept.mstatus = task[t].mstatus
      /\ kept.count = Cardinality(found) /\ kept.failed = task[t].failed
  BY <1>0, CountType DEF TaskRows
<1>5. task'[t] = IF task[t] = NoTask THEN fresh ELSE kept
  BY <1>0, <1>2 DEF TypeOK
<1>6. \A u \in Tasks \ {t} : task'[u] = task[u]
  BY <1>0, <1>2 DEF TypeOK
<1> HIDE DEF fresh, kept
<1>7. NoTask.mstatus = "none" /\ NoTask.failed = 0 /\ NoArt.status = "none"
  BY DEF NoTask, NoArt
<1>8. [NoArt EXCEPT !.status = "pending"].status = "pending"
  BY DEF NoArt
<1>9. \A a \in Arts : art'[a] = art[a] \/ (a \in found /\ art[a] = NoArt /\ art'[a].status = "pending")
  BY <1>8 DEF Enqueued
<1>10. \A a \in found : art[a] = NoArt => art'[a].status = "pending"
  BY <1>0, <1>8 DEF Enqueued
<1>11. ASSUME NEW u \in Tasks \ {t} PROVE KeptRow(u)
  <2>1. \A a \in ArtsOf(u) : art'[a] = art[a]
    BY <1>9, <1>11 DEF ArtsOf
  <2> QED
    BY <1>6, <2>1, SameRow
<1>12. ArtsOf(t)' = ArtsOf(t) /\ ArtsOf(t) \subseteq Arts
  BY DEF ArtsOf
<1>13. found = {} => Cardinality(found) = 0 /\ \A a \in Arts : art'[a] = art[a]
  BY <1>9, FS_EmptySet
<1>14. RowInv(t)'
  <2>1. Listed(t)' \/ (found = {} /\ Unlisted(t)')
    <3>1. CASE found = {}
      BY <1>0, <1>12, <1>13, <3>1 DEF RowInv, Listed, Unlisted
    <3>2. CASE found = ArtsOf(t)
      BY <1>0, <1>9, <1>10, <1>12, <3>2 DEF RowInv, Listed, Unlisted
    <3> QED
      BY <3>1, <3>2
  <2>2. task'[t].count # 0 => Listed(t)'
    BY <1>3, <1>4, <1>5, <1>13, <2>1
  <2>3. task'[t].mstatus # "none"
    BY <1>0, <1>3, <1>4, <1>5 DEF RowInv
  <2>4. task'[t].failed = 0 => task[t].failed = 0
    BY <1>3, <1>4, <1>5, <1>7
  <2>5. task'[t].failed = 0 => \A a \in ArtsOf(t) : ~CountsAsFailed(art'[a].status)
    BY <1>0, <1>9, <1>12, <2>4 DEF RowInv, CountsAsFailed
  <2>6. task'[t].cloud = "cloud_completed" => task'[t].mstatus = "uploaded"
    BY <1>0, <1>3, <1>4, <1>5 DEF RowInv
  <2> QED
    BY <1>12, <2>1, <2>2, <2>3, <2>5, <2>6 DEF RowInv, CountsAsFailed
<1>15. CASE Undisturbed(t)' /\ ManifestUnderWay(t)
  <2>1. ~Changes(t, found)
    BY <1>15 DEF Enqueued, Undisturbed
  <2>2. task[t] # NoTask
    <3>1. Undisturbed(t)
      BY <1>1, <1>15 DEF Calm
    <3> QED
      BY <1>0, <1>7, <1>15, <3>1 DEF ManifestUnderWay, LeaseInv, Undisturbed
  <2>3. KeptRow(t)
    BY <1>3, <1>4, <1>5, <1>9, <1>12, <2>1, <2>2 DEF KeptRow, Kept, Changes
  <2> QED
    BY <1>0, <1>1, <1>11, <2>3, NoPrompt
<1>16. CASE ~(Undisturbed(t)' /\ ManifestUnderWay(t))
  <2>1. Undisturbed(t)' => task'[t].mstatus # "uploaded"
    BY <1>3, <1>4, <1>5, <1>16 DEF ManifestUnderWay
  <2>2. \A c \in Threads : at'[c] \in OnManifestRow /\ work'[c] = t => BuildInv(c)'
    BY <1>16 DEF BuildInv, ManifestUnderWay, OnManifest
  <2>3. DoneInv(t)'
    BY <2>1 DEF DoneInv
  <2> QED
    BY <1>0, <1>1, <1>11, <1>14, <2>2, <2>3, OnePrompt
<1> QED
  BY <1>15, <1>16

(* reset_failed                                                             *)
LEMMA ResetTable ==
  ASSUME CloudInv, TableInv, NEW t \in Tasks, t \notin strayed => Ended(t), ResetFailed(t),
         manifest' = manifest, strayed' = strayed,
         \A c \in Threads : at'[c] \in OnManifestRow =>
           at'[c] = at[c] /\ work'[c] = work[c] /\ built'[c] = built[c]
  PROVE  TableInv'
<1>0. TypeOK /\ LeaseInv /\ RowInv(t) /\ task[t] \in TaskRows
  BY DEF CloudInv, TableInv, TypeOK
<1>1. /\ task'[t].cloud = "pending" /\ task'[t].mstatus = "pending"
      /\ task'[t].count = task[t].count /\ task'[t].failed = task[t].failed
      /\ \A u \in Tasks \ {t} : task'[u] = task[u]
  BY <1>0 DEF ResetFailed, TypeOK, TaskRows
<1>2. [NoArt EXCEPT !.status = "pending"].status = "pending" /\ NoArt.status = "none"
  BY DEF NoArt
<1>3. \A a \in ArtsOf(t) :
        \/ art'[a] = art[a]
        \/ CountsAsFailed(art[a].status) /\ art'[a].status = "pending"
  BY <1>2 DEF ResetFailed, ArtsOf, CountsAsFailed
<1>4. ASSUME NEW u \in Tasks \ {t} PROVE KeptRow(u)
  <2>1. \A a \in ArtsOf(u) : art'[a] = art[a]
    BY <1>4 DEF ResetFailed, ArtsOf
  <2> QED
    BY <1>1, <2>1, SameRow
<1>5. \A u \in Tasks : Calm(u)
  BY GrowsCalm DEF ResetFailed
<1>6. RowInv(t)'
  <2>1. ArtsOf(t)' = ArtsOf(t)
    BY DEF ArtsOf
  <2>2. (Listed(t) => Listed(t)') /\ (Unlisted(t) => Unlisted(t)')
    BY <1>2, <1>3, <2>1 DEF Listed, Unlisted, CountsAsFailed
  <2>3. (\A a \in ArtsOf(t) : ~CountsAsFailed(art[a].status))
          => \A a \in ArtsOf(t) : ~CountsAsFailed(art'[a].status)
    BY <1>3 DEF CountsAsFailed
  <2> QED
    BY <1>0, <1>1, <2>1, <2>2, <2>3 DEF RowInv, CountsAsFailed
<1>7. Undisturbed(t) => \A c \in Threads : ~OnManifest(c, t)
  BY <1>0 DEF LeaseInv, Undisturbed, Ended
<1> QED
  BY <1>0, <1>1, <1>4, <1>5, <1>6, <1>7, Rewritten

(* An output that is not settled: neither is its prompt's manifest.         *)
LEMMA UnsettledPrompt ==
  ASSUME TypeOK, LeaseInv, TableInv, NEW a \in Arts, NEW t \in Tasks, t = TaskOf[a],
         Undisturbed(t), art[a].status \in {"pending", "uploading"}
  PROVE  task[t].mstatus # "uploaded" /\ \A c \in Threads : ~OnManifest(c, t)
<1>1. a \in ArtsOf(t)
  BY DEF ArtsOf
<1>2. ~MediaSettled(t)
  BY <1>1 DEF MediaSettled, Settled
<1> QED
  BY <1>2, UnderWay

(* claim_artifact                                                           *)
LEMMA ClaimTable ==
  ASSUME CloudInv, TableInv, NEW c \in Threads, NEW a \in Arts, ClaimArtifact(c, a)
  PROVE  TableInv'
<1> USE DEF jobVars, storeVars, threadVars, ossVars, auxVars, bounds
<1>0. TypeOK /\ LeaseInv
  BY DEF CloudInv
<1>1. PICK t \in Tasks : t = TaskOf[a]
  BY CloudAssumption
<1>2. art[a].status \in {"pending", "uploading"}
  BY DEF ClaimArtifact, Claimable
<1>3. /\ art'[a].status = "uploading" /\ \A b \in Arts \ {a} : art'[b] = art[b]
      /\ manifest' = manifest /\ built' = built
  BY <1>0 DEF ClaimArtifact, TypeOK
<1>4. /\ task'[t].cloud = "uploading" /\ task'[t].mstatus = task[t].mstatus
      /\ task'[t].count = task[t].count /\ task'[t].failed = task[t].failed
      /\ \A u \in Tasks \ {t} : task'[u] = task[u]
  <2>1. task' = [task EXCEPT ![t].cloud = "uploading"] /\ task[t] \in TaskRows
    BY <1>0, <1>1 DEF ClaimArtifact, TypeOK
  <2> QED
    BY <1>0, <2>1 DEF TypeOK, TaskRows
<1>5. \A d \in Threads : at'[d] \in OnManifestRow => at'[d] = at[d] /\ work'[d] = work[d]
  BY <1>0 DEF ClaimArtifact, TypeOK, OnManifestRow
<1>6. ASSUME NEW u \in Tasks \ {t} PROVE KeptRow(u)
  BY <1>1, <1>3, <1>4, <1>6, SameRow DEF ArtsOf
<1>7. \A u \in Tasks : Calm(u)
  BY GrowsCalm DEF ClaimArtifact
<1>8. a \in ArtsOf(t) /\ ArtsOf(t)' = ArtsOf(t) /\ RowInv(t) /\ NoArt.status = "none"
  BY <1>1 DEF ArtsOf, TableInv, NoArt
<1>9. Listed(t) /\ task[t].mstatus # "none"
  BY <1>2, <1>8 DEF RowInv, Unlisted
<1>10. RowInv(t)'
  <2>1. Listed(t)'
    BY <1>3, <1>8, <1>9 DEF Listed, ArtsOf
  <2>2. \A b \in ArtsOf(t) : CountsAsFailed(art'[b].status) => CountsAsFailed(art[b].status)
    BY <1>3 DEF ArtsOf, CountsAsFailed
  <2> QED
    BY <1>4, <1>8, <1>9, <2>1, <2>2 DEF RowInv, CountsAsFailed
<1>11. Undisturbed(t) => task[t].mstatus # "uploaded" /\ \A d \in Threads : ~OnManifest(d, t)
  BY <1>0, <1>1, <1>2, UnsettledPrompt
<1>12. Undisturbed(t)' => task'[t].mstatus # "uploaded"
  BY <1>4, <1>7, <1>11 DEF Calm
<1> QED
  BY <1>0, <1>3, <1>5, <1>6, <1>7, <1>10, <1>11, <1>12, Rewritten

(* artifact_succeeded, artifact_failed, artifact_source_missing             *)
LEMMA ResultTable ==
  ASSUME CloudInv, TableInv, BucketInv, OssShape,
         NEW c \in Threads, OnArt(c, work[c]), work[c] \in Arts,
         NEW s \in ArtStatuses \ {"none"}, ArtifactResult(work[c], s), ToIdle(c),
         UNCHANGED <<manifest, strayed, relisted>>
  PROVE  TableInv'
<1>0. TypeOK /\ LeaseInv
  BY DEF CloudInv
<1>1. PICK a \in Arts : a = work[c]
  OBVIOUS
<1>2. PICK t \in Tasks : t = TaskOf[a]
  BY CloudAssumption
<1>3. art[a].status # "none" /\ (a \notin strayed => art[a].status = "uploading")
  BY <1>0, <1>1 DEF LeaseInv, BucketInv
<1>4. art'[a].status = s /\ \A b \in Arts \ {a} : art'[b] = art[b]
  BY <1>0, <1>1, ResultStatus
<1>5. \A u \in Tasks : task'[u].cloud = task[u].cloud /\ task'[u].mstatus = task[u].mstatus
  BY <1>0, <1>1, ResultKeepsWork
<1>6. a \in ArtsOf(t) /\ ArtsOf(t)' = ArtsOf(t) /\ RowInv(t) /\ NoArt.status = "none"
  BY <1>2 DEF ArtsOf, TableInv, NoArt
<1>7. Listed(t) /\ task[t].mstatus # "none"
  BY <1>3, <1>6 DEF RowInv, Unlisted
<1>8. /\ task'[t].failed = Cardinality({b \in ArtsOf(t) : CountsAsFailed(art'[b].status)})
      /\ \A u \in Tasks \ {t} : task'[u] = task[u]
  <2> DEFINE n == Cardinality({b \in ArtsOf(t) : art'[b].status # "none"})
             m == Cardinality({b \in ArtsOf(t) : CountsAsFailed(art'[b].status)})
  <2>1. task' = [task EXCEPT ![t] = [task[t] EXCEPT !.count = n, !.failed = m]]
    BY <1>1, <1>2 DEF ArtifactResult, Counted
  <2>2. task[t] \in TaskRows
    BY <1>0 DEF TypeOK
  <2> HIDE DEF n, m
  <2>3. task'[t].failed = m /\ \A u \in Tasks \ {t} : task'[u] = task[u]
    BY <1>0, <2>1, <2>2 DEF TypeOK, TaskRows
  <2> QED
    BY <2>3 DEF m
<1>9. ASSUME NEW u \in Tasks \ {t} PROVE KeptRow(u)
  BY <1>2, <1>4, <1>8, <1>9, SameRow DEF ArtsOf
<1>10. \A u \in Tasks : Calm(u)
  BY GrowsCalm
<1>11. RowInv(t)'
  <2>1. Listed(t)'
    BY <1>4, <1>6, <1>7 DEF Listed, ArtsOf
  <2>2. task'[t].failed = 0 => \A b \in ArtsOf(t) : ~CountsAsFailed(art'[b].status)
    <3> DEFINE F == {b \in ArtsOf(t) : CountsAsFailed(art'[b].status)}
    <3>1. IsFiniteSet(F)
      BY CloudAssumption, FS_Subset DEF ArtsOf
    <3>2. Cardinality(F) = 0 => F = {}
      BY <3>1, FS_EmptySet
    <3> QED
      BY <1>8, <3>2
  <2> QED
    BY <1>5, <1>6, <1>7, <2>1, <2>2 DEF RowInv, CountsAsFailed
<1>12. Undisturbed(t) => task[t].mstatus # "uploaded" /\ \A d \in Threads : ~OnManifest(d, t)
  <2>1. Undisturbed(t) => a \notin strayed
    BY <1>6 DEF Undisturbed
  <2> QED
    BY <1>0, <1>2, <1>3, <2>1, UnsettledPrompt
<1>13. Undisturbed(t)' => task'[t].mstatus # "uploaded"
  BY <1>5, <1>10, <1>12 DEF Calm
<1>14. \A d \in Threads : at'[d] \in OnManifestRow =>
         at'[d] = at[d] /\ work'[d] = work[d] /\ built'[d] = built[d]
  <2>1. at'[c] = "idle" /\ \A d \in Threads \ {c} : at'[d] = at[d] /\ work'[d] = work[d]
    BY <1>0, ToIdleType
  <2>2. \A d \in Threads \ {c} : built'[d] = built[d]
    BY DEF ToIdle, OssShape
  <2> QED
    BY <2>1, <2>2 DEF OnManifestRow
<1> QED
  BY <1>0, <1>9, <1>10, <1>11, <1>12, <1>13, <1>14, Rewritten

(* claim_manifest: the prompt's outputs are settled and its counters taken. *)
LEMMA ClaimManifestTable ==
  ASSUME CloudInv, TableInv, OssShape, NEW c \in Threads, NEW t \in Tasks, ClaimManifest(c, t)
  PROVE  TableInv'
<1> USE DEF jobVars, storeVars, threadVars, ossVars, auxVars, bounds
<1>0. TypeOK /\ LeaseInv /\ RowInv(t)
  BY DEF CloudInv, TableInv
<1>1. /\ MediaSettled(t) /\ task[t].mstatus \in {"pending", "uploading"}
      /\ \A d \in Threads : OnManifest(d, t) => t \in strayed
  BY <1>0 DEF ClaimManifest, Claimable, LeaseInv
<1>2. /\ task'[t].mstatus = "uploading" /\ task'[t].cloud = task[t].cloud
      /\ task'[t].count = task[t].count /\ task'[t].failed = task[t].failed
      /\ \A u \in Tasks \ {t} : task'[u] = task[u]
  <2>1. task[t] \in TaskRows
    BY <1>0 DEF TypeOK
  <2> QED
    BY <1>0, <2>1 DEF ClaimManifest, TypeOK, TaskRows
<1>3. /\ art' = art /\ manifest' = manifest /\ strayed' = strayed
      /\ at'[c] = "build" /\ work'[c] = t
      /\ built'[c] = [cloud |-> DesiredStatus(task[t]), rows |-> Nothing]
      /\ \A d \in Threads \ {c} : at'[d] = at[d] /\ work'[d] = work[d] /\ built'[d] = built[d]
  BY <1>0 DEF ClaimManifest, TypeOK, OssShape
<1>4. Kept(t)
  BY <1>2, <1>3 DEF Kept
<1>5. MediaSettled(t)' /\ DesiredStatus(task[t])' = DesiredStatus(task[t])
  BY <1>1, <1>4, KeptComputed
<1>6. RowInv(t)'
  <2>1. task[t].cloud # "cloud_completed"
    BY <1>0, <1>1 DEF RowInv
  <2> QED
    BY <1>0, <1>2, <1>4, <2>1, RowFrame
<1>7. DoneInv(t)'
  BY <1>2 DEF DoneInv
<1>8. ASSUME NEW d \in Threads, at'[d] \in OnManifestRow, work'[d] = t PROVE BuildInv(d)'
  <2>1. CASE d = c
    BY <1>3, <1>5, <2>1 DEF BuildInv
  <2>2. CASE d # c
    <3>1. t \in strayed
      BY <1>1, <1>3, <1>8, <2>2 DEF OnManifest
    <3> QED
      BY <1>3, <1>8, <3>1 DEF BuildInv, Undisturbed
  <2> QED
    BY <2>1, <2>2
<1>9. ASSUME NEW u \in Tasks \ {t} PROVE KeptRow(u) /\ Calm(u)
  <2>1. KeptRow(u)
    BY <1>2, <1>3, <1>9, SameRow
  <2>2. u \in relisted => u \in relisted'
    BY <1>9 DEF ClaimManifest
  <2> QED
    BY <1>3, <2>1, <2>2, GrowsCalm
<1> QED
  BY <1>0, <1>3, <1>6, <1>7, <1>8, <1>9, OnePrompt

(* The manifest is built, then written to OSS.                              *)
LEMMA BuildTable ==
  ASSUME CloudInv, TableInv, OssShape, NEW c \in Threads,
         BuildManifest(c) \/ ManifestTransferred(c)
  PROVE  TableInv'
<1> USE DEF jobVars, storeVars, threadVars, ossVars, auxVars, bounds
<1>0. TypeOK /\ LeaseInv
  BY DEF CloudInv
<1>1. /\ at[c] \in OnManifestRow /\ at'[c] \in OnManifestRow
      /\ UNCHANGED <<task, art, work, strayed, relisted>>
  BY <1>0 DEF BuildManifest, ManifestTransferred, Step, TypeOK, OnManifestRow
<1>2. PICK t \in Tasks : t = work[c]
  BY <1>0, <1>1 DEF TypeOK
<1>3. /\ t \notin strayed => task[t].mstatus = "uploading"
      /\ \A d \in Threads \ {c} : OnManifest(d, t) => t \in strayed
  BY <1>0, <1>1, <1>2 DEF LeaseInv, OnManifest
<1>4. Kept(t)
  BY <1>1 DEF Kept
<1>5. /\ MediaSettled(t)' <=> MediaSettled(t)
      /\ RowsOf(t)' = RowsOf(t) /\ DesiredStatus(task[t])' = DesiredStatus(task[t])
  BY <1>4, KeptComputed
<1>6. RowInv(t)'
  <2>1. RowInv(t) /\ task' = task
    BY <1>1 DEF TableInv
  <2> QED
    BY <1>4, <2>1, RowFrame DEF RowInv
<1>7. DoneInv(t)'
  BY <1>1, <1>3 DEF DoneInv, Undisturbed
<1>8. \A u \in Tasks \ {t} : manifest'[u] = manifest[u]
  BY <1>0, <1>2 DEF BuildManifest, ManifestTransferred, OssShape
<1>9. \A u \in Tasks \ {t} : KeptRow(u) /\ Calm(u)
  BY <1>1, <1>8, SameRow, GrowsCalm
<1>10. \A d \in Threads \ {c} : at'[d] = at[d] /\ built'[d] = built[d]
  BY <1>0 DEF BuildManifest, ManifestTransferred, Step, TypeOK, OssShape
<1>11. Undisturbed(t)' <=> Undisturbed(t)
  BY <1>1 DEF Undisturbed, ArtsOf
<1>12. Undisturbed(t) =>
         /\ MediaSettled(t)
         /\ at[c] = "build" => built[c] = [cloud |-> DesiredStatus(task[t]), rows |-> Nothing]
         /\ at[c] # "build" => built[c] = [cloud |-> DesiredStatus(task[t]), rows |-> RowsOf(t)]
  BY <1>1, <1>2 DEF TableInv, BuildInv
<1>13. BuildInv(c)'
  <2> SUFFICES ASSUME Undisturbed(t) PROVE BuildInv(c)'
    BY <1>1, <1>2, <1>11 DEF BuildInv
  <2>1. CASE BuildManifest(c)
    <3>1. at[c] = "build" /\ at'[c] = "putm"
      BY <1>0, <2>1 DEF BuildManifest, Step, TypeOK
    <3>2. built' = [built EXCEPT ![c] = [built[c] EXCEPT !.rows = RowsOf(t)]]
      BY <1>2, <2>1 DEF BuildManifest, OssShape
    <3>3. built'[c] = [built[c] EXCEPT !.rows = RowsOf(t)]
      BY <3>2 DEF OssShape
    <3>4. built'[c] = [cloud |-> DesiredStatus(task[t]), rows |-> RowsOf(t)]
      BY <1>12, <3>1, <3>3
    <3> QED
      BY <1>1, <1>2, <1>5, <1>12, <3>1, <3>4 DEF BuildInv
  <2>2. CASE ManifestTransferred(c)
    <3>1. at[c] = "putm" /\ at'[c] = "confirm" /\ built' = built
      BY <1>0, <2>2 DEF ManifestTransferred, Step, TypeOK
    <3>2. manifest'[t] = built[c]
      BY <1>2, <2>2 DEF ManifestTransferred, OssShape
    <3> QED
      BY <1>1, <1>2, <1>5, <1>12, <3>1, <3>2 DEF BuildInv
  <2> QED
    BY <2>1, <2>2
<1>14. ASSUME NEW d \in Threads, at'[d] \in OnManifestRow, work'[d] = t PROVE BuildInv(d)'
  <2>1. CASE d = c
    BY <1>13, <2>1
  <2>2. CASE d # c
    <3>1. t \in strayed
      BY <1>1, <1>3, <1>10, <1>14, <2>2 DEF OnManifest
    <3> QED
      BY <1>1, <1>14, <3>1 DEF BuildInv, Undisturbed
  <2> QED
    BY <2>1, <2>2
<1> QED
  BY <1>0, <1>1, <1>2, <1>6, <1>7, <1>9, <1>10, <1>14, OnePrompt

(* manifest_succeeded, manifest_failed                                      *)
LEMMA ConfirmTable ==
  ASSUME CloudInv, TableInv, OssShape, NEW c \in Threads,
         ManifestSucceeded(c) \/ ManifestFailed(c)
  PROVE  TableInv'
<1> USE DEF jobVars, storeVars, threadVars, ossVars, auxVars, bounds
<1>0. TypeOK /\ LeaseInv
  BY DEF CloudInv
<1>1. /\ at[c] \in OnManifestRow /\ UNCHANGED <<art, manifest, strayed, relisted>> /\ ToIdle(c)
  BY DEF ManifestSucceeded, ManifestFailed, OnManifestRow
<1>2. PICK t \in Tasks : t = work[c]
  BY <1>0, <1>1 DEF TypeOK
<1>3. task[t] \in TaskRows /\ RowInv(t)
      /\ \A d \in Threads \ {c} : OnManifest(d, t) => t \in strayed
  BY <1>0, <1>1, <1>2 DEF LeaseInv, OnManifest, TypeOK, TableInv
<1>4. PICK s \in Final \cup {"uploading"}, m \in {"uploaded", "failed", "pending"} :
         /\ m # "uploaded" => s # "cloud_completed"
         /\ m = "uploaded" => at[c] = "confirm" /\ s = DesiredStatus(task[t])
         /\ task' = [task EXCEPT ![t] =
                   [@ EXCEPT !.cloud = s, !.mstatus = m, !.mowner = Nobody, !.mlive = FALSE]]
  BY <1>2 DEF ManifestSucceeded, ManifestFailed, DesiredStatus, Final
<1>5. /\ task'[t].cloud = s /\ task'[t].mstatus = m
      /\ task'[t].count = task[t].count /\ task'[t].failed = task[t].failed
      /\ \A u \in Tasks \ {t} : task'[u] = task[u]
  BY <1>0, <1>3, <1>4 DEF TypeOK, TaskRows
<1>6. Kept(t)
  BY <1>1, <1>5 DEF Kept
<1>7. /\ MediaSettled(t)' <=> MediaSettled(t)
      /\ RowsOf(t)' = RowsOf(t) /\ DesiredStatus(task[t])' = DesiredStatus(task[t])
  BY <1>6, KeptComputed
<1>8. RowInv(t)'
  BY <1>3, <1>4, <1>5, <1>6, RowFrame
<1>9. Undisturbed(t)' <=> Undisturbed(t)
  BY <1>1 DEF Undisturbed, ArtsOf
<1>10. Undisturbed(t) /\ at[c] = "confirm" =>
         /\ MediaSettled(t)
         /\ manifest[t] = [cloud |-> DesiredStatus(task[t]), rows |-> RowsOf(t)]
  BY <1>1, <1>2 DEF TableInv, BuildInv
<1>11. DoneInv(t)'
  BY <1>1, <1>4, <1>5, <1>7, <1>9, <1>10 DEF DoneInv
<1>12. \A u \in Tasks \ {t} : KeptRow(u) /\ Calm(u)
  BY <1>1, <1>5, SameRow, GrowsCalm
<1>13. /\ at'[c] = "idle"
       /\ \A d \in Threads \ {c} : at'[d] = at[d] /\ work'[d] = work[d] /\ built'[d] = built[d]
  BY <1>0, <1>1, ToIdleType DEF ToIdle, OssShape
<1>14. ASSUME NEW d \in Threads, at'[d] \in OnManifestRow, work'[d] = t PROVE BuildInv(d)'
  <2>1. d # c
    BY <1>13, <1>14 DEF OnManifestRow
  <2>2. t \in strayed
    BY <1>3, <1>13, <1>14, <2>1 DEF OnManifest
  <2> QED
    BY <1>1, <1>14, <2>2 DEF BuildInv, Undisturbed
<1>15. \A d \in Threads : at'[d] \in OnManifestRow =>
         at'[d] = at[d] /\ work'[d] = work[d] /\ built'[d] = built[d]
  BY <1>13 DEF OnManifestRow
<1> QED
  BY <1>0, <1>8, <1>11, <1>12, <1>14, <1>15, OnePrompt

(* Every step keeps the rows of every prompt consistent.                    *)
LEMMA TableStep ==
  ASSUME CloudInv, ArchiveInv, [Next]_vars
  PROVE  TableInv'
<1> USE DEF jobVars, storeVars, threadVars, ossVars, auxVars, bounds
<1>0. /\ TypeOK /\ LeaseInv /\ RetryInv
      /\ PlanInv /\ BucketInv /\ OssShape /\ TableInv
  BY DEF CloudInv, ArchiveInv
<1>1. ASSUME UNCHANGED <<storeVars, manifest, auxVars>>,
             \A d \in Threads : at'[d] \in OnManifestRow =>
               at'[d] = at[d] /\ work'[d] = work[d] /\ built'[d] = built[d]
      PROVE  TableInv'
  <2>1. \A u \in Tasks : KeptRow(u) /\ Calm(u)
    BY <1>1, SameRow, GrowsCalm
  <2> QED
    BY <1>0, <1>1, <2>1, NoPrompt
<1>2. ASSUME NEW t \in Tasks,
             SaveHistory(t) \/ JobCompletes(t) \/ CompleteRaises(t) \/ JobCancelled(t)
             \/ JobLost(t) \/ EnqueueLost(t)
      PROVE  TableInv'
  BY <1>1, <1>2 DEF SaveHistory, JobCompletes, CompleteRaises, JobCancelled, JobLost, EnqueueLost
<1>3. ASSUME NEW t \in Tasks, EnqueueCompletion(t) PROVE TableInv'
  <2>1. /\ Enqueued(t, Found(t)) /\ UNCHANGED <<manifest, strayed, at, work, built>>
    BY <1>3 DEF EnqueueCompletion
  <2>2. Found(t) \in {{}, ArtsOf(t)}
    BY FoundAll
  <2> QED
    BY <1>0, <2>1, <2>2, EnqueuedTable
<1>4. ASSUME NEW S \in SUBSET Tasks, BackfillRead(S) PROVE TableInv'
  BY <1>1, <1>4 DEF BackfillRead
<1>5. ASSUME NEW r \in Registrars, NEW e \in plan[r], PlanLook(r, e) PROVE TableInv'
  BY <1>1, <1>5 DEF PlanLook
<1>6. ASSUME NEW r \in Registrars, NEW e \in plan[r], PlanWrite(r, e) PROVE TableInv'
  <2>1. e.task \in Tasks /\ e.found \in {{}, ArtsOf(e.task)}
    BY <1>0 DEF TypeOK, PlanInv
  <2>2. /\ UNCHANGED <<work, built, manifest, strayed>>
        /\ \A d \in Threads : at'[d] = at[d] \/ at'[d] = "idle"
    BY <1>0, <1>6 DEF PlanWrite, TypeOK
  <2>3. \A d \in Threads : at'[d] \in OnManifestRow =>
          at'[d] = at[d] /\ work'[d] = work[d] /\ built'[d] = built[d]
    BY <2>2 DEF OnManifestRow
  <2>4. CASE Enqueued(e.task, e.found)
    BY <1>0, <2>1, <2>2, <2>3, <2>4, EnqueuedTable
  <2>5. CASE e.do = "retry" /\ ResetFailed(e.task)
    <3>1. e.task \notin strayed => Ended(e.task)
      BY <1>0, <2>5 DEF RetryInv, Registrars
    <3> QED
      BY <1>0, <2>1, <2>2, <2>3, <2>5, <3>1, ResetTable
  <2> QED
    BY <1>6, <2>4, <2>5 DEF PlanWrite
<1>7. ASSUME NEW c \in Threads,
             \/ Fetched(c) \/ Transferred(c)
             \/ ReconcileRead(c) \/ StoreRaises(c) \/ ThreadDies(c) \/ ThreadStarts(c)
      PROVE  TableInv'
  <2>1. UNCHANGED <<storeVars, manifest, auxVars>>
    BY <1>7 DEF Fetched, Transferred, ReconcileRead, StoreRaises, ThreadDies, ThreadStarts
  <2>2. \A d \in Threads : at'[d] \in OnManifestRow =>
          at'[d] = at[d] /\ work'[d] = work[d] /\ built'[d] = built[d]
    BY <1>0, <1>7 DEF Fetched, Transferred, ReconcileRead, StoreRaises, ThreadDies, ThreadStarts,
                      Step, ToIdle, TypeOK, OssShape, OnManifestRow
  <2> QED
    BY <1>1, <2>1, <2>2
<1>8. ASSUME NEW t \in Tasks,
             \/ ManifestLeaseExpires(t)
             \/ \E c \in Threads : RenewManifest(c, t) \/ ManifestLeaseOutlived(c, t)
      PROVE  TableInv'
  <2>1. /\ UNCHANGED <<art, at, work, built, manifest, relisted>> /\ task[t].mstatus = "uploading"
        /\ strayed \subseteq strayed'
    BY <1>8 DEF ManifestLeaseExpires, RenewManifest, ManifestLeaseOutlived
  <2>2. PICK b \in BOOLEAN : task' = [task EXCEPT ![t] = [task[t] EXCEPT !.mlive = b]]
    BY <1>0, <1>8 DEF ManifestLeaseExpires, RenewManifest, ManifestLeaseOutlived, TypeOK
  <2>3. task[t] \in TaskRows
    BY <1>0 DEF TypeOK
  <2>4. /\ \A u \in Tasks \ {t} : task'[u] = task[u]
        /\ task'[t].cloud = task[t].cloud /\ task'[t].mstatus = task[t].mstatus
        /\ task'[t].count = task[t].count /\ task'[t].failed = task[t].failed
    BY <1>0, <2>2, <2>3 DEF TypeOK, TaskRows
  <2>5. task[t] # NoTask
    BY <2>1 DEF NoTask
  <2>6. \A u \in Tasks : KeptRow(u) /\ Calm(u)
    BY <2>1, <2>4, <2>5, GrowsCalm DEF KeptRow, Kept
  <2> QED
    BY <1>0, <2>1, <2>6, NoPrompt
<1>9. ASSUME NEW a \in Arts,
             \/ ArtifactLeaseExpires(a)
             \/ \E c \in Threads : RenewArtifact(c, a) \/ ArtifactLeaseOutlived(c, a)
      PROVE  TableInv'
  <2>1. /\ UNCHANGED <<task, at, work, built, manifest, relisted>> /\ art[a].status = "uploading"
        /\ strayed \subseteq strayed'
    BY <1>9 DEF ArtifactLeaseExpires, RenewArtifact, ArtifactLeaseOutlived
  <2>2. \A b \in Arts : art'[b].status = art[b].status /\ (b # a => art'[b] = art[b])
    BY <1>0, <1>9 DEF ArtifactLeaseExpires, RenewArtifact, ArtifactLeaseOutlived, TypeOK, ArtRows
  <2>3. art[a] # NoArt
    BY <2>1 DEF NoArt
  <2>4. \A u \in Tasks : KeptRow(u) /\ Calm(u)
    BY <2>1, <2>2, <2>3, GrowsCalm DEF KeptRow, Kept, ArtsOf
  <2> QED
    BY <1>0, <2>1, <2>4, NoPrompt
<1>10. ASSUME NEW c \in Threads, NEW a \in Arts, ClaimArtifact(c, a) PROVE TableInv'
  BY <1>0, <1>10, ClaimTable
<1>11. ASSUME NEW c \in Threads,
              ArtifactSucceeded(c) \/ ArtifactFailed(c) \/ ArtifactSourceMissing(c)
       PROVE  TableInv'
  <2>1. work[c] \in Arts /\ OnArt(c, work[c]) /\ UNCHANGED <<manifest, strayed, relisted>>
    BY <1>0, <1>11
    DEF ArtifactSucceeded, ArtifactFailed, ArtifactSourceMissing, TypeOK, OnArt, OnArtifactRow
  <2>2. PICK s \in ArtStatuses \ {"none"} : ArtifactResult(work[c], s) /\ ToIdle(c)
    BY <1>11 DEF ArtifactSucceeded, ArtifactFailed, ArtifactSourceMissing, FailedStatus,
                 ArtStatuses, Settled
  <2> QED
    BY <1>0, <2>1, <2>2, ResultTable
<1>12. ASSUME NEW c \in Threads, NEW t \in Tasks, ClaimManifest(c, t) PROVE TableInv'
  BY <1>0, <1>12, ClaimManifestTable
<1>13. ASSUME NEW c \in Threads, BuildManifest(c) \/ ManifestTransferred(c) PROVE TableInv'
  BY <1>0, <1>13, BuildTable
<1>14. ASSUME NEW c \in Threads, ManifestSucceeded(c) \/ ManifestFailed(c) PROVE TableInv'
  BY <1>0, <1>14, ConfirmTable
<1>15. CASE UNCHANGED vars
  BY <1>1, <1>15 DEF vars
<1> QED
  BY <1>2, <1>3, <1>4, <1>5, <1>6, <1>7, <1>8, <1>9, <1>10, <1>11, <1>12, <1>13, <1>14, <1>15
  DEF Next, SchedulerStep, Progress, Registrars

(* Nothing is registered, nothing is in OSS.                                *)
LEMMA ArchiveInit == Init => ArchiveInv
<1> SUFFICES ASSUME Init PROVE ArchiveInv
  OBVIOUS
<1>1. PlanInv /\ OssShape
  BY DEF Init, PlanInv, OssShape
<1>2. BucketInv
  BY DEF Init, BucketInv, NoArt, OnArt, OnArtifactRow
<1>3. \A c \in Threads : BuildInv(c)
  BY DEF Init, BuildInv, OnManifestRow
<1>4. ASSUME NEW t \in Tasks PROVE RowInv(t) /\ DoneInv(t)
  <2>1. /\ task[t] = NoTask /\ NoTask.mstatus = "none" /\ NoTask.cloud = "none" /\ NoTask.count = 0
        /\ \A a \in ArtsOf(t) : art[a] = NoArt /\ NoArt.status = "none"
    BY DEF Init, NoTask, NoArt, ArtsOf
  <2> QED
    BY <2>1 DEF RowInv, DoneInv, Unlisted, CountsAsFailed
<1> QED
  BY <1>1, <1>2, <1>3, <1>4 DEF ArchiveInv, TableInv

(* The invariant of the archive, from its parts.                            *)
LEMMA ArchiveInvariant == Spec => []ArchiveInv
<1>1. CloudInv /\ ArchiveInv /\ [Next]_vars => ArchiveInv'
  <2> SUFFICES ASSUME CloudInv, ArchiveInv, [Next]_vars PROVE ArchiveInv'
    OBVIOUS
  <2>1. TypeOK /\ PlanInv /\ BucketInv /\ OssShape
    BY DEF CloudInv, ArchiveInv
  <2>2. PlanInv' /\ BucketInv' /\ OssShape'
    BY <2>1, PlanStep, BucketStep, ShapeStep
  <2>3. TableInv'
    BY TableStep
  <2> QED
    BY <2>2, <2>3 DEF ArchiveInv
<1> QED
  BY <1>1, CloudInvariant, ArchiveInit, PTL DEF Spec

(* A manifest recorded as uploaded agrees with the tables for good: no      *)
(* result, retry, registration or lease of another prompt changes them      *)
(* behind the thread that built it, and of the prompt itself only what      *)
(* Undisturbed names.                                                       *)
THEOREM ManifestMatchesRowsHolds == Spec => []ManifestMatchesRows
<1>1. ArchiveInv => ManifestMatchesRows
  BY DEF ArchiveInv, TableInv, DoneInv, ManifestMatchesRows
<1> QED
  BY <1>1, ArchiveInvariant, PTL

(* cloud_completed means what it says, every output of the prompt and its   *)
(* manifest are in OSS, although the counters it is computed from lag       *)
(* behind resets and are overwritten by repeated registrations.             *)
THEOREM CompletedIsCompleteHolds == Spec => []CompletedIsComplete
<1>1. TypeOK /\ ArchiveInv => CompletedIsComplete
  <2> SUFFICES ASSUME TypeOK, ArchiveInv, NEW t \in Tasks, Undisturbed(t),
                      task[t].cloud = "cloud_completed"
               PROVE  /\ \A a \in ArtsOf(t) : art[a].status = "uploaded" /\ a \in bucket
                      /\ manifest[t] # Nothing
    BY DEF CompletedIsComplete
  <2>0. RowInv(t) /\ DoneInv(t) /\ BucketInv
    BY DEF ArchiveInv, TableInv
  <2>1. /\ MediaSettled(t) /\ DesiredStatus(task[t]) = "cloud_completed"
        /\ manifest[t] = [cloud |-> task[t].cloud, rows |-> RowsOf(t)]
    BY <2>0 DEF DoneInv, RowInv
  <2>2. task[t].count # 0 /\ task[t].failed = 0
    BY <2>1 DEF DesiredStatus, TypeOK, TaskRows
  <2>3. \A a \in ArtsOf(t) : art[a].status = "uploaded"
    BY <2>0, <2>1, <2>2 DEF RowInv, Listed, MediaSettled, Settled, CountsAsFailed
  <2>4. \A a \in ArtsOf(t) : a \in bucket
    BY <2>0, <2>3 DEF BucketInv, ArtsOf
  <2>5. manifest[t] # Nothing
    <3>1. RowsOf(t) \in [ArtsOf(t) -> ArtStatuses]
      BY DEF RowsOf, ArtsOf, TypeOK, ArtRows
    <3>2. manifest[t] \in Manifests
      BY <2>1, <3>1 DEF Manifests, Final
    <3> QED
      BY <3>2, NothingAssumption
  <2> QED
    BY <2>3, <2>4, <2>5
<1> QED
  BY <1>1, ArchiveInvariant, CloudTypeCorrect, PTL
=============================================================================
