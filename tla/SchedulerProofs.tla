-------------------------- MODULE SchedulerProofs --------------------------
(***************************************************************************)
(* Machine-checked proofs about Scheduler, for every fleet, every set of   *)
(* accounts and jobs, every limit and every bound.                         *)
(***************************************************************************)
EXTENDS Scheduler, FiniteSetTheorems, TLAPS

(* A submitted job's row is complete.                                       *)
JobsWellFormed == \A j \in Prompts : status[j] # "absent" => job[j] \in JobRecords

TypeInv == TypeOK /\ JobsWellFormed

-----------------------------------------------------------------------------
(* The sequence number an insert assigns is within range: the inserted job  *)
(* is not counted among the rows present.                                   *)
LEMMA NextSeqInRange ==
  ASSUME NEW j \in Prompts, NEW S \in SUBSET Prompts, j \notin S
  PROVE  Cardinality(S) + 1 \in 1 .. Cardinality(Prompts)
<1>1. IsFiniteSet(Prompts \ {j}) /\ Cardinality(Prompts \ {j}) = Cardinality(Prompts) - 1
  BY FS_RemoveElement, ConstantsAssumption
<1>2. S \subseteq Prompts \ {j}
  OBVIOUS
<1>3. IsFiniteSet(S) /\ Cardinality(S) <= Cardinality(Prompts \ {j})
  BY <1>1, <1>2, FS_Subset
<1>4. Cardinality(S) \in Nat /\ Cardinality(Prompts) \in Nat
  BY <1>3, FS_CardinalityType, ConstantsAssumption
<1> QED
  BY <1>1, <1>3, <1>4

(* A limit taken from the configuration is a positive number.               *)
LEMMA LimitForType == \A c \in Classes : LimitFor(c) \in Nat \ {0}
  BY LimitsAssumption DEF LimitFor

(* Reclassification keeps a row complete.                                   *)
LEMMA ReclassifiedType ==
  ASSUME TypeInv, NEW p \in Procs, NEW j \in Prompts
  PROVE  /\ Reclassified(p, j) \in JobRecords \cup {NoJob}
         /\ status[j] # "absent" => Reclassified(p, j) \in JobRecords
<1>1. CASE IsLegacy(p, j)
  <2>1. job[j] \in JobRecords
    BY <1>1 DEF TypeInv, JobsWellFormed, IsLegacy
  <2>2. job[j].kind \in Classes
    BY <2>1, ConstantsAssumption DEF JobRecords, Classes
  <2>3. job[j].kind \in DOMAIN ResourceLimits => ResourceLimits[job[j].kind] \in Nat
    BY LimitsAssumption
  <2> QED
    BY <1>1, <2>1, <2>2, <2>3 DEF Reclassified, JobRecords
<1>2. CASE ~IsLegacy(p, j)
  BY <1>2 DEF Reclassified, TypeInv, TypeOK, JobsWellFormed
<1> QED
  BY <1>1, <1>2

LEMMA ReportType ==
  ASSUME TypeOK, NEW p \in Procs, NEW lag \in Lags, Report(p, lag)
  PROVE  /\ pid' \in [Ports -> {PidOf[r] : r \in Procs} \cup {NoPid}]
         /\ age' \in [Ports -> 0 .. AgeCap]
         /\ pool' \in [Ports -> Classes]
<1>1. PortOf[p] \in Ports /\ PoolOf[p] \in Classes
  BY ConstantsAssumption
<1>2. lag \in 0 .. AgeCap
  BY LimitsAssumption DEF Lags, AgeCap
<1> QED
  BY <1>1, <1>2 DEF TypeOK, Report

-----------------------------------------------------------------------------
LEMMA TypeInit == Init => TypeInv
<1> SUFFICES ASSUME Init PROVE TypeInv
  OBVIOUS
<1>1. 0 \in 0 .. AgeCap /\ 0 \in 0 .. MaxCrashes /\ 0 \in 0 .. MaxDbFailures
  BY LimitsAssumption DEF AgeCap
<1>2. TypeOK
  BY <1>1 DEF Init, TypeOK, Statuses, Phases, Classes
<1>3. JobsWellFormed
  BY DEF Init, JobsWellFormed
<1> QED
  BY <1>2, <1>3 DEF TypeInv

LEMMA TypeStep == TypeInv /\ [Next]_vars => TypeInv'
<1> SUFFICES ASSUME TypeInv, [Next]_vars PROVE TypeInv'
  OBVIOUS
<1> USE DEF TypeInv
<1>1. ASSUME NEW p \in Procs, NEW j \in Prompts, NEW u \in Users, NEW k \in Kinds,
             NEW n \in Priorities, Enqueue(p, j, u, k, n)
      PROVE  TypeInv'
  <2> DEFINE S == {i \in Prompts : status[i] # "absent"}
  <2>1. Cardinality(S) + 1 \in 1 .. Cardinality(Prompts)
    <3>1. j \notin S /\ S \in SUBSET Prompts
      BY <1>1 DEF Enqueue
    <3> QED
      BY <3>1, NextSeqInRange
  <2>2. Classify(p, k) \in Classes
    BY ConstantsAssumption DEF Classify, Classes
  <2>3. (IF u \in Admins THEN AdminLimit ELSE LimitFor(Classify(p, k))) \in Nat
    BY <2>2, LimitForType, LimitsAssumption
  <2>4. job'[j] \in JobRecords /\ job' \in [Prompts -> JobRecords \cup {NoJob}]
    BY <1>1, <2>1, <2>2, <2>3 DEF Enqueue, JobRecords, TypeOK
  <2>5. \A i \in Prompts : i # j => job'[i] = job[i] /\ status'[i] = status[i]
    BY <1>1 DEF Enqueue, TypeOK
  <2>6. TypeOK'
    BY <1>1, <2>4 DEF Enqueue, TypeOK, Statuses, workerVars, procVars, budgets
  <2>7. JobsWellFormed'
    BY <2>4, <2>5 DEF JobsWellFormed
  <2> QED
    BY <2>6, <2>7
<1>2. ASSUME NEW u \in Requesters, CancelAll(u) PROVE TypeInv'
  BY <1>2 DEF CancelAll, MayCancel, TypeOK, JobsWellFormed, Statuses, workerVars, procVars, budgets
<1>3. ASSUME NEW u \in Requesters, NEW j \in Prompts, Cancel(u, j) PROVE TypeInv'
  BY <1>3 DEF Cancel, MayCancel, TypeOK, JobsWellFormed, Statuses, workerVars, procVars, budgets
<1>4. ASSUME NEW u \in Requesters, NEW S \in SUBSET Prompts, DeleteRead(u, S) PROVE TypeInv'
  BY <1>4 DEF DeleteRead, TypeOK, JobsWellFormed, jobVars, workerVars, procVars, budgets
<1>5. ASSUME NEW j \in Prompts, DeleteNext(j) PROVE TypeInv'
  <2>1. sweep' = NoSweep \/ sweep' \in [by : Requesters, cand : (SUBSET Prompts) \ {{}}]
    <3>1. sweep \in [by : Requesters, cand : (SUBSET Prompts) \ {{}}]
      <4>1. NoSweep.cand = {}
        BY DEF NoSweep
      <4>2. sweep # NoSweep
        BY <1>5, <4>1 DEF DeleteNext
      <4> QED
        BY <4>2 DEF TypeOK
    <3>2. sweep' = NoSweep \/ (sweep.cand # {j} /\ sweep' = [sweep EXCEPT !.cand = @ \ {j}])
      BY <1>5 DEF DeleteNext
    <3>3. sweep.cand # {j} => sweep.cand \ {j} # {}
      BY <1>5 DEF DeleteNext
    <3> QED
      BY <3>1, <3>2, <3>3
  <2>2. status' \in [Prompts -> Statuses]
    BY <1>5 DEF DeleteNext, TypeOK, Statuses
  <2>3. \A i \in Prompts : status[i] = "absent" => status'[i] = "absent"
    BY <1>5 DEF DeleteNext, TypeOK, MayCancel
  <2> QED
    BY <1>5, <2>1, <2>2, <2>3 DEF DeleteNext, TypeOK, JobsWellFormed, workerVars, procVars, budgets
<1>6. ASSUME NEW p \in Procs, NEW lag \in Lags, StartProcess(p, lag) PROVE TypeInv'
  <2>1. /\ pid' \in [Ports -> {PidOf[r] : r \in Procs} \cup {NoPid}]
        /\ age' \in [Ports -> 0 .. AgeCap]
        /\ pool' \in [Ports -> Classes]
    BY <1>6, ReportType DEF StartProcess, RegisterWorker
  <2>2. /\ status' \in [Prompts -> Statuses]
        /\ \A j \in Prompts : status[j] = "absent" => status'[j] = "absent"
    BY <1>6 DEF StartProcess, RegisterWorker, Displaces, LostStatus, TypeOK, Statuses
  <2>3. /\ job' \in [Prompts -> JobRecords \cup {NoJob}]
        /\ \A j \in Prompts : status[j] # "absent" => job'[j] \in JobRecords
    BY <1>6, ReclassifiedType DEF StartProcess
  <2>4. active' \in [Ports -> Prompts \cup {NoPrompt}] /\ phase' \in [Procs -> Phases]
    BY <1>6 DEF StartProcess, RegisterWorker, TypeOK, Phases
  <2> QED
    BY <1>6, <2>1, <2>2, <2>3, <2>4 DEF StartProcess, TypeOK, JobsWellFormed, budgets
<1>7. ASSUME NEW p \in Procs, NEW lag \in Lags, Heartbeat(p, lag) PROVE TypeInv'
  <2>1. /\ pid' \in [Ports -> {PidOf[r] : r \in Procs} \cup {NoPid}]
        /\ age' \in [Ports -> 0 .. AgeCap]
        /\ pool' \in [Ports -> Classes]
    BY <1>7, ReportType DEF Heartbeat
  <2>2. /\ status' \in [Prompts -> Statuses]
        /\ \A j \in Prompts : status[j] = "absent" => status'[j] = "absent"
    BY <1>7 DEF Heartbeat, LostStatus, TypeOK, Statuses
  <2>3. active' \in [Ports -> Prompts \cup {NoPrompt}]
    BY <1>7 DEF Heartbeat, TypeOK
  <2> QED
    BY <1>7, <2>1, <2>2, <2>3 DEF Heartbeat, TypeOK, JobsWellFormed, procVars, budgets
<1>8. ASSUME NEW p \in Procs, NEW lag \in Lags, ClaimNothing(p, lag) PROVE TypeInv'
  BY <1>8, ReportType DEF ClaimNothing, TypeOK, JobsWellFormed, jobVars, procVars, budgets
<1>9. ASSUME NEW p \in Procs, NEW lag \in Lags, Complete(p, lag) PROVE TypeInv'
  <2>1. lag \in 0 .. AgeCap /\ PortOf[p] \in Ports
    BY LimitsAssumption, ConstantsAssumption DEF Lags, AgeCap
  <2>2. /\ status' \in [Prompts -> Statuses]
        /\ \A j \in Prompts : status[j] = "absent" => status'[j] = "absent"
    BY <1>9 DEF Complete, TypeOK, Statuses
  <2>3. active' \in [Ports -> Prompts \cup {NoPrompt}] /\ age' \in [Ports -> 0 .. AgeCap]
    BY <1>9, <2>1 DEF Complete, TypeOK
  <2> QED
    BY <1>9, <2>2, <2>3 DEF Complete, BackToQueue, TypeOK, JobsWellFormed, Phases, budgets
<1>10. ASSUME NEW p \in Procs, NEW lag \in Lags, NEW j \in Prompts, Claim(p, j, lag)
       PROVE  TypeInv'
  <2>1. PortOf[p] \in Ports
    BY ConstantsAssumption
  <2>2. status[j] # "absent"
    BY <1>10 DEF Claim, Eligible
  <2> QED
    BY <1>10, <2>1, <2>2, ReportType
    DEF Claim, TypeOK, JobsWellFormed, Statuses, Phases, budgets
<1>11. ASSUME NEW p \in Procs, ClaimRaises(p) PROVE TypeInv'
  BY <1>11, LimitsAssumption
  DEF ClaimRaises, TypeOK, JobsWellFormed, Phases, jobVars, workerVars
<1>12. ASSUME NEW p \in Procs, NEW b \in BOOLEAN, Finish(p, b) PROVE TypeInv'
  BY <1>12 DEF Finish, TypeOK, JobsWellFormed, Phases, jobVars, workerVars, budgets
<1>13. ASSUME NEW p \in Procs, CompleteRaises(p) PROVE TypeInv'
  <2>1. dbFailures' \in 0 .. MaxDbFailures
    BY <1>13, LimitsAssumption DEF CompleteRaises, TypeOK
  <2>2. phase' \in [Procs -> Phases] /\ held' \in [Procs -> Prompts \cup {NoPrompt}]
    BY <1>13 DEF CompleteRaises, BackToQueue, TypeOK, Phases
  <2>3. tries' \in [Procs -> 0 .. 2] /\ ok' \in [Procs -> BOOLEAN]
    <3>1. CASE tries[p] < LastAttempt /\ tries' = [tries EXCEPT ![p] = @ + 1] /\ UNCHANGED ok
      <4>1. tries[p] + 1 \in 0 .. 2
        BY <3>1 DEF TypeOK, LastAttempt
      <4> QED
        BY <3>1, <4>1 DEF TypeOK
    <3>2. CASE BackToQueue(p)
      BY <3>2 DEF BackToQueue, TypeOK
    <3> QED
      BY <1>13, <3>1, <3>2 DEF CompleteRaises
  <2> QED
    BY <1>13, <2>1, <2>2, <2>3
    DEF CompleteRaises, TypeOK, JobsWellFormed, jobVars, workerVars
<1>14. ASSUME NEW p \in Procs, Crash(p) PROVE TypeInv'
  BY <1>14, LimitsAssumption DEF Crash, TypeOK, JobsWellFormed, Phases, jobVars, workerVars
<1>15. CASE Tick
  <2>1. \A q \in Ports : Min2(age[q] + 1, AgeCap) \in 0 .. AgeCap
    BY LimitsAssumption DEF TypeOK, Min2, AgeCap
  <2> QED
    BY <1>15, <2>1 DEF Tick, TypeOK, JobsWellFormed, jobVars, procVars, budgets
<1>16. CASE UNCHANGED vars
  BY <1>16 DEF vars, TypeOK, JobsWellFormed, jobVars, workerVars, procVars, budgets
<1> QED
  BY <1>1, <1>2, <1>3, <1>4, <1>5, <1>6, <1>7, <1>8, <1>9, <1>10, <1>11, <1>12,
     <1>13, <1>14, <1>15, <1>16 DEF Next, Submission, Request

(* Type correctness, with complete rows for all submitted jobs.             *)
THEOREM TypeCorrect == Spec => []TypeInv
<1>1. Init => TypeInv
  BY TypeInit
<1>2. TypeInv /\ [Next]_vars => TypeInv'
  BY TypeStep
<1> QED
  BY <1>1, <1>2, PTL DEF Spec

(* The tables and the process states stay within their types.               *)
THEOREM SchedulerTypeCorrect == Spec => []TypeOK
<1>1. TypeInv => TypeOK
  BY DEF TypeInv
<1> QED
  BY TypeCorrect, <1>1, PTL

-----------------------------------------------------------------------------
(* A process holds a prompt exactly while it executes or completes it; the  *)
(* prompt's row then says running or lost and names the process's port.     *)
HeldIsOpen ==
  \A p \in Procs :
     /\ held[p] # NoPrompt <=> phase[p] \in {"executing", "finishing"}
     /\ held[p] # NoPrompt =>
          /\ status[held[p]] \in {"running", "worker_lost"}
          /\ workerPort[held[p]] = PortOf[p]

HandOutInv == HeldIsOpen /\ ExclusiveExecution

(* Steps that leave the processes and the open rows alone preserve it.      *)
LEMMA HandOutFrame ==
  ASSUME TypeInv, HandOutInv, UNCHANGED <<held, workerPort>>,
         \A p \in Procs : phase'[p] \in {"executing", "finishing"}
                           <=> phase[p] \in {"executing", "finishing"},
         \A j \in Prompts : status[j] \in {"running", "worker_lost"}
                           => status'[j] \in {"running", "worker_lost"}
  PROVE  HandOutInv'
  BY DEF HandOutInv, HeldIsOpen, ExclusiveExecution, TypeInv, TypeOK

(* Processes that let go of their prompt preserve it.                       *)
LEMMA HandOutRelease ==
  ASSUME TypeInv, HandOutInv, NEW p \in Procs, UNCHANGED workerPort,
         held' = [held EXCEPT ![p] = NoPrompt],
         phase' \in [Procs -> Phases], phase'[p] \notin {"executing", "finishing"},
         \A r \in Procs : r # p => phase'[r] = phase[r],
         \A j \in Prompts : j # held[p] => status'[j] = status[j]
  PROVE  HandOutInv'
<1>1. held'[p] = NoPrompt /\ \A r \in Procs : r # p => held'[r] = held[r]
  BY DEF TypeInv, TypeOK
<1>2. ExclusiveExecution'
  BY <1>1 DEF HandOutInv, ExclusiveExecution
<1>3. \A r \in Procs : r # p /\ held[r] # NoPrompt => status'[held[r]] = status[held[r]]
  BY DEF HandOutInv, ExclusiveExecution, TypeInv, TypeOK
<1>4. HeldIsOpen'
  BY <1>1, <1>3 DEF HandOutInv, HeldIsOpen
<1> QED
  BY <1>2, <1>4 DEF HandOutInv

LEMMA HandOutInit == Init => HandOutInv
  BY DEF Init, HandOutInv, HeldIsOpen, ExclusiveExecution

LEMMA HandOutStep == TypeInv /\ HandOutInv /\ [Next]_vars => HandOutInv'
<1> SUFFICES ASSUME TypeInv, HandOutInv, [Next]_vars PROVE HandOutInv'
  OBVIOUS
<1>1. ASSUME NEW p \in Procs, NEW j \in Prompts, NEW u \in Users, NEW k \in Kinds,
             NEW n \in Priorities, Enqueue(p, j, u, k, n)
      PROVE  HandOutInv'
  BY <1>1, HandOutFrame DEF Enqueue, TypeInv, TypeOK, procVars
<1>2. ASSUME NEW u \in Requesters, CancelAll(u) PROVE HandOutInv'
  BY <1>2, HandOutFrame DEF CancelAll, MayCancel, procVars
<1>3. ASSUME NEW u \in Requesters, NEW j \in Prompts, Cancel(u, j) PROVE HandOutInv'
  BY <1>3, HandOutFrame DEF Cancel, MayCancel, TypeInv, TypeOK, procVars
<1>4. ASSUME NEW u \in Requesters, NEW S \in SUBSET Prompts, DeleteRead(u, S)
      PROVE  HandOutInv'
  BY <1>4, HandOutFrame DEF DeleteRead, jobVars, procVars
<1>5. ASSUME NEW j \in Prompts, DeleteNext(j) PROVE HandOutInv'
  BY <1>5, HandOutFrame DEF DeleteNext, MayCancel, TypeInv, TypeOK, procVars
<1>6. ASSUME NEW p \in Procs, NEW lag \in Lags, StartProcess(p, lag) PROVE HandOutInv'
  BY <1>6, HandOutFrame DEF StartProcess, RegisterWorker, LostStatus, TypeInv, TypeOK
<1>7. ASSUME NEW p \in Procs, NEW lag \in Lags, Heartbeat(p, lag) PROVE HandOutInv'
  BY <1>7, HandOutFrame DEF Heartbeat, LostStatus, procVars
<1>8. ASSUME NEW p \in Procs, NEW lag \in Lags, ClaimNothing(p, lag) PROVE HandOutInv'
  BY <1>8, HandOutFrame DEF ClaimNothing, jobVars, procVars
<1>9. ASSUME NEW p \in Procs, NEW lag \in Lags, Complete(p, lag) PROVE HandOutInv'
  BY <1>9, HandOutRelease DEF Complete, BackToQueue, TypeInv, TypeOK, Phases
<1>10. ASSUME NEW p \in Procs, NEW lag \in Lags, NEW j \in Prompts, Claim(p, j, lag)
       PROVE  HandOutInv'
  <2>1. \A r \in Procs : held[r] # j
    BY <1>10, ConstantsAssumption DEF Claim, Eligible, HandOutInv, HeldIsOpen
  <2>2. /\ held'[p] = j /\ phase'[p] = "executing" /\ status'[j] = "running"
        /\ workerPort'[j] = PortOf[p]
        /\ \A r \in Procs : r # p => held'[r] = held[r] /\ phase'[r] = phase[r]
        /\ \A i \in Prompts : i # j => status'[i] = status[i] /\ workerPort'[i] = workerPort[i]
    BY <1>10 DEF Claim, TypeInv, TypeOK
  <2>3. ExclusiveExecution'
    BY <2>1, <2>2 DEF HandOutInv, ExclusiveExecution
  <2>4. HeldIsOpen'
    BY <2>1, <2>2, ConstantsAssumption DEF HandOutInv, HeldIsOpen, TypeInv, TypeOK
  <2> QED
    BY <2>3, <2>4 DEF HandOutInv
<1>11. ASSUME NEW p \in Procs, ClaimRaises(p) PROVE HandOutInv'
  BY <1>11, HandOutFrame DEF ClaimRaises, jobVars, TypeInv, TypeOK
<1>12. ASSUME NEW p \in Procs, NEW b \in BOOLEAN, Finish(p, b) PROVE HandOutInv'
  BY <1>12, HandOutFrame DEF Finish, jobVars, TypeInv, TypeOK
<1>13. ASSUME NEW p \in Procs, CompleteRaises(p) PROVE HandOutInv'
  <2>1. CASE UNCHANGED <<phase, held, ok>>
    BY <1>13, <2>1, HandOutFrame DEF CompleteRaises, jobVars
  <2>2. CASE BackToQueue(p)
    BY <1>13, <2>2, HandOutRelease
    DEF CompleteRaises, BackToQueue, jobVars, TypeInv, TypeOK, Phases
  <2> QED
    BY <1>13, <2>1, <2>2 DEF CompleteRaises
<1>14. ASSUME NEW p \in Procs, Crash(p) PROVE HandOutInv'
  BY <1>14, HandOutRelease DEF Crash, jobVars, TypeInv, TypeOK, Phases
<1>15. CASE Tick
  BY <1>15, HandOutFrame DEF Tick, jobVars, procVars
<1>16. CASE UNCHANGED vars
  BY <1>16, HandOutFrame DEF vars, jobVars, procVars
<1> QED
  BY <1>1, <1>2, <1>3, <1>4, <1>5, <1>6, <1>7, <1>8, <1>9, <1>10, <1>11, <1>12,
     <1>13, <1>14, <1>15, <1>16 DEF Next, Submission, Request

LEMMA HandOutInvariant == Spec => []HandOutInv
<1>1. Init => HandOutInv
  BY HandOutInit
<1>2. TypeInv /\ HandOutInv /\ [Next]_vars => HandOutInv'
  BY HandOutStep
<1> QED
  BY <1>1, <1>2, TypeCorrect, PTL DEF Spec

(* No prompt is ever executed by two processes: not after its worker was    *)
(* declared lost, not when a port's processes overlap, whatever the pids.   *)
THEOREM ExclusiveExecutionHolds == Spec => []ExclusiveExecution
  BY HandOutInvariant, PTL DEF HandOutInv

-----------------------------------------------------------------------------
(* The processes of a port have distinct pids.  register_worker relies on   *)
(* it: a process with the old one's pid clears the row's active job without *)
(* declaring it lost, and RunningIsTracked fails.                           *)
DistinctPids ==
  \A p, r \in Procs : p # r /\ PortOf[p] = PortOf[r] => PidOf[p] # PidOf[r]

(* A worker row's active job runs, on that worker, and the row exists.      *)
ActiveIsRunning ==
  \A q \in Ports : active[q] # NoPrompt =>
     status[active[q]] = "running" /\ workerPort[active[q]] = q /\ pid[q] # NoPid

(* A row's pid is that of a process of the port that was started.           *)
PidOfStarted ==
  \A q \in Ports : pid[q] # NoPid =>
     \E r \in Procs : PortOf[r] = q /\ PidOf[r] = pid[q] /\ phase[r] # "new"

TrackInv == ActiveIsRunning /\ PidOfStarted /\ RunningIsTracked

(* Steps that leave running jobs, active jobs and pids alone preserve it.   *)
LEMMA TrackFrame ==
  ASSUME TypeInv, TrackInv, UNCHANGED <<workerPort, active, pid>>,
         \A r \in Procs : phase'[r] = "new" => phase[r] = "new",
         \A j \in Prompts : status'[j] = "running" <=> status[j] = "running"
  PROVE  TrackInv'
<1>1. ActiveIsRunning'
  BY DEF TrackInv, ActiveIsRunning, TypeInv, TypeOK
<1>2. PidOfStarted'
  BY DEF TrackInv, PidOfStarted
<1>3. RunningIsTracked'
  BY DEF TrackInv, RunningIsTracked
<1> QED
  BY <1>1, <1>2, <1>3 DEF TrackInv

(* After a process reported, its port's row carries its pid.                *)
LEMMA ReportedPid ==
  ASSUME TypeInv, PidOfStarted, NEW p \in Procs, NEW lag \in Lags, Report(p, lag),
         phase'[p] # "new", \A r \in Procs : phase'[r] = "new" => phase[r] = "new"
  PROVE  /\ PidOfStarted'
         /\ pid'[PortOf[p]] = PidOf[p] /\ PidOf[p] # NoPid
         /\ \A q \in Ports : q # PortOf[p] => pid'[q] = pid[q]
<1>1. PortOf[p] \in Ports /\ PidOf[p] # NoPid
  BY ConstantsAssumption
<1>2. pid'[PortOf[p]] = PidOf[p] /\ \A q \in Ports : q # PortOf[p] => pid'[q] = pid[q]
  BY <1>1 DEF Report, TypeInv, TypeOK
<1> QED
  BY <1>1, <1>2 DEF PidOfStarted

LEMMA TrackInit == Init => TrackInv
  BY DEF Init, TrackInv, ActiveIsRunning, PidOfStarted, RunningIsTracked

LEMMA TrackStep ==
  ASSUME DistinctPids
  PROVE  TypeInv /\ HandOutInv /\ TrackInv /\ [Next]_vars => TrackInv'
<1> SUFFICES ASSUME TypeInv, HandOutInv, TrackInv, [Next]_vars PROVE TrackInv'
  OBVIOUS
<1>1. ASSUME NEW p \in Procs, NEW j \in Prompts, NEW u \in Users, NEW k \in Kinds,
             NEW n \in Priorities, Enqueue(p, j, u, k, n)
      PROVE  TrackInv'
  BY <1>1, TrackFrame DEF Enqueue, TypeInv, TypeOK, procVars, workerVars
<1>2. ASSUME NEW u \in Requesters, CancelAll(u) PROVE TrackInv'
  BY <1>2, TrackFrame DEF CancelAll, MayCancel, procVars, workerVars
<1>3. ASSUME NEW u \in Requesters, NEW j \in Prompts, Cancel(u, j) PROVE TrackInv'
  BY <1>3, TrackFrame DEF Cancel, MayCancel, TypeInv, TypeOK, procVars, workerVars
<1>4. ASSUME NEW u \in Requesters, NEW S \in SUBSET Prompts, DeleteRead(u, S)
      PROVE  TrackInv'
  BY <1>4, TrackFrame DEF DeleteRead, jobVars, procVars, workerVars
<1>5. ASSUME NEW j \in Prompts, DeleteNext(j) PROVE TrackInv'
  BY <1>5, TrackFrame DEF DeleteNext, MayCancel, TypeInv, TypeOK, procVars, workerVars
<1>6. ASSUME NEW p \in Procs, NEW lag \in Lags, StartProcess(p, lag) PROVE TrackInv'
  <2> DEFINE q == PortOf[p]
  <2>1. phase[p] = "new" /\ phase'[p] # "new"
        /\ \A r \in Procs : phase'[r] = "new" => phase[r] = "new"
    BY <1>6 DEF StartProcess, TypeInv, TypeOK
  <2>2. /\ PidOfStarted'
        /\ \A w \in Ports : w # q => pid'[w] = pid[w]
    BY <1>6, <2>1, ReportedPid DEF StartProcess, RegisterWorker, TrackInv
  <2>3. q \in Ports /\ active'[q] = NoPrompt
        /\ \A w \in Ports : w # q => active'[w] = active[w]
    BY <1>6, ConstantsAssumption DEF StartProcess, RegisterWorker, TypeInv, TypeOK
  <2>4. pid[q] # PidOf[p]
    <3>1. CASE pid[q] = NoPid
      BY <3>1, ConstantsAssumption
    <3>2. CASE pid[q] # NoPid
      <4>1. PICK r \in Procs : PortOf[r] = q /\ PidOf[r] = pid[q] /\ phase[r] # "new"
        BY <3>2, <2>3 DEF TrackInv, PidOfStarted
      <4> QED
        BY <4>1, <2>1, DistinctPids DEF DistinctPids
    <3> QED
      BY <3>1, <3>2
  <2>5. \A j \in Prompts : status'[j] = "running" <=> status[j] = "running" /\ active[q] # j
    BY <1>6, <2>4 DEF StartProcess, RegisterWorker, Displaces, LostStatus
  <2>6. RunningIsTracked'
    BY <1>6, <2>3, <2>5 DEF StartProcess, TrackInv, RunningIsTracked
  <2>7. ActiveIsRunning'
    <3> SUFFICES ASSUME NEW w \in Ports, active'[w] # NoPrompt
                 PROVE  /\ status'[active'[w]] = "running" /\ workerPort'[active'[w]] = w
                        /\ pid'[w] # NoPid
      BY DEF ActiveIsRunning
    <3>1. w # q /\ active'[w] = active[w]
      BY <2>3
    <3>2. status[active[w]] = "running" /\ workerPort[active[w]] = w /\ pid[w] # NoPid
      BY <3>1 DEF TrackInv, ActiveIsRunning
    <3>3. active[q] # active[w]
      BY <3>1, <3>2, <2>3 DEF TrackInv, ActiveIsRunning
    <3>4. active[w] \in Prompts
      BY <3>1 DEF TypeInv, TypeOK
    <3> QED
      BY <1>6, <2>2, <2>5, <3>1, <3>2, <3>3, <3>4 DEF StartProcess
  <2> QED
    BY <2>2, <2>6, <2>7 DEF TrackInv
<1>7. ASSUME NEW p \in Procs, NEW lag \in Lags, Heartbeat(p, lag) PROVE TrackInv'
  <2> DEFINE dead == StalePorts(lag) \ {PortOf[p]}
  <2>1. phase' = phase /\ phase[p] # "new" /\ workerPort' = workerPort
    BY <1>7 DEF Heartbeat, Alive, procVars
  <2>2. /\ PidOfStarted' /\ pid'[PortOf[p]] # NoPid
        /\ \A w \in Ports : w # PortOf[p] => pid'[w] = pid[w]
    BY <1>7, <2>1, ReportedPid DEF Heartbeat, TrackInv
  <2>3. \A w \in Ports : active'[w] = IF w \in dead THEN NoPrompt ELSE active[w]
    BY <1>7 DEF Heartbeat
  <2>4. \A j \in Prompts : status'[j] = "running"
                           <=> status[j] = "running" /\ \A w \in dead : active[w] # j
    BY <1>7 DEF Heartbeat, LostStatus
  <2>5. RunningIsTracked'
    BY <2>1, <2>3, <2>4 DEF TrackInv, RunningIsTracked
  <2>6. ActiveIsRunning'
    <3> SUFFICES ASSUME NEW w \in Ports, active'[w] # NoPrompt
                 PROVE  /\ status'[active'[w]] = "running" /\ workerPort'[active'[w]] = w
                        /\ pid'[w] # NoPid
      BY DEF ActiveIsRunning
    <3>1. w \notin dead /\ active'[w] = active[w] /\ active[w] \in Prompts
      BY <2>3 DEF TypeInv, TypeOK
    <3>2. status[active[w]] = "running" /\ workerPort[active[w]] = w /\ pid[w] # NoPid
      BY <3>1 DEF TrackInv, ActiveIsRunning
    <3>3. \A v \in dead : active[v] # active[w]
      BY <3>1, <3>2 DEF TrackInv, ActiveIsRunning, StalePorts
    <3> QED
      BY <2>1, <2>2, <2>4, <3>1, <3>2, <3>3
  <2> QED
    BY <2>2, <2>5, <2>6 DEF TrackInv
<1>8. ASSUME NEW p \in Procs, NEW lag \in Lags, ClaimNothing(p, lag) PROVE TrackInv'
  <2>1. phase' = phase /\ phase[p] # "new"
    BY <1>8 DEF ClaimNothing, procVars
  <2>2. /\ PidOfStarted' /\ pid'[PortOf[p]] # NoPid
        /\ \A w \in Ports : w # PortOf[p] => pid'[w] = pid[w]
    BY <1>8, <2>1, ReportedPid DEF ClaimNothing, TrackInv
  <2>3. UNCHANGED <<status, workerPort, active>>
    BY <1>8 DEF ClaimNothing, jobVars
  <2> QED
    BY <2>2, <2>3 DEF TrackInv, ActiveIsRunning, RunningIsTracked
<1>9. ASSUME NEW p \in Procs, NEW lag \in Lags, Complete(p, lag) PROVE TrackInv'
  <2> DEFINE j == held[p]
  <2>1. j \in Prompts /\ workerPort[j] = PortOf[p] /\ PortOf[p] \in Ports
    BY <1>9, ConstantsAssumption DEF Complete, HandOutInv, HeldIsOpen, TypeInv, TypeOK
  <2>2. /\ status'[j] # "running"
        /\ \A i \in Prompts : i # j => status'[i] = status[i]
    BY <1>9, <2>1 DEF Complete, TypeInv, TypeOK
  <2>3. \A w \in Ports : active'[w] = IF w = PortOf[p] /\ active[w] = j
                                       THEN NoPrompt ELSE active[w]
    BY <1>9, <2>1 DEF Complete, TypeInv, TypeOK
  <2>4. UNCHANGED <<workerPort, pid>> /\ \A r \in Procs : phase'[r] = "new" => phase[r] = "new"
    BY <1>9 DEF Complete, BackToQueue, TypeInv, TypeOK
  <2>5. \A w \in Ports : active'[w] # j
    BY <2>1, <2>3, ConstantsAssumption DEF TrackInv, ActiveIsRunning
  <2>6. ActiveIsRunning'
    BY <2>2, <2>3, <2>4, <2>5 DEF TrackInv, ActiveIsRunning, TypeInv, TypeOK
  <2>7. RunningIsTracked'
    BY <2>2, <2>3, <2>4 DEF TrackInv, RunningIsTracked
  <2>8. PidOfStarted'
    BY <2>4 DEF TrackInv, PidOfStarted
  <2> QED
    BY <2>6, <2>7, <2>8 DEF TrackInv
<1>10. ASSUME NEW p \in Procs, NEW lag \in Lags, NEW j \in Prompts, Claim(p, j, lag)
       PROVE  TrackInv'
  <2> DEFINE q == PortOf[p]
  <2>1. \A r \in Procs : phase'[r] = "new" => phase[r] = "new" /\ r # p
    BY <1>10 DEF Claim, TypeInv, TypeOK
  <2>2. /\ PidOfStarted' /\ pid'[q] # NoPid
        /\ \A w \in Ports : w # q => pid'[w] = pid[w]
    BY <1>10, <2>1, ReportedPid DEF Claim, TrackInv
  <2>3. /\ q \in Ports /\ active'[q] = j
        /\ \A w \in Ports : w # q => active'[w] = active[w]
        /\ status'[j] = "running" /\ workerPort'[j] = q
        /\ \A i \in Prompts : i # j => status'[i] = status[i] /\ workerPort'[i] = workerPort[i]
    BY <1>10, ConstantsAssumption DEF Claim, TypeInv, TypeOK
  <2>4. status[j] # "running" /\ active[q] = NoPrompt
    BY <1>10, <2>3 DEF Claim, Eligible, Busy, TrackInv, ActiveIsRunning
  <2>5. ActiveIsRunning'
    BY <2>2, <2>3, <2>4 DEF TrackInv, ActiveIsRunning, TypeInv, TypeOK
  <2>6. RunningIsTracked'
    BY <2>3, <2>4, ConstantsAssumption DEF TrackInv, RunningIsTracked
  <2> QED
    BY <2>2, <2>5, <2>6 DEF TrackInv
<1>11. ASSUME NEW p \in Procs, ClaimRaises(p) PROVE TrackInv'
  BY <1>11, TrackFrame DEF ClaimRaises, jobVars, workerVars, TypeInv, TypeOK
<1>12. ASSUME NEW p \in Procs, NEW b \in BOOLEAN, Finish(p, b) PROVE TrackInv'
  BY <1>12, TrackFrame DEF Finish, jobVars, workerVars, TypeInv, TypeOK
<1>13. ASSUME NEW p \in Procs, CompleteRaises(p) PROVE TrackInv'
  BY <1>13, TrackFrame DEF CompleteRaises, BackToQueue, jobVars, workerVars, TypeInv, TypeOK
<1>14. ASSUME NEW p \in Procs, Crash(p) PROVE TrackInv'
  BY <1>14, TrackFrame DEF Crash, jobVars, workerVars, TypeInv, TypeOK
<1>15. CASE Tick
  BY <1>15, TrackFrame DEF Tick, jobVars, procVars
<1>16. CASE UNCHANGED vars
  BY <1>16, TrackFrame DEF vars, jobVars, workerVars, procVars
<1> QED
  BY <1>1, <1>2, <1>3, <1>4, <1>5, <1>6, <1>7, <1>8, <1>9, <1>10, <1>11, <1>12,
     <1>13, <1>14, <1>15, <1>16 DEF Next, Submission, Request

(* If the processes of a port have distinct pids, no running job is ever    *)
(* dropped from the worker rows: a later register or heartbeat can always   *)
(* still declare it lost.                                                   *)
THEOREM RunningIsTrackedHolds ==
  ASSUME DistinctPids
  PROVE  Spec => []RunningIsTracked
<1>1. Init => TrackInv
  BY TrackInit
<1>2. TypeInv /\ HandOutInv /\ TrackInv /\ [Next]_vars => TrackInv'
  BY TrackStep, DistinctPids
<1>3. TrackInv => RunningIsTracked
  BY DEF TrackInv
<1> QED
  BY <1>1, <1>2, <1>3, TypeCorrect, HandOutInvariant, PTL DEF Spec

-----------------------------------------------------------------------------
(* The limit stored with an ordinary account's job is that of its class.    *)
StoredLimit ==
  \A j \in Prompts : status[j] # "absent" /\ job[j].owner \notin Admins =>
     job[j].limit = LimitFor(job[j].class)

LimitInv == StoredLimit /\ ConcurrencyLimit

LEMMA RunningOfFinite ==
  \A u, c : /\ IsFiniteSet(RunningOf(u, c))
            /\ Cardinality(RunningOf(u, c)) \in Nat
<1> SUFFICES ASSUME NEW u, NEW c
             PROVE  IsFiniteSet(RunningOf(u, c)) /\ Cardinality(RunningOf(u, c)) \in Nat
  OBVIOUS
<1>1. RunningOf(u, c) \subseteq Prompts
  BY DEF RunningOf
<1> QED
  BY <1>1, FS_Subset, FS_CardinalityType, ConstantsAssumption

(* A step that starts no job and rewrites no running job's row keeps every  *)
(* account within its limits.                                               *)
LEMMA LimitFrame ==
  ASSUME ConcurrencyLimit,
         \A j \in Prompts : status'[j] = "running" => status[j] = "running" /\ job'[j] = job[j]
  PROVE  ConcurrencyLimit'
<1> SUFFICES ASSUME NEW u \in Users \ Admins, NEW c \in Classes
             PROVE  Cardinality(RunningOf(u, c)') <= LimitFor(c)
  BY DEF ConcurrencyLimit, LimitFor
<1>1. RunningOf(u, c)' \subseteq RunningOf(u, c)
  BY DEF RunningOf
<1>2. /\ Cardinality(RunningOf(u, c)') <= Cardinality(RunningOf(u, c))
      /\ Cardinality(RunningOf(u, c)') \in Nat
  BY <1>1, RunningOfFinite, FS_Subset, FS_CardinalityType
<1>3. Cardinality(RunningOf(u, c)) <= LimitFor(c)
  BY DEF ConcurrencyLimit
<1> QED
  BY <1>2, <1>3, RunningOfFinite, LimitForType

LEMMA StoredLimitFrame ==
  ASSUME StoredLimit, UNCHANGED job,
         \A j \in Prompts : status[j] = "absent" => status'[j] = "absent"
  PROVE  StoredLimit'
  BY DEF StoredLimit, LimitFor

LEMMA LimitInit == Init => LimitInv
<1> SUFFICES ASSUME Init PROVE LimitInv
  OBVIOUS
<1>1. StoredLimit
  BY DEF Init, StoredLimit
<1>2. ASSUME NEW u \in Users \ Admins, NEW c \in Classes
      PROVE  Cardinality(RunningOf(u, c)) <= LimitFor(c)
  <2>1. RunningOf(u, c) = {}
    BY DEF Init, RunningOf
  <2> QED
    BY <2>1, FS_EmptySet, LimitForType
<1> QED
  BY <1>1, <1>2 DEF LimitInv, ConcurrencyLimit

LEMMA LimitStep == TypeInv /\ LimitInv /\ [Next]_vars => LimitInv'
<1> SUFFICES ASSUME TypeInv, LimitInv, [Next]_vars PROVE LimitInv'
  OBVIOUS
<1> USE DEF LimitInv
<1>1. ASSUME NEW p \in Procs, NEW j \in Prompts, NEW u \in Users, NEW k \in Kinds,
             NEW n \in Priorities, Enqueue(p, j, u, k, n)
      PROVE  LimitInv'
  <2>1. ConcurrencyLimit'
    BY <1>1, LimitFrame DEF Enqueue, TypeInv, TypeOK
  <2>2. /\ job'[j].owner = u /\ job'[j].class = Classify(p, k)
        /\ job'[j].limit = IF u \in Admins THEN AdminLimit ELSE LimitFor(Classify(p, k))
    BY <1>1 DEF Enqueue, TypeInv, TypeOK
  <2>3. \A i \in Prompts : i # j => job'[i] = job[i] /\ status'[i] = status[i]
    BY <1>1 DEF Enqueue, TypeInv, TypeOK
  <2>4. StoredLimit'
    BY <2>2, <2>3 DEF StoredLimit, LimitFor
  <2> QED
    BY <2>1, <2>4
<1>2. ASSUME NEW u \in Requesters, CancelAll(u) PROVE LimitInv'
  BY <1>2, LimitFrame, StoredLimitFrame DEF CancelAll, MayCancel
<1>3. ASSUME NEW u \in Requesters, NEW j \in Prompts, Cancel(u, j) PROVE LimitInv'
  BY <1>3, LimitFrame, StoredLimitFrame DEF Cancel, MayCancel, TypeInv, TypeOK
<1>4. ASSUME NEW u \in Requesters, NEW S \in SUBSET Prompts, DeleteRead(u, S) PROVE LimitInv'
  BY <1>4, LimitFrame, StoredLimitFrame DEF DeleteRead, jobVars
<1>5. ASSUME NEW j \in Prompts, DeleteNext(j) PROVE LimitInv'
  BY <1>5, LimitFrame, StoredLimitFrame DEF DeleteNext, MayCancel, TypeInv, TypeOK
<1>6. ASSUME NEW p \in Procs, NEW lag \in Lags, StartProcess(p, lag) PROVE LimitInv'
  <2>1. \A j \in Prompts : /\ status'[j] = "running" => status[j] = "running"
                           /\ status[j] = "absent" => status'[j] = "absent"
                           /\ job'[j] = Reclassified(p, j)
    BY <1>6 DEF StartProcess, RegisterWorker, Displaces, LostStatus
  <2>2. \A j \in Prompts : status[j] = "running" => Reclassified(p, j) = job[j]
    BY DEF Reclassified, IsLegacy
  <2>3. ConcurrencyLimit'
    BY <2>1, <2>2, LimitFrame
  <2>4. ASSUME NEW j \in Prompts, status'[j] # "absent", job'[j].owner \notin Admins
        PROVE  job'[j].limit = LimitFor(job'[j].class)
    <3>1. CASE ~IsLegacy(p, j)
      BY <2>1, <2>4, <3>1 DEF StoredLimit, Reclassified
    <3>2. CASE IsLegacy(p, j)
      <4>1. job[j] \in JobRecords /\ job[j].class = "default"
        BY <3>2 DEF IsLegacy, TypeInv, JobsWellFormed
      <4>2. /\ job'[j].owner = job[j].owner /\ job'[j].class = job[j].kind
            /\ job'[j].limit = IF job[j].limit # 0 /\ job[j].kind \in DOMAIN ResourceLimits
                               THEN ResourceLimits[job[j].kind] ELSE job[j].limit
        BY <2>1, <3>2, <4>1 DEF Reclassified, JobRecords
      <4>3. job[j].limit = LimitFor("default")
        BY <2>1, <2>4, <4>1, <4>2 DEF StoredLimit
      <4>4. LimitFor("default") = MaxPerUser /\ MaxPerUser # 0
        BY LimitsAssumption DEF LimitFor
      <4> QED
        BY <4>2, <4>3, <4>4 DEF LimitFor
    <3> QED
      BY <3>1, <3>2
  <2>5. StoredLimit'
    BY <2>4 DEF StoredLimit, LimitFor
  <2> QED
    BY <2>3, <2>5
<1>7. ASSUME NEW p \in Procs, NEW lag \in Lags, Heartbeat(p, lag) PROVE LimitInv'
  BY <1>7, LimitFrame, StoredLimitFrame DEF Heartbeat, LostStatus
<1>8. ASSUME NEW p \in Procs, NEW lag \in Lags, ClaimNothing(p, lag) PROVE LimitInv'
  BY <1>8, LimitFrame, StoredLimitFrame DEF ClaimNothing, jobVars
<1>9. ASSUME NEW p \in Procs, NEW lag \in Lags, Complete(p, lag) PROVE LimitInv'
  BY <1>9, LimitFrame, StoredLimitFrame DEF Complete, TypeInv, TypeOK
<1>10. ASSUME NEW p \in Procs, NEW lag \in Lags, NEW j \in Prompts, Claim(p, j, lag)
       PROVE  LimitInv'
  <2>1. /\ status[j] = "queued" /\ BelowLimit(j)
        /\ \A i \in Prompts : i # j => status'[i] = status[i]
        /\ UNCHANGED job
    BY <1>10 DEF Claim, Eligible, TypeInv, TypeOK
  <2>2. StoredLimit'
    BY <1>10, <2>1, StoredLimitFrame DEF Claim, TypeInv, TypeOK
  <2>3. ASSUME NEW u \in Users \ Admins, NEW c \in Classes
        PROVE  Cardinality(RunningOf(u, c)') <= LimitFor(c)
    <3> DEFINE R == RunningOf(u, c)
    <3>1. Cardinality(R) <= LimitFor(c) /\ Cardinality(R) \in Nat /\ IsFiniteSet(R)
          /\ LimitFor(c) \in Nat \ {0}
      BY RunningOfFinite, LimitForType DEF ConcurrencyLimit
    <3>2. CASE job[j].owner = u /\ job[j].class = c
      <4>1. R' \subseteq R \cup {j}
        BY <2>1 DEF RunningOf
      <4>2. IsFiniteSet(R \cup {j}) /\ Cardinality(R \cup {j}) <= Cardinality(R) + 1
        BY <3>1, FS_AddElement
      <4>3. Cardinality(R') <= Cardinality(R \cup {j}) /\ Cardinality(R') \in Nat
            /\ Cardinality(R \cup {j}) \in Nat
        BY <4>1, <4>2, FS_Subset, FS_CardinalityType
      <4>4. job[j].limit = LimitFor(c)
        BY <2>1, <3>2 DEF StoredLimit
      <4>5. Cardinality(R) < LimitFor(c)
        BY <2>1, <3>1, <3>2, <4>4 DEF BelowLimit
      <4> QED
        BY <3>1, <4>2, <4>3, <4>5
    <3>3. CASE ~(job[j].owner = u /\ job[j].class = c)
      <4>1. R' \subseteq R
        BY <2>1, <3>3 DEF RunningOf
      <4>2. Cardinality(R') <= Cardinality(R) /\ Cardinality(R') \in Nat
        BY <4>1, <3>1, FS_Subset, FS_CardinalityType
      <4> QED
        BY <4>2, <3>1
    <3> QED
      BY <3>2, <3>3
  <2> QED
    BY <2>2, <2>3 DEF ConcurrencyLimit, LimitFor
<1>11. ASSUME NEW p \in Procs, ClaimRaises(p) PROVE LimitInv'
  BY <1>11, LimitFrame, StoredLimitFrame DEF ClaimRaises, jobVars
<1>12. ASSUME NEW p \in Procs, NEW b \in BOOLEAN, Finish(p, b) PROVE LimitInv'
  BY <1>12, LimitFrame, StoredLimitFrame DEF Finish, jobVars
<1>13. ASSUME NEW p \in Procs, CompleteRaises(p) PROVE LimitInv'
  BY <1>13, LimitFrame, StoredLimitFrame DEF CompleteRaises, jobVars
<1>14. ASSUME NEW p \in Procs, Crash(p) PROVE LimitInv'
  BY <1>14, LimitFrame, StoredLimitFrame DEF Crash, jobVars
<1>15. CASE Tick
  BY <1>15, LimitFrame, StoredLimitFrame DEF Tick, jobVars
<1>16. CASE UNCHANGED vars
  BY <1>16, LimitFrame, StoredLimitFrame DEF vars, jobVars
<1> QED
  BY <1>1, <1>2, <1>3, <1>4, <1>5, <1>6, <1>7, <1>8, <1>9, <1>10, <1>11, <1>12,
     <1>13, <1>14, <1>15, <1>16 DEF Next, Submission, Request

(* The table never shows an ordinary account above its limit in a class,    *)
(* for any fleet, under restarts, overlaps, lost workers, database errors,  *)
(* stalled clocks and a mixed configuration.                                *)
THEOREM ConcurrencyLimitHolds == Spec => []ConcurrencyLimit
<1>1. Init => LimitInv
  BY LimitInit
<1>2. TypeInv /\ LimitInv /\ [Next]_vars => LimitInv'
  BY LimitStep
<1>3. LimitInv => ConcurrencyLimit
  BY DEF LimitInv
<1> QED
  BY <1>1, <1>2, <1>3, TypeCorrect, PTL DEF Spec
=============================================================================
