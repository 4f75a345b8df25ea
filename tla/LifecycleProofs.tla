-------------------------- MODULE LifecycleProofs --------------------------
(***************************************************************************)
(* The shared queue implements JobLifecycle; what live workers that report *)
(* in time can rely on; who cancels jobs; in which order they start.       *)
(***************************************************************************)
EXTENDS SchedulerProofs

(* A step that moves exactly the jobs S is the abstract move.               *)
LEMMA MoveStep ==
  ASSUME TypeInv, TypeInv', NEW S \in SUBSET Prompts, NEW from, NEW to,
         \A j \in S : status[j] = from /\ status'[j] = to,
         \A j \in Prompts \ S : status'[j] = status[j]
  PROVE  Lifecycle!Move(S, from, to)
<1>1. status' = [j \in Prompts |-> status'[j]]
  BY DEF TypeInv, TypeOK
<1>2. \A j \in Prompts : status'[j] = IF j \in S THEN to ELSE status[j]
  OBVIOUS
<1>3. status' = [j \in Prompts |-> IF j \in S THEN to ELSE status[j]]
  BY <1>1, <1>2
<1> QED
  BY <1>3 DEF Lifecycle!Move

LEMMA ExecutingFrame ==
  ASSUME UNCHANGED held,
         \A p \in Procs : phase'[p] = "executing" <=> phase[p] = "executing"
  PROVE  Executing' = Executing
  BY DEF Executing

(* A step in which running jobs are only lost, and nothing else moves.      *)
LEMMA LoseStep ==
  ASSUME TypeInv, TypeInv', Executing' = Executing,
         \A j \in Prompts : status'[j] # status[j] =>
             status[j] = "running" /\ status'[j] = "worker_lost"
  PROVE  Lifecycle!Next
<1> DEFINE S == {j \in Prompts : status'[j] # status[j]}
<1>1. S \in SUBSET Prompts
  OBVIOUS
<1>2. Lifecycle!Move(S, "running", "worker_lost")
  BY <1>1, MoveStep
<1> HIDE DEF S
<1> QED
  BY <1>1, <1>2 DEF Lifecycle!Next, Lifecycle!Lose

LEMMA CancelStep ==
  ASSUME TypeInv, TypeInv', Executing' = Executing,
         \A j \in Prompts : status'[j] # status[j] =>
             status[j] = "queued" /\ status'[j] = "cancelled"
  PROVE  Lifecycle!Next
<1> DEFINE S == {j \in Prompts : status'[j] # status[j]}
<1>1. S \in SUBSET Prompts
  OBVIOUS
<1>2. Lifecycle!Move(S, "queued", "cancelled")
  BY <1>1, MoveStep
<1> HIDE DEF S
<1> QED
  BY <1>1, <1>2 DEF Lifecycle!Next, Lifecycle!Cancel

(* A process that lets go of its prompt ends that execution, if it was      *)
(* executing it.                                                            *)
LEMMA ReleaseStep ==
  ASSUME TypeInv, HandOutInv, NEW p \in Procs,
         \A r \in Procs : r # p => held'[r] = held[r] /\ phase'[r] = phase[r],
         phase'[p] # "executing"
  PROVE  /\ phase[p] = "executing" =>
              held[p] \in Executing /\ Executing' = Executing \ {held[p]}
         /\ phase[p] # "executing" => Executing' = Executing
<1>1. CASE phase[p] = "executing"
  <2>1. held[p] \in Prompts
    BY <1>1 DEF HandOutInv, HeldIsOpen, TypeInv, TypeOK
  <2>2. held[p] \in Executing
    BY <1>1, <2>1 DEF Executing
  <2>3. \A r \in Procs : r # p => held[r] # held[p]
    BY <2>1, ConstantsAssumption DEF HandOutInv, ExclusiveExecution
  <2>4. Executing' = Executing \ {held[p]}
    BY <1>1, <2>3 DEF Executing
  <2> QED
    BY <1>1, <2>2, <2>4
<1>2. CASE phase[p] # "executing"
  BY <1>2 DEF Executing
<1> QED
  BY <1>1, <1>2

LEMMA LifecycleInit == Init => Lifecycle!Init
  BY DEF Init, Lifecycle!Init, Executing

LEMMA LifecycleStep ==
  TypeInv /\ TypeInv' /\ HandOutInv /\ [Next]_vars => [Lifecycle!Next]_(Lifecycle!vars)
<1> SUFFICES ASSUME TypeInv, TypeInv', HandOutInv, [Next]_vars
             PROVE  Lifecycle!Next \/ (UNCHANGED status /\ Executing' = Executing)
  BY DEF Lifecycle!vars
<1>1. ASSUME NEW p \in Procs, NEW j \in Prompts, NEW u \in Users, NEW k \in Kinds,
             NEW n \in Priorities, Enqueue(p, j, u, k, n)
      PROVE  Lifecycle!Next
  <2>1. Lifecycle!Move({j}, "absent", "queued")
    <3>1. /\ status[j] = "absent" /\ status'[j] = "queued"
          /\ \A i \in Prompts \ {j} : status'[i] = status[i]
      BY <1>1 DEF Enqueue, TypeInv, TypeOK
    <3> QED
      BY <3>1, MoveStep
  <2>2. Executing' = Executing
    BY <1>1, ExecutingFrame DEF Enqueue, procVars
  <2> QED
    BY <2>1, <2>2 DEF Lifecycle!Next, Lifecycle!Submit
<1>2. ASSUME NEW u \in Requesters, CancelAll(u) PROVE Lifecycle!Next
  <2>1. Executing' = Executing
    BY <1>2, ExecutingFrame DEF CancelAll, procVars
  <2> QED
    BY <1>2, <2>1, CancelStep DEF CancelAll, MayCancel
<1>3. ASSUME NEW u \in Requesters, NEW j \in Prompts, Cancel(u, j) PROVE Lifecycle!Next
  <2>1. Executing' = Executing
    BY <1>3, ExecutingFrame DEF Cancel, procVars
  <2> QED
    BY <1>3, <2>1, CancelStep DEF Cancel, MayCancel, TypeInv, TypeOK
<1>4. ASSUME NEW u \in Requesters, NEW S \in SUBSET Prompts, DeleteRead(u, S)
      PROVE  UNCHANGED status /\ Executing' = Executing
  BY <1>4, ExecutingFrame DEF DeleteRead, jobVars, procVars
<1>5. ASSUME NEW j \in Prompts, DeleteNext(j) PROVE Lifecycle!Next
  <2>1. Executing' = Executing
    BY <1>5, ExecutingFrame DEF DeleteNext, procVars
  <2> QED
    BY <1>5, <2>1, CancelStep DEF DeleteNext, MayCancel, TypeInv, TypeOK
<1>6. ASSUME NEW p \in Procs, NEW lag \in Lags, StartProcess(p, lag) PROVE Lifecycle!Next
  <2>1. Executing' = Executing
    BY <1>6, ExecutingFrame DEF StartProcess, TypeInv, TypeOK
  <2> QED
    BY <1>6, <2>1, LoseStep DEF StartProcess, RegisterWorker, Displaces, LostStatus
<1>7. ASSUME NEW p \in Procs, NEW lag \in Lags, Heartbeat(p, lag) PROVE Lifecycle!Next
  <2>1. Executing' = Executing
    BY <1>7, ExecutingFrame DEF Heartbeat, procVars
  <2> QED
    BY <1>7, <2>1, LoseStep DEF Heartbeat, LostStatus
<1>8. ASSUME NEW p \in Procs, NEW lag \in Lags, ClaimNothing(p, lag)
      PROVE  UNCHANGED status /\ Executing' = Executing
  BY <1>8, ExecutingFrame DEF ClaimNothing, jobVars, procVars
<1>9. ASSUME NEW p \in Procs, NEW lag \in Lags, Complete(p, lag) PROVE Lifecycle!Next
  <2> DEFINE j == held[p]
             result == IF ok[p] THEN "completed" ELSE "failed"
  <2>1. j \in Prompts /\ status[j] \in {"running", "worker_lost"}
    BY <1>9 DEF Complete, HandOutInv, HeldIsOpen, TypeInv, TypeOK
  <2>2. Executing' = Executing
    BY <1>9, ReleaseStep DEF Complete, BackToQueue, TypeInv, TypeOK
  <2>3. j \notin Executing
    BY <1>9, <2>1, ConstantsAssumption DEF Complete, Executing, HandOutInv, ExclusiveExecution
  <2>4. status'[j] = result /\ \A i \in Prompts \ {j} : status'[i] = status[i]
    BY <1>9, <2>1 DEF Complete, TypeInv, TypeOK
  <2>5. Lifecycle!Move({j}, status[j], result)
    BY <2>1, <2>4, MoveStep
  <2>6. result \in {"completed", "failed"}
    OBVIOUS
  <2> HIDE DEF j, result
  <2> QED
    BY <2>1, <2>2, <2>3, <2>5, <2>6 DEF Lifecycle!Next, Lifecycle!Record
<1>10. ASSUME NEW p \in Procs, NEW lag \in Lags, NEW j \in Prompts, Claim(p, j, lag)
       PROVE  Lifecycle!Next
  <2>1. status[j] = "queued" /\ phase[p] = "up"
    BY <1>10 DEF Claim, Eligible
  <2>2. Lifecycle!Move({j}, "queued", "running")
    <3>1. status'[j] = "running" /\ \A i \in Prompts \ {j} : status'[i] = status[i]
      BY <1>10 DEF Claim, TypeInv, TypeOK
    <3> QED
      BY <2>1, <3>1, MoveStep
  <2>3. j \notin Executing
    BY <2>1, ConstantsAssumption DEF Executing, HandOutInv, HeldIsOpen
  <2>4. /\ held'[p] = j /\ phase'[p] = "executing"
        /\ \A r \in Procs : r # p => held'[r] = held[r] /\ phase'[r] = phase[r]
    BY <1>10 DEF Claim, TypeInv, TypeOK
  <2>5. Executing' = Executing \cup {j}
    BY <2>1, <2>4 DEF Executing
  <2> QED
    BY <2>2, <2>3, <2>5 DEF Lifecycle!Next, Lifecycle!HandOut
<1>11. ASSUME NEW p \in Procs, ClaimRaises(p)
       PROVE  UNCHANGED status /\ Executing' = Executing
  BY <1>11, ExecutingFrame DEF ClaimRaises, jobVars, TypeInv, TypeOK
<1>12. ASSUME NEW p \in Procs, NEW b \in BOOLEAN, Finish(p, b) PROVE Lifecycle!Next
  <2>1. held[p] \in Executing /\ Executing' = Executing \ {held[p]} /\ UNCHANGED status
    BY <1>12, ReleaseStep DEF Finish, jobVars, TypeInv, TypeOK
  <2>2. held[p] \in Prompts
    BY <2>1 DEF Executing
  <2> QED
    BY <2>1, <2>2 DEF Lifecycle!Next, Lifecycle!ExecutionEnds
<1>13. ASSUME NEW p \in Procs, CompleteRaises(p)
       PROVE  UNCHANGED status /\ Executing' = Executing
  BY <1>13, ReleaseStep DEF CompleteRaises, BackToQueue, jobVars, TypeInv, TypeOK
<1>14. ASSUME NEW p \in Procs, Crash(p)
       PROVE  Lifecycle!Next \/ (UNCHANGED status /\ Executing' = Executing)
  <2>1. /\ phase[p] = "executing" =>
             held[p] \in Executing /\ Executing' = Executing \ {held[p]}
        /\ phase[p] # "executing" => Executing' = Executing
        /\ UNCHANGED status
    BY <1>14, ReleaseStep DEF Crash, jobVars, TypeInv, TypeOK
  <2>2. held[p] \in Executing => held[p] \in Prompts
    BY DEF Executing
  <2> QED
    BY <2>1, <2>2 DEF Lifecycle!Next, Lifecycle!ExecutionEnds
<1>15. CASE Tick
  BY <1>15, ExecutingFrame DEF Tick, jobVars, procVars
<1>16. CASE UNCHANGED vars
  BY <1>16, ExecutingFrame DEF vars, jobVars, procVars
<1> QED
  BY <1>1, <1>2, <1>3, <1>4, <1>5, <1>6, <1>7, <1>8, <1>9, <1>10, <1>11, <1>12,
     <1>13, <1>14, <1>15, <1>16 DEF Next, Submission, Request

(* The shared queue implements the lifecycle it promises, for every fleet.  *)
THEOREM LifecycleImplemented == Spec => ImplementsLifecycle
<1>1. Init => Lifecycle!Init
  BY LifecycleInit
<1>2. TypeInv /\ TypeInv' /\ HandOutInv /\ [Next]_vars
        => [Lifecycle!Next]_(Lifecycle!vars)
  BY LifecycleStep
<1> QED
  BY <1>1, <1>2, TypeCorrect, HandOutInvariant, PTL
  DEF Spec, ImplementsLifecycle, Lifecycle!Spec

(* What the lifecycle means for the table: a result and a cancellation      *)
(* stand, and nothing that has left the queue is handed out (again).        *)
ResultsStand ==
  [][\A j \in Prompts :
       /\ status[j] \in {"completed", "failed", "cancelled"} => status'[j] = status[j]
       /\ j \in Executing' \ Executing => status[j] = "queued"]_vars

(* Late results, cancels, lost workers and restarts never overwrite a       *)
(* result, revive a cancelled job or execute a prompt twice.                *)
THEOREM ResultsStandHolds == Spec => ResultsStand
<1> DEFINE Stand == \A j \in Prompts :
              /\ status[j] \in {"completed", "failed", "cancelled"} => status'[j] = status[j]
              /\ j \in Executing' \ Executing => status[j] = "queued"
<1>1. TypeInv /\ TypeInv' /\ HandOutInv /\ [Next]_vars => [Stand]_vars
  <2> SUFFICES ASSUME TypeInv, TypeInv', HandOutInv, [Next]_vars PROVE Stand
    OBVIOUS
  <2>1. Lifecycle!Next \/ (UNCHANGED status /\ Executing' = Executing)
    BY LifecycleStep DEF Lifecycle!vars
  <2>2. CASE Lifecycle!Next
    BY <2>2 DEF Lifecycle!Next, Lifecycle!Cancel, Lifecycle!Lose, Lifecycle!Submit,
                Lifecycle!HandOut, Lifecycle!ExecutionEnds, Lifecycle!Record, Lifecycle!Move
  <2>3. CASE UNCHANGED status /\ Executing' = Executing
    BY <2>3
  <2> QED
    BY <2>1, <2>2, <2>3
<1> QED
  BY <1>1, TypeCorrect, HandOutInvariant, PTL DEF Spec, ResultsStand

-----------------------------------------------------------------------------
(* What the configuration promises: a live worker reports before it is      *)
(* stale (stale_seconds is at least twice the heartbeat interval), no       *)
(* transaction waits longer than that for the write lock, and a port's old  *)
(* process is gone before the new one starts.                               *)
TimelyFleet == HeartbeatDeadline <= Stale /\ MaxLag <= Stale /\ ~AllowOverlap

(* The row of a live process's port is fresh and no two live processes      *)
(* share a port.                                                            *)
FreshRows ==
  \A p \in Procs : Alive(p) =>
     /\ age[PortOf[p]] <= Stale
     /\ \A r \in Procs : Alive(r) /\ PortOf[r] = PortOf[p] => r = p

TimelyInv == FreshRows /\ LostOnlyWhenDead

(* A holder's row is not touched when some other port's row goes stale.     *)
LEMMA TimelyFrame ==
  ASSUME TypeInv, HandOutInv, TimelyInv, UNCHANGED held,
         \A p \in Procs : (phase'[p] \in {"new", "down"}) <=> (phase[p] \in {"new", "down"}),
         \A p \in Procs : Alive(p) => age'[PortOf[p]] <= Stale,
         \A p \in Procs : held[p] # NoPrompt /\ status[held[p]] = "running"
                           => status'[held[p]] = "running"
  PROVE  TimelyInv'
<1>1. FreshRows'
  BY DEF TimelyInv, FreshRows, Alive
<1>2. LostOnlyWhenDead'
  BY DEF TimelyInv, LostOnlyWhenDead
<1> QED
  BY <1>1, <1>2 DEF TimelyInv

LEMMA HolderAlive ==
  ASSUME HandOutInv, NEW p \in Procs, held[p] # NoPrompt
  PROVE  Alive(p)
  BY DEF HandOutInv, HeldIsOpen, Alive

LEMMA ReportedAge ==
  ASSUME TypeInv, TimelyFleet, FreshRows, NEW p \in Procs, NEW lag \in Lags, Report(p, lag)
  PROVE  /\ age'[PortOf[p]] <= Stale
         /\ \A q \in Ports : q # PortOf[p] => age'[q] = age[q]
         /\ \A r \in Procs : Alive(r) => age'[PortOf[r]] <= Stale
<1>1. PortOf \in [Procs -> Ports]
  BY ConstantsAssumption
<1>2. age'[PortOf[p]] = lag /\ \A q \in Ports : q # PortOf[p] => age'[q] = age[q]
  BY <1>1 DEF Report, TypeInv, TypeOK
<1>3. lag <= Stale
  BY LimitsAssumption DEF TimelyFleet, Lags
<1> QED
  BY <1>1, <1>2, <1>3 DEF FreshRows

LEMMA TimelyInit == Init => TimelyInv
  BY DEF Init, TimelyInv, FreshRows, Alive, LostOnlyWhenDead

LEMMA TimelyStep ==
  ASSUME TimelyFleet
  PROVE  TypeInv /\ TypeInv' /\ HandOutInv /\ ActiveIsRunning /\ TimelyInv /\ [Next]_vars
           => TimelyInv'
<1> SUFFICES ASSUME TypeInv, TypeInv', HandOutInv, ActiveIsRunning, TimelyInv, [Next]_vars
             PROVE  TimelyInv'
  OBVIOUS
<1>a. \A p \in Procs : Alive(p) => age[PortOf[p]] <= Stale
  BY DEF TimelyInv, FreshRows
<1>1. ASSUME NEW p \in Procs, NEW j \in Prompts, NEW u \in Users, NEW k \in Kinds,
             NEW n \in Priorities, Enqueue(p, j, u, k, n)
      PROVE  TimelyInv'
  BY <1>1, <1>a, TimelyFrame DEF Enqueue, procVars, workerVars, TypeInv, TypeOK
<1>2. ASSUME NEW u \in Requesters, CancelAll(u) PROVE TimelyInv'
  BY <1>2, <1>a, TimelyFrame DEF CancelAll, MayCancel, procVars, workerVars, TypeInv, TypeOK
<1>3. ASSUME NEW u \in Requesters, NEW j \in Prompts, Cancel(u, j) PROVE TimelyInv'
  BY <1>3, <1>a, TimelyFrame DEF Cancel, MayCancel, procVars, workerVars, TypeInv, TypeOK
<1>4. ASSUME NEW u \in Requesters, NEW S \in SUBSET Prompts, DeleteRead(u, S)
      PROVE  TimelyInv'
  BY <1>4, <1>a, TimelyFrame DEF DeleteRead, jobVars, procVars, workerVars
<1>5. ASSUME NEW j \in Prompts, DeleteNext(j) PROVE TimelyInv'
  BY <1>5, <1>a, TimelyFrame DEF DeleteNext, MayCancel, procVars, workerVars, TypeInv, TypeOK
<1>6. ASSUME NEW p \in Procs, NEW lag \in Lags, StartProcess(p, lag) PROVE TimelyInv'
  <2>1. \A r \in Procs : PortOf[r] = PortOf[p] => ~Alive(r)
    BY <1>6 DEF StartProcess, TimelyFleet
  <2>2. /\ age'[PortOf[p]] <= Stale
        /\ \A r \in Procs : Alive(r) => age'[PortOf[r]] <= Stale
    BY <1>6, ReportedAge DEF StartProcess, RegisterWorker, TimelyInv
  <2>3. \A r \in Procs : Alive(r)' => Alive(r) \/ r = p
    BY <1>6 DEF StartProcess, Alive, TypeInv, TypeOK
  <2>4. FreshRows'
    BY <2>1, <2>2, <2>3 DEF TimelyInv, FreshRows
  <2>5. ASSUME NEW r \in Procs, held'[r] # NoPrompt PROVE status'[held'[r]] = "running"
    <3>1. held'[r] = held[r] /\ held[r] \in Prompts /\ Alive(r)
      BY <1>6, <2>5, HolderAlive DEF StartProcess, TypeInv, TypeOK
    <3>2. status[held[r]] = "running" /\ workerPort[held[r]] = PortOf[r]
      BY <2>5, <3>1 DEF TimelyInv, LostOnlyWhenDead, HandOutInv, HeldIsOpen
    <3>3. PortOf[r] # PortOf[p] /\ PortOf[p] \in Ports
      BY <2>1, <3>1, ConstantsAssumption
    <3>4. active[PortOf[p]] # held[r]
      BY <3>1, <3>2, <3>3, ConstantsAssumption DEF ActiveIsRunning
    <3> QED
      BY <1>6, <3>1, <3>2, <3>4 DEF StartProcess, RegisterWorker, Displaces
  <2> QED
    BY <2>4, <2>5 DEF TimelyInv, LostOnlyWhenDead
<1>7. ASSUME NEW p \in Procs, NEW lag \in Lags, Heartbeat(p, lag) PROVE TimelyInv'
  <2>1. \A r \in Procs : Alive(r) => age'[PortOf[r]] <= Stale
    BY <1>7, ReportedAge DEF Heartbeat, TimelyInv
  <2>2. ASSUME NEW r \in Procs, held[r] # NoPrompt, status[held[r]] = "running"
        PROVE  status'[held[r]] = "running"
    <3>1. held[r] \in Prompts /\ workerPort[held[r]] = PortOf[r] /\ Alive(r)
      BY <2>2, HolderAlive DEF HandOutInv, HeldIsOpen, TypeInv, TypeOK
    <3>2. age[PortOf[r]] <= Stale /\ age[PortOf[r]] \in Nat
      BY <1>a, <3>1, ConstantsAssumption DEF TypeInv, TypeOK
    <3>3. PortOf[r] \notin StalePorts(lag)
      BY <3>2, LimitsAssumption DEF StalePorts, Lags
    <3>4. \A q \in StalePorts(lag) : active[q] # held[r]
      BY <3>1, <3>3, ConstantsAssumption DEF ActiveIsRunning, StalePorts
    <3> QED
      BY <1>7, <2>2, <3>1, <3>4 DEF Heartbeat
  <2> QED
    BY <1>7, <2>1, <2>2, TimelyFrame DEF Heartbeat, procVars
<1>8. ASSUME NEW p \in Procs, NEW lag \in Lags, ClaimNothing(p, lag) PROVE TimelyInv'
  <2>1. \A r \in Procs : Alive(r) => age'[PortOf[r]] <= Stale
    BY <1>8, ReportedAge DEF ClaimNothing, TimelyInv
  <2> QED
    BY <1>8, <2>1, TimelyFrame DEF ClaimNothing, jobVars, procVars
<1>9. ASSUME NEW p \in Procs, NEW lag \in Lags, Complete(p, lag) PROVE TimelyInv'
  <2>1. \A r \in Procs : Alive(r)' <=> Alive(r)
    BY <1>9 DEF Complete, BackToQueue, Alive, TypeInv, TypeOK
  <2>2. lag <= Stale
    BY LimitsAssumption DEF TimelyFleet, Lags
  <2>3. \A q \in Ports : age'[q] = age[q] \/ age'[q] = lag
    BY <1>9 DEF Complete, TypeInv, TypeOK
  <2>4. FreshRows'
    BY <2>1, <2>2, <2>3, <1>a, ConstantsAssumption DEF TimelyInv, FreshRows
  <2>5. ASSUME NEW r \in Procs, held'[r] # NoPrompt PROVE status'[held'[r]] = "running"
    <3>1. r # p /\ held'[r] = held[r]
      BY <1>9, <2>5 DEF Complete, BackToQueue, TypeInv, TypeOK
    <3>2. held[r] # held[p]
      BY <2>5, <3>1 DEF HandOutInv, ExclusiveExecution
    <3>3. status'[held[r]] = status[held[r]]
      BY <1>9, <2>5, <3>1, <3>2 DEF Complete, TypeInv, TypeOK
    <3> QED
      BY <2>5, <3>1, <3>3 DEF TimelyInv, LostOnlyWhenDead
  <2> QED
    BY <2>4, <2>5 DEF TimelyInv, LostOnlyWhenDead
<1>10. ASSUME NEW p \in Procs, NEW lag \in Lags, NEW j \in Prompts, Claim(p, j, lag)
       PROVE  TimelyInv'
  <2>1. \A r \in Procs : Alive(r) => age'[PortOf[r]] <= Stale
    BY <1>10, ReportedAge DEF Claim, TimelyInv
  <2>2. \A r \in Procs : Alive(r)' <=> Alive(r)
    BY <1>10 DEF Claim, Alive, TypeInv, TypeOK
  <2>3. FreshRows'
    BY <2>1, <2>2 DEF TimelyInv, FreshRows
  <2>4. /\ held'[p] = j /\ \A r \in Procs : r # p => held'[r] = held[r]
        /\ status'[j] = "running"
        /\ \A i \in Prompts : i # j => status'[i] = status[i]
    BY <1>10 DEF Claim, TypeInv, TypeOK
  <2>5. LostOnlyWhenDead'
    BY <2>4 DEF TimelyInv, LostOnlyWhenDead, TypeInv, TypeOK
  <2> QED
    BY <2>3, <2>5 DEF TimelyInv
<1>11. ASSUME NEW p \in Procs, ClaimRaises(p) PROVE TimelyInv'
  BY <1>11, <1>a, TimelyFrame DEF ClaimRaises, jobVars, workerVars, TypeInv, TypeOK
<1>12. ASSUME NEW p \in Procs, NEW b \in BOOLEAN, Finish(p, b) PROVE TimelyInv'
  BY <1>12, <1>a, TimelyFrame DEF Finish, jobVars, workerVars, TypeInv, TypeOK
<1>13. ASSUME NEW p \in Procs, CompleteRaises(p) PROVE TimelyInv'
  <2>1. UNCHANGED <<status, age>> /\ \A r \in Procs : Alive(r)' <=> Alive(r)
    BY <1>13 DEF CompleteRaises, BackToQueue, Alive, jobVars, workerVars, TypeInv, TypeOK
  <2>2. \A r \in Procs : held'[r] = held[r] \/ held'[r] = NoPrompt
    BY <1>13 DEF CompleteRaises, BackToQueue, TypeInv, TypeOK
  <2> QED
    BY <2>1, <2>2 DEF TimelyInv, FreshRows, LostOnlyWhenDead
<1>14. ASSUME NEW p \in Procs, Crash(p) PROVE TimelyInv'
  <2>1. UNCHANGED <<status, age>> /\ \A r \in Procs : Alive(r)' => Alive(r)
    BY <1>14 DEF Crash, Alive, jobVars, workerVars, TypeInv, TypeOK
  <2>2. \A r \in Procs : held'[r] = held[r] \/ held'[r] = NoPrompt
    BY <1>14 DEF Crash, TypeInv, TypeOK
  <2> QED
    BY <2>1, <2>2 DEF TimelyInv, FreshRows, LostOnlyWhenDead
<1>15. CASE Tick
  <2>1. ASSUME NEW r \in Procs, Alive(r) PROVE age'[PortOf[r]] <= Stale
    <3>1. age[PortOf[r]] < HeartbeatDeadline /\ PortOf[r] \in Ports
      BY <1>15, <2>1, ConstantsAssumption DEF Tick
    <3>2. age[PortOf[r]] \in Nat
      BY <3>1 DEF TypeInv, TypeOK
    <3>3. age'[PortOf[r]] <= age[PortOf[r]] + 1
      BY <1>15, <3>1, <3>2, LimitsAssumption DEF Tick, Min2, AgeCap
    <3>4. age'[PortOf[r]] \in Nat
      BY <3>1 DEF TypeInv, TypeOK
    <3> QED
      BY <3>1, <3>2, <3>3, <3>4, LimitsAssumption DEF TimelyFleet
  <2> QED
    BY <1>15, <2>1, TimelyFrame DEF Tick, jobVars, procVars
<1>16. CASE UNCHANGED vars
  BY <1>16, <1>a, TimelyFrame DEF vars, jobVars, workerVars, procVars
<1> QED
  BY <1>1, <1>2, <1>3, <1>4, <1>5, <1>6, <1>7, <1>8, <1>9, <1>10, <1>11, <1>12,
     <1>13, <1>14, <1>15, <1>16 DEF Next, Submission, Request

(* In a fleet whose live workers report in time and whose processes do not  *)
(* overlap, no job is declared lost while its process still works on it.    *)
THEOREM LostOnlyWhenDeadHolds ==
  ASSUME TimelyFleet, DistinctPids
  PROVE  Spec => []LostOnlyWhenDead
<1>1. Init => TimelyInv
  BY TimelyInit
<1>2. TypeInv /\ TypeInv' /\ HandOutInv /\ ActiveIsRunning /\ TimelyInv /\ [Next]_vars
        => TimelyInv'
  BY TimelyStep, TimelyFleet
<1>3. Init => TrackInv
  BY TrackInit
<1>4. TypeInv /\ HandOutInv /\ TrackInv /\ [Next]_vars => TrackInv'
  BY TrackStep, DistinctPids
<1>5. TrackInv => ActiveIsRunning
  BY DEF TrackInv
<1>6. TimelyInv => LostOnlyWhenDead
  BY DEF TimelyInv
<1> QED
  BY <1>1, <1>2, <1>3, <1>4, <1>5, <1>6, TypeCorrect, HandOutInvariant, PTL DEF Spec

-----------------------------------------------------------------------------
(* The processes executing an account's jobs of a class map one to one to   *)
(* running rows, if holding a prompt means that its row runs.               *)
LEMMA PhysicalFromTable ==
  TypeInv /\ HandOutInv /\ LostOnlyWhenDead /\ ConcurrencyLimit => PhysicalLimit
<1> SUFFICES ASSUME TypeInv, HandOutInv, LostOnlyWhenDead, ConcurrencyLimit,
                    NEW u \in Users \ Admins, NEW c \in Classes
             PROVE  Cardinality({p \in Procs : held[p] # NoPrompt /\ job[held[p]].owner = u
                                               /\ job[held[p]].class = c}) <= LimitFor(c)
  BY DEF PhysicalLimit
<1> DEFINE S == {p \in Procs : held[p] # NoPrompt /\ job[held[p]].owner = u
                               /\ job[held[p]].class = c}
           f == [p \in S |-> held[p]]
<1>1. f \in [S -> RunningOf(u, c)]
  BY DEF LostOnlyWhenDead, RunningOf, TypeInv, TypeOK
<1>2. \A a, b \in S : f[a] = f[b] => a = b
  BY DEF HandOutInv, ExclusiveExecution
<1>3. f \in Injection(S, RunningOf(u, c))
  BY <1>1, <1>2 DEF Injection, IsInjective
<1>4. IsFiniteSet(S) /\ Cardinality(S) <= Cardinality(RunningOf(u, c))
  BY <1>3, RunningOfFinite, FS_Injection
<1>5. Cardinality(RunningOf(u, c)) <= LimitFor(c)
  BY DEF ConcurrencyLimit
<1>6. Cardinality(S) \in Nat /\ Cardinality(RunningOf(u, c)) \in Nat /\ LimitFor(c) \in Nat
  BY <1>4, FS_CardinalityType, RunningOfFinite, LimitForType
<1> QED
  BY <1>4, <1>5, <1>6

(* In such a fleet the limit bounds what is really executed, not only what  *)
(* the table says.                                                          *)
THEOREM PhysicalLimitHolds ==
  ASSUME TimelyFleet, DistinctPids
  PROVE  Spec => []PhysicalLimit
<1>1. Spec => []LostOnlyWhenDead
  BY LostOnlyWhenDeadHolds, TimelyFleet, DistinctPids
<1>2. TypeInv /\ HandOutInv /\ LostOnlyWhenDead /\ ConcurrencyLimit => PhysicalLimit
  BY PhysicalFromTable
<1> QED
  BY <1>1, <1>2, TypeCorrect, HandOutInvariant, ConcurrencyLimitHolds, PTL

-----------------------------------------------------------------------------
(* Steps that hand out nothing and rewrite no open row keep pools apart.    *)
LEMMA PoolFrame ==
  ASSUME HandOutInv, PoolIsolation,
         \A p \in Procs : held'[p] = held[p] \/ held'[p] = NoPrompt,
         \A p \in Procs : held[p] # NoPrompt => job'[held[p]] = job[held[p]]
  PROVE  PoolIsolation'
  BY DEF PoolIsolation, Compatible

LEMMA PoolStep == TypeInv /\ HandOutInv /\ PoolIsolation /\ [Next]_vars => PoolIsolation'
<1> SUFFICES ASSUME TypeInv, HandOutInv, PoolIsolation, [Next]_vars PROVE PoolIsolation'
  OBVIOUS
<1>1. ASSUME NEW p \in Procs, NEW j \in Prompts, NEW u \in Users, NEW k \in Kinds,
             NEW n \in Priorities, Enqueue(p, j, u, k, n)
      PROVE  PoolIsolation'
  <2>1. UNCHANGED held /\ status[j] = "absent" /\ \A i \in Prompts : i # j => job'[i] = job[i]
    BY <1>1 DEF Enqueue, procVars, TypeInv, TypeOK
  <2>2. \A r \in Procs : held[r] # NoPrompt => held[r] \in Prompts /\ held[r] # j
    BY <2>1 DEF HandOutInv, HeldIsOpen, TypeInv, TypeOK
  <2> QED
    BY <2>1, <2>2, PoolFrame
<1>2. ASSUME NEW p \in Procs, NEW lag \in Lags, StartProcess(p, lag) PROVE PoolIsolation'
  <2>1. UNCHANGED held /\ \A i \in Prompts : status[i] # "queued" => job'[i] = job[i]
    BY <1>2 DEF StartProcess, Reclassified, IsLegacy
  <2>2. \A r \in Procs : held[r] # NoPrompt => held[r] \in Prompts /\ status[held[r]] # "queued"
    BY DEF HandOutInv, HeldIsOpen, TypeInv, TypeOK
  <2> QED
    BY <2>1, <2>2, PoolFrame
<1>3. ASSUME NEW p \in Procs, NEW lag \in Lags, NEW j \in Prompts, Claim(p, j, lag)
      PROVE  PoolIsolation'
  BY <1>3 DEF Claim, Eligible, Compatible, PoolIsolation, TypeInv, TypeOK
<1>4. CASE UNCHANGED job /\ \A p \in Procs : held'[p] = held[p] \/ held'[p] = NoPrompt
  BY <1>4, PoolFrame
<1>5. ASSUME NEW p \in Procs, NEW lag \in Lags,
             Heartbeat(p, lag) \/ ClaimNothing(p, lag) \/ Complete(p, lag)
      PROVE  PoolIsolation'
  BY <1>4, <1>5 DEF Heartbeat, ClaimNothing, Complete, BackToQueue, jobVars, procVars,
                    TypeInv, TypeOK
<1>6. ASSUME NEW p \in Procs, NEW b \in BOOLEAN,
             ClaimRaises(p) \/ Finish(p, b) \/ CompleteRaises(p) \/ Crash(p)
      PROVE  PoolIsolation'
  BY <1>4, <1>6 DEF ClaimRaises, Finish, CompleteRaises, Crash, BackToQueue, jobVars,
                    TypeInv, TypeOK
<1>7. CASE Request \/ (\E j \in Prompts : DeleteNext(j)) \/ Tick \/ UNCHANGED vars
  BY <1>4, <1>7 DEF Request, CancelAll, Cancel, DeleteRead, DeleteNext, Tick, vars,
                    jobVars, procVars
<1> QED
  BY <1>1, <1>2, <1>3, <1>5, <1>6, <1>7 DEF Next, Submission

(* A job only ever executes on a worker of its pool, for every assignment   *)
(* of pools and every mix of old and new configuration.                     *)
THEOREM PoolIsolationHolds == Spec => []PoolIsolation
<1>1. Init => PoolIsolation
  BY DEF Init, PoolIsolation
<1>2. TypeInv /\ HandOutInv /\ PoolIsolation /\ [Next]_vars => PoolIsolation'
  BY PoolStep
<1> QED
  BY <1>1, <1>2, TypeCorrect, HandOutInvariant, PTL DEF Spec

-----------------------------------------------------------------------------
(* Steps that cancel nothing and leave the owners of cancelled jobs alone.  *)
LEMMA CancelFrame ==
  ASSUME CancelIsolation,
         \A j \in Prompts : status'[j] = "cancelled" =>
            status[j] = "cancelled" /\ job'[j].owner = job[j].owner
  PROVE  CancelIsolation'
  BY DEF CancelIsolation

(* A cancel that was checked against the row as it is then.                 *)
LEMMA CheckedCancel ==
  ASSUME CancelIsolation, NEW u \in Requesters, UNCHANGED job,
         \A j \in Prompts : status'[j] = "cancelled" =>
            status[j] = "cancelled" \/ MayCancel(u, j)
  PROVE  CancelIsolation'
  BY DEF CancelIsolation, MayCancel

(* delete_matching rests on the check of each cancel, not on its snapshot.  *)
LEMMA CancelIsolationStep == TypeInv /\ CancelIsolation /\ [Next]_vars => CancelIsolation'
<1> SUFFICES ASSUME TypeInv, CancelIsolation, [Next]_vars PROVE CancelIsolation'
  OBVIOUS
<1>t. TypeOK
  BY DEF TypeInv
<1>1. ASSUME NEW p \in Procs, NEW j \in Prompts, NEW u \in Users, NEW k \in Kinds,
             NEW n \in Priorities, Enqueue(p, j, u, k, n)
      PROVE  CancelIsolation'
  BY <1>1, <1>t, CancelFrame DEF Enqueue, TypeOK
<1>2. ASSUME NEW u \in Requesters, CancelAll(u) PROVE CancelIsolation'
  BY <1>2, <1>t, CheckedCancel DEF CancelAll, TypeOK
<1>3. ASSUME NEW u \in Requesters, NEW j \in Prompts, Cancel(u, j) PROVE CancelIsolation'
  BY <1>3, <1>t, CheckedCancel DEF Cancel, TypeOK
<1>4. ASSUME NEW u \in Requesters, NEW S \in SUBSET Prompts, DeleteRead(u, S)
      PROVE  CancelIsolation'
  BY <1>4, CancelFrame DEF DeleteRead, jobVars
<1>5. ASSUME NEW j \in Prompts, DeleteNext(j) PROVE CancelIsolation'
  <2>1. sweep.by \in Requesters
    <3>1. sweep # NoSweep
      <4>1. NoSweep.cand = {}
        BY DEF NoSweep
      <4> QED
        BY <1>5, <4>1 DEF DeleteNext
    <3> QED
      BY <1>t, <3>1 DEF TypeOK
  <2>2. CASE MayCancel(sweep.by, j)
    BY <1>5, <1>t, <2>1, <2>2, CheckedCancel DEF DeleteNext, TypeOK
  <2>3. CASE ~MayCancel(sweep.by, j)
    BY <1>5, <2>3, CancelFrame DEF DeleteNext
  <2> QED
    BY <2>2, <2>3
<1>6. ASSUME NEW p \in Procs, NEW lag \in Lags, StartProcess(p, lag) PROVE CancelIsolation'
  <2>1. \A j \in Prompts : status'[j] = "cancelled" => status[j] = "cancelled"
    BY <1>6 DEF StartProcess, RegisterWorker, LostStatus
  <2>2. \A j \in Prompts : status[j] = "cancelled" => job'[j] = job[j]
    BY <1>6 DEF StartProcess, Reclassified, IsLegacy
  <2> QED
    BY <2>1, <2>2, CancelFrame
<1>7. ASSUME NEW p \in Procs, NEW lag \in Lags, Heartbeat(p, lag) PROVE CancelIsolation'
  BY <1>7, CancelFrame DEF Heartbeat, LostStatus
<1>8. ASSUME NEW p \in Procs, NEW lag \in Lags, Complete(p, lag) PROVE CancelIsolation'
  BY <1>8, <1>t, CancelFrame DEF Complete, TypeOK
<1>9. ASSUME NEW p \in Procs, NEW lag \in Lags, NEW j \in Prompts, Claim(p, j, lag)
      PROVE  CancelIsolation'
  BY <1>9, <1>t, CancelFrame DEF Claim, TypeOK
<1>10. CASE UNCHANGED <<status, job>>
  BY <1>10, CancelFrame
<1> QED
  BY <1>1, <1>2, <1>3, <1>4, <1>5, <1>6, <1>7, <1>8, <1>9, <1>10
  DEF Next, Submission, Request, ClaimNothing, ClaimRaises, Finish, CompleteRaises, Crash, Tick,
      vars, jobVars

(* A job is cancelled only on behalf of its owner or an administrator, for  *)
(* every set of accounts that send requests.                                *)
THEOREM CancelIsolationHolds == Spec => []CancelIsolation
<1>1. Init => CancelIsolation
  BY DEF Init, CancelIsolation
<1>2. TypeInv /\ CancelIsolation /\ [Next]_vars => CancelIsolation'
  BY CancelIsolationStep
<1> QED
  BY <1>1, <1>2, TypeCorrect, PTL DEF Spec

-----------------------------------------------------------------------------
(* All instances read the same gpu_node_types, or none does.                *)
AlikeFleet == Configured \in {{}, Procs}

(* The rows of the table.                                                   *)
Present == {j \in Prompts : status[j] # "absent"}

(* The rows are numbered no higher than there are rows, are classified      *)
(* alike, store a limit that follows from owner and class, and carry a port *)
(* only once they were handed out.                                          *)
OrderInv ==
  /\ \A j \in Present :
       /\ job[j].seq <= Cardinality(Present)
       /\ (job[j].class = "default") <=> (Configured = {})
       /\ job[j].limit = IF job[j].owner \in Admins THEN AdminLimit ELSE LimitFor(job[j].class)
  /\ \A j \in Prompts : workerPort[j] # NoPort => status[j] \notin {"absent", "queued"}

FifoInv == OrderInv /\ FifoPerOwner

(* Sets of rows can be counted.                                             *)
LEMMA PresentFinite ==
  \A S \in SUBSET Prompts : IsFiniteSet(S) /\ Cardinality(S) \in Nat
  BY ConstantsAssumption, FS_Subset, FS_CardinalityType

(* Steps that submit and hand out nothing keep every order.                 *)
LEMMA FifoFrame ==
  ASSUME FifoInv, UNCHANGED <<job, workerPort>>,
         \A j \in Prompts : (status'[j] = "absent") <=> (status[j] = "absent"),
         \A j \in Prompts : status'[j] = "queued" => status[j] = "queued"
  PROVE  FifoInv'
<1>1. Present' = Present
  BY DEF Present
<1>2. OrderInv'
  BY <1>1 DEF FifoInv, OrderInv, LimitFor, Present
<1>3. FifoPerOwner'
  BY DEF FifoInv, FifoPerOwner
<1> QED
  BY <1>2, <1>3 DEF FifoInv

(* Nothing is legacy in a fleet that is configured alike.                   *)
LEMMA NoLegacy ==
  ASSUME AlikeFleet, FifoInv, NEW p \in Procs, NEW j \in Prompts
  PROVE  Reclassified(p, j) = job[j]
<1>1. ~IsLegacy(p, j)
  BY DEF AlikeFleet, FifoInv, OrderInv, IsLegacy, Present
<1> QED
  BY <1>1 DEF Reclassified

(* A submission is numbered behind all rows; a claim takes the first of the *)
(* eligible rows, and rows of one account and class are eligible together.  *)
LEMMA FifoStep ==
  ASSUME AlikeFleet, TypeInv, TypeInv', FifoInv, [Next]_vars
  PROVE  FifoInv'
<1>t. TypeOK /\ JobsWellFormed
  BY DEF TypeInv
<1>1. ASSUME NEW p \in Procs, NEW j \in Prompts, NEW u \in Users, NEW k \in Kinds,
             NEW n \in Priorities, Enqueue(p, j, u, k, n)
      PROVE  FifoInv'
  <2>1. j \notin Present /\ Present' = Present \cup {j} /\ UNCHANGED workerPort
    BY <1>1, <1>t DEF Enqueue, Present, TypeOK
  <2>2. /\ Cardinality(Present) \in Nat
        /\ Cardinality(Present') = Cardinality(Present) + 1
    BY <2>1, PresentFinite, FS_AddElement DEF Present
  <2>3. /\ job'[j].seq = Cardinality(Present) + 1
        /\ job'[j].class = Classify(p, k) /\ job'[j].owner = u
        /\ job'[j].limit = IF u \in Admins THEN AdminLimit ELSE LimitFor(Classify(p, k))
        /\ \A i \in Prompts \ {j} : job'[i] = job[i] /\ status'[i] = status[i]
        /\ status'[j] = "queued" /\ status[j] = "absent"
    BY <1>1, <1>t DEF Enqueue, Present, TypeOK
  <2>4. (Classify(p, k) = "default") <=> (Configured = {})
    BY ConstantsAssumption DEF Classify, AlikeFleet
  <2>5. \A i \in Present : job[i].seq \in Nat
    BY <1>t DEF JobsWellFormed, JobRecords, Present
  <2>6. ASSUME NEW i \in Present'
        PROVE  /\ job'[i].seq <= Cardinality(Present')
               /\ (job'[i].class = "default") <=> (Configured = {})
               /\ job'[i].limit = IF job'[i].owner \in Admins THEN AdminLimit
                                  ELSE LimitFor(job'[i].class)
    <3>1. CASE i = j
      BY <2>2, <2>3, <2>4, <3>1
    <3>2. CASE i # j
      <4>1. i \in Present /\ i \in Prompts /\ job'[i] = job[i]
        BY <2>1, <2>3, <3>2 DEF Present
      <4> QED
        BY <4>1, <2>2, <2>5 DEF FifoInv, OrderInv
    <3> QED
      BY <3>1, <3>2
  <2>7. \A i \in Prompts : workerPort'[i] # NoPort => status'[i] \notin {"absent", "queued"}
    BY <2>1, <2>3 DEF FifoInv, OrderInv
  <2>8. OrderInv'
    BY <2>6, <2>7 DEF OrderInv, LimitFor
  <2>9. FifoPerOwner'
    <3> SUFFICES ASSUME NEW i \in Prompts, NEW h \in Prompts,
                        status'[i] = "queued", workerPort'[h] # NoPort,
                        job'[i].owner = job'[h].owner, job'[i].class = job'[h].class,
                        job'[i].prio = job'[h].prio
                 PROVE  job'[h].seq < job'[i].seq
      BY DEF FifoPerOwner
    <3>1. h # j /\ h \in Present /\ job'[h] = job[h] /\ workerPort[h] # NoPort
      BY <2>1, <2>3 DEF FifoInv, OrderInv, Present
    <3>2. CASE i = j
      BY <3>1, <3>2, <2>2, <2>3, <2>5 DEF FifoInv, OrderInv
    <3>3. CASE i # j
      BY <3>1, <3>3, <2>3 DEF FifoInv, FifoPerOwner
    <3> QED
      BY <3>2, <3>3
  <2> QED
    BY <2>8, <2>9 DEF FifoInv
<1>2. ASSUME NEW p \in Procs, NEW lag \in Lags, NEW j \in Prompts, Claim(p, j, lag)
      PROVE  FifoInv'
  <2>1. /\ UNCHANGED job /\ status[j] = "queued" /\ status'[j] = "running"
        /\ \A i \in Prompts \ {j} : status'[i] = status[i] /\ workerPort'[i] = workerPort[i]
    BY <1>2, <1>t DEF Claim, Eligible, TypeOK
  <2>2. Present' = Present
    BY <2>1 DEF Present
  <2>3. OrderInv'
    BY <2>1, <2>2 DEF FifoInv, OrderInv, LimitFor
  <2>4. FifoPerOwner'
    <3> SUFFICES ASSUME NEW i \in Prompts, NEW h \in Prompts,
                        status'[i] = "queued", workerPort'[h] # NoPort,
                        job[i].owner = job[h].owner, job[i].class = job[h].class,
                        job[i].prio = job[h].prio
                 PROVE  job[h].seq < job[i].seq
      BY <2>1 DEF FifoPerOwner
    <3>1. i # j /\ status[i] = "queued"
      BY <2>1
    <3>2. CASE h = j
      <4>1. job[i].limit = job[j].limit
        <5>1. i \in Present /\ j \in Present
          BY <2>1, <3>1 DEF Present
        <5>2. job[i].owner = job[j].owner /\ job[i].class = job[j].class
          BY <3>2
        <5> QED
          BY <5>1, <5>2 DEF FifoInv, OrderInv, LimitFor
      <4>2. Eligible(p, i)
        <5>1. Compatible(PoolOf[p], job[j].class) /\ BelowLimit(j)
          BY <1>2 DEF Claim, Eligible
        <5>2. job[i].owner = job[j].owner /\ job[i].class = job[j].class
          BY <3>2
        <5>3. BelowLimit(i)
          BY <4>1, <5>1, <5>2 DEF BelowLimit
        <5> QED
          BY <3>1, <5>1, <5>2, <5>3 DEF Eligible
      <4>3. Before(j, i)
        BY <1>2, <3>1, <4>2 DEF Claim
      <4>4. job[i].prio \in Int
        BY <1>t, <3>1, ConstantsAssumption DEF JobsWellFormed, JobRecords
      <4> QED
        BY <3>2, <4>3, <4>4 DEF Before
    <3>3. CASE h # j
      BY <2>1, <3>1, <3>3 DEF FifoInv, FifoPerOwner
    <3> QED
      BY <3>2, <3>3
  <2> QED
    BY <2>3, <2>4 DEF FifoInv
<1>3. ASSUME NEW p \in Procs, NEW lag \in Lags, StartProcess(p, lag) PROVE FifoInv'
  <2>1. UNCHANGED <<job, workerPort>>
    <3>1. \A j \in Prompts : Reclassified(p, j) = job[j]
      BY NoLegacy
    <3>2. job' = [j \in Prompts |-> job[j]]
      BY <1>3, <3>1 DEF StartProcess
    <3> QED
      BY <1>3, <1>t, <3>2 DEF StartProcess, TypeOK
  <2>2. \A j \in Prompts : status'[j] = status[j]
                           \/ (status[j] = "running" /\ status'[j] = "worker_lost")
    BY <1>3 DEF StartProcess, RegisterWorker, Displaces, LostStatus
  <2> QED
    BY <2>1, <2>2, FifoFrame
<1>4. ASSUME NEW u \in Requesters, CancelAll(u) PROVE FifoInv'
  BY <1>4, <1>t, FifoFrame DEF CancelAll, MayCancel, TypeOK
<1>5. ASSUME NEW u \in Requesters, NEW j \in Prompts, Cancel(u, j) PROVE FifoInv'
  BY <1>5, <1>t, FifoFrame DEF Cancel, MayCancel, TypeOK
<1>6. ASSUME NEW j \in Prompts, DeleteNext(j) PROVE FifoInv'
  BY <1>6, <1>t, FifoFrame DEF DeleteNext, MayCancel, TypeOK
<1>7. ASSUME NEW p \in Procs, NEW lag \in Lags, Heartbeat(p, lag) PROVE FifoInv'
  BY <1>7, FifoFrame DEF Heartbeat, LostStatus
<1>8. ASSUME NEW p \in Procs, NEW lag \in Lags, Complete(p, lag) PROVE FifoInv'
  BY <1>8, <1>t, FifoFrame DEF Complete, TypeOK
<1>9. CASE UNCHANGED jobVars
  BY <1>9, FifoFrame DEF jobVars
<1> QED
  BY <1>1, <1>2, <1>3, <1>4, <1>5, <1>6, <1>7, <1>8, <1>9
  DEF Next, Submission, Request, ClaimNothing, ClaimRaises, Finish, CompleteRaises, Crash, Tick,
      DeleteRead, vars

(* In a fleet configured alike, the jobs of an account, class and priority  *)
(* are handed out in the order of their submission, whichever instances     *)
(* accept and claim them.                                                   *)
THEOREM FifoPerOwnerHolds ==
  ASSUME AlikeFleet
  PROVE  Spec => []FifoPerOwner
<1>1. Init => FifoInv
  BY DEF Init, FifoInv, OrderInv, FifoPerOwner, Present
<1>2. TypeInv /\ TypeInv' /\ FifoInv /\ [Next]_vars => FifoInv'
  BY FifoStep, AlikeFleet
<1>3. FifoInv => FifoPerOwner
  BY DEF FifoInv
<1> QED
  BY <1>1, <1>2, <1>3, TypeCorrect, PTL DEF Spec

-----------------------------------------------------------------------------
(* Every attempt of task_done that failed was a database error.             *)
TriesAreFailures == \A p \in Procs : tries[p] <= dbFailures

IdleInv == TriesAreFailures /\ IdleWorkerCanClaim

(* Steps that make no row busy and no process idle.                         *)
LEMMA IdleFrame ==
  ASSUME TypeInv, TypeInv', IdleInv, dbFailures' >= dbFailures,
         \A p \in Procs : tries'[p] <= tries[p],
         \A p \in Procs : phase'[p] = "up" => phase[p] = "up" \/ ~Busy(PortOf[p])',
         \A q \in Ports : Busy(q)' => Busy(q)
  PROVE  IdleInv'
<1>t. TypeOK /\ TypeOK'
  BY DEF TypeInv
<1>0. dbFailures \in Nat /\ dbFailures' \in Nat
  BY <1>t, LimitsAssumption DEF TypeOK
<1>1. TriesAreFailures'
  <2> SUFFICES ASSUME NEW p \in Procs PROVE tries'[p] <= dbFailures'
    BY DEF TriesAreFailures
  <2>1. tries[p] \in Int /\ tries'[p] \in Int /\ tries[p] <= dbFailures
    BY <1>t DEF TypeOK, IdleInv, TriesAreFailures
  <2> QED
    BY <1>0, <2>1
<1>2. IdleWorkerCanClaim'
  <2> SUFFICES ASSUME NEW p \in Procs, phase'[p] = "up", Busy(PortOf[p])'
               PROVE  dbFailures' >= 3
    BY DEF IdleWorkerCanClaim
  <2>1. phase[p] = "up" /\ Busy(PortOf[p])
    BY ConstantsAssumption
  <2>2. dbFailures >= 3
    BY <2>1 DEF IdleInv, IdleWorkerCanClaim
  <2> QED
    BY <1>0, <2>2
<1> QED
  BY <1>1, <1>2 DEF IdleInv


(* Whoever returns to the queue loop has freed its row, or failed three     *)
(* times to.                                                                *)
LEMMA IdleStep ==
  ASSUME TimelyFleet, TypeInv, TypeInv', HandOutInv, TrackInv, TimelyInv, IdleInv, [Next]_vars
  PROVE  IdleInv'
<1>t. TypeOK
  BY DEF TypeInv
<1>d. dbFailures >= dbFailures /\ \A p \in Procs : tries[p] <= tries[p] /\ 0 <= tries[p]
  BY <1>t, LimitsAssumption DEF TypeOK
<1>1. ASSUME NEW p \in Procs, NEW j \in Prompts, NEW u \in Users, NEW k \in Kinds,
             NEW n \in Priorities, Enqueue(p, j, u, k, n)
      PROVE  IdleInv'
  <2>1. \A i \in Prompts : status'[i] = "running" => status[i] = "running"
    BY <1>1, <1>t DEF Enqueue, TypeOK
  <2>2. \A q \in Ports : Busy(q)' => Busy(q)
    BY <1>1, <1>t, <2>1 DEF Enqueue, Busy, workerVars, TypeOK
  <2> QED
    BY <1>1, <1>d, <2>2, IdleFrame DEF Enqueue, procVars, budgets
<1>2. ASSUME NEW u \in Requesters, CancelAll(u) PROVE IdleInv'
  <2>1. \A q \in Ports : Busy(q)' => Busy(q)
    BY <1>2, <1>t DEF CancelAll, Busy, workerVars, TypeOK
  <2> QED
    BY <1>2, <1>d, <2>1, IdleFrame DEF CancelAll, procVars, budgets
<1>3. ASSUME NEW u \in Requesters, NEW j \in Prompts, Cancel(u, j) PROVE IdleInv'
  <2>1. \A q \in Ports : Busy(q)' => Busy(q)
    BY <1>3, <1>t DEF Cancel, Busy, workerVars, TypeOK
  <2> QED
    BY <1>3, <1>d, <2>1, IdleFrame DEF Cancel, procVars, budgets
<1>4. ASSUME NEW j \in Prompts, DeleteNext(j) PROVE IdleInv'
  <2>1. \A q \in Ports : Busy(q)' => Busy(q)
    BY <1>4, <1>t DEF DeleteNext, Busy, workerVars, TypeOK
  <2> QED
    BY <1>4, <1>d, <2>1, IdleFrame DEF DeleteNext, procVars, budgets
<1>5. ASSUME NEW p \in Procs, NEW lag \in Lags, StartProcess(p, lag) PROVE IdleInv'
  <2>1. \A i \in Prompts : status'[i] = "running" => status[i] = "running"
    BY <1>5 DEF StartProcess, RegisterWorker, LostStatus
  <2>2. /\ active' = [active EXCEPT ![PortOf[p]] = NoPrompt] /\ PortOf[p] \in Ports
        /\ phase' = [phase EXCEPT ![p] = "up"] /\ UNCHANGED <<tries, dbFailures>>
    BY <1>5, ConstantsAssumption DEF StartProcess, RegisterWorker, budgets
  <2>3. \A q \in Ports : Busy(q)' => Busy(q)
    BY <1>t, <2>1, <2>2 DEF Busy, TypeOK
  <2>4. ~Busy(PortOf[p])'
    BY <1>t, <2>2 DEF Busy, TypeOK
  <2>5. \A r \in Procs : phase'[r] = "up" => phase[r] = "up" \/ ~Busy(PortOf[r])'
    BY <1>t, <2>2, <2>4 DEF TypeOK
  <2> QED
    BY <1>d, <2>2, <2>3, <2>5, IdleFrame
<1>6. ASSUME NEW p \in Procs, NEW lag \in Lags, Heartbeat(p, lag) PROVE IdleInv'
  <2>1. \A i \in Prompts : status'[i] = "running" => status[i] = "running"
    BY <1>6 DEF Heartbeat, LostStatus
  <2>2. \A q \in Ports : Busy(q)' => Busy(q)
    BY <1>6, <1>t, <2>1 DEF Heartbeat, Busy, TypeOK
  <2> QED
    BY <1>6, <1>d, <2>2, IdleFrame DEF Heartbeat, procVars, budgets
<1>7. ASSUME NEW p \in Procs, NEW lag \in Lags, NEW j \in Prompts, Claim(p, j, lag)
      PROVE  IdleInv'
  <2>1. /\ phase[p] = "up" /\ phase' = [phase EXCEPT ![p] = "executing"]
        /\ active' = [active EXCEPT ![PortOf[p]] = j] /\ status' = [status EXCEPT ![j] = "running"]
        /\ UNCHANGED <<tries, dbFailures>> /\ status[j] = "queued"
    BY <1>7 DEF Claim, Eligible, budgets
  <2>2. ASSUME NEW r \in Procs, phase'[r] = "up", Busy(PortOf[r])'
        PROVE  phase[r] = "up" /\ Busy(PortOf[r])
    <3>1. r # p /\ phase[r] = "up"
      BY <1>t, <2>1, <2>2 DEF TypeOK
    <3>2. PortOf[r] # PortOf[p]
      BY <2>1, <3>1 DEF TimelyInv, FreshRows, Alive
    <3>3. active'[PortOf[r]] = active[PortOf[r]] /\ PortOf[r] \in Ports
      BY <1>t, <2>1, <3>2, ConstantsAssumption DEF TypeOK
    <3>4. active[PortOf[r]] # NoPrompt
      BY <2>2, <3>3 DEF Busy
    <3> QED
      BY <3>1, <3>3, <3>4 DEF TrackInv, ActiveIsRunning, Busy
  <2>3. IdleWorkerCanClaim'
    BY <2>1, <2>2 DEF IdleInv, IdleWorkerCanClaim
  <2>4. TriesAreFailures'
    BY <2>1 DEF IdleInv, TriesAreFailures
  <2> QED
    BY <2>3, <2>4 DEF IdleInv
<1>8. ASSUME NEW p \in Procs, NEW lag \in Lags, Complete(p, lag) PROVE IdleInv'
  <2>1. held[p] # NoPrompt /\ held[p] \in Prompts /\ PortOf[p] \in Ports
    BY <1>8, <1>t, ConstantsAssumption DEF Complete, HandOutInv, HeldIsOpen, TypeOK
  <2>2. active[PortOf[p]] = held[p]
    <3>1. status[held[p]] = "running" /\ workerPort[held[p]] = PortOf[p]
      BY <2>1 DEF TimelyInv, LostOnlyWhenDead, HandOutInv, HeldIsOpen
    <3> QED
      BY <2>1, <3>1 DEF TrackInv, RunningIsTracked
  <2>3. /\ active' = [active EXCEPT ![PortOf[p]] = NoPrompt]
        /\ \A i \in Prompts : status'[i] = "running" => status[i] = "running"
        /\ phase' = [phase EXCEPT ![p] = "up"] /\ tries' = [tries EXCEPT ![p] = 0]
        /\ UNCHANGED dbFailures
    <3>1. active' = [active EXCEPT ![PortOf[p]] = IF @ = held[p] THEN NoPrompt ELSE @]
      BY <1>8 DEF Complete
    <3>2. active' = [active EXCEPT ![PortOf[p]] = NoPrompt]
      BY <1>t, <2>1, <2>2, <3>1 DEF TypeOK
    <3>3. \A i \in Prompts : status'[i] = "running" => status[i] = "running"
      BY <1>8, <1>t DEF Complete, TypeOK
    <3> QED
      BY <1>8, <3>2, <3>3 DEF Complete, BackToQueue, budgets
  <2>4. \A q \in Ports : Busy(q)' => Busy(q)
    BY <1>t, <2>3 DEF Busy, TypeOK
  <2>5. ~Busy(PortOf[p])'
    BY <1>t, <2>1, <2>3 DEF Busy, TypeOK
  <2>6. \A r \in Procs : /\ phase'[r] = "up" => phase[r] = "up" \/ ~Busy(PortOf[r])'
                         /\ tries'[r] <= tries[r]
    BY <1>t, <1>d, <2>3, <2>5 DEF TypeOK
  <2> QED
    BY <1>d, <2>3, <2>4, <2>6, IdleFrame
<1>9. ASSUME NEW p \in Procs, CompleteRaises(p) PROVE IdleInv'
  <2>1. /\ dbFailures \in Nat /\ dbFailures' = dbFailures + 1 /\ UNCHANGED <<status, active>>
        /\ \A r \in Procs : tries[r] \in Int /\ tries[r] <= dbFailures
    BY <1>9, <1>t, LimitsAssumption
    DEF CompleteRaises, jobVars, workerVars, TypeOK, IdleInv, TriesAreFailures
  <2>2. CASE tries[p] < LastAttempt /\ tries' = [tries EXCEPT ![p] = @ + 1]
             /\ UNCHANGED <<phase, held, ok>>
    <3>1. TriesAreFailures'
      BY <1>t, <2>1, <2>2 DEF TriesAreFailures, TypeOK
    <3>2. IdleWorkerCanClaim'
      BY <2>1, <2>2 DEF IdleInv, IdleWorkerCanClaim, Busy
    <3> QED
      BY <3>1, <3>2 DEF IdleInv
  <2>3. CASE tries[p] = LastAttempt /\ BackToQueue(p)
    <3>1. TriesAreFailures'
      BY <1>t, <2>1, <2>3 DEF TriesAreFailures, TypeOK, BackToQueue
    <3>2. dbFailures' >= 3
      BY <2>1, <2>3 DEF LastAttempt
    <3>3. IdleWorkerCanClaim'
      BY <3>2 DEF IdleWorkerCanClaim
    <3> QED
      BY <3>1, <3>3 DEF IdleInv
  <2> QED
    BY <1>9, <2>2, <2>3 DEF CompleteRaises
<1>10. ASSUME NEW p \in Procs, ClaimRaises(p) PROVE IdleInv'
  <2>1. /\ dbFailures' >= dbFailures /\ UNCHANGED <<status, active, tries>>
        /\ phase' = [phase EXCEPT ![p] = "raised"]
    BY <1>10, <1>t, LimitsAssumption DEF ClaimRaises, jobVars, workerVars, TypeOK
  <2>2. \A q \in Ports : Busy(q)' => Busy(q)
    BY <2>1 DEF Busy
  <2>3. \A r \in Procs : phase'[r] = "up" => phase[r] = "up"
    BY <1>t, <2>1 DEF TypeOK
  <2> QED
    BY <1>d, <2>1, <2>2, <2>3, IdleFrame
<1>11. ASSUME NEW p \in Procs, (\E b \in BOOLEAN : Finish(p, b)) \/ Crash(p) PROVE IdleInv'
  <2>1. /\ UNCHANGED <<status, active, dbFailures>>
        /\ \A r \in Procs : tries'[r] <= tries[r] /\ (phase'[r] = "up" => phase[r] = "up")
    BY <1>11, <1>t, <1>d DEF Finish, Crash, jobVars, workerVars, budgets, TypeOK
  <2>2. \A q \in Ports : Busy(q)' => Busy(q)
    BY <2>1 DEF Busy
  <2> QED
    BY <1>d, <2>1, <2>2, IdleFrame
<1>12. CASE UNCHANGED <<status, active, phase, tries, dbFailures>>
  BY <1>12 DEF IdleInv, TriesAreFailures, IdleWorkerCanClaim, Busy
<1> QED
  BY <1>1, <1>2, <1>3, <1>4, <1>5, <1>6, <1>7, <1>8, <1>9, <1>10, <1>11, <1>12
  DEF Next, Submission, Request, DeleteRead, ClaimNothing, Tick,
      vars, jobVars, workerVars, procVars, budgets

(* In a fleet that reports in time and does not overlap, a process that is  *)
(* not executing finds its worker row free, unless the database failed it   *)
(* three times.                                                             *)
THEOREM IdleWorkerCanClaimHolds ==
  ASSUME TimelyFleet, DistinctPids
  PROVE  Spec => []IdleWorkerCanClaim
<1>1. Init => IdleInv
  BY DEF Init, IdleInv, TriesAreFailures, IdleWorkerCanClaim
<1>2. TypeInv /\ TypeInv' /\ HandOutInv /\ TrackInv /\ TimelyInv /\ IdleInv /\ [Next]_vars
        => IdleInv'
  BY IdleStep, TimelyFleet
<1>3. Init => TrackInv /\ TimelyInv
  BY TrackInit, TimelyInit
<1>4. TypeInv /\ HandOutInv /\ TrackInv /\ [Next]_vars => TrackInv'
  BY TrackStep, DistinctPids
<1>5. TypeInv /\ TypeInv' /\ HandOutInv /\ ActiveIsRunning /\ TimelyInv /\ [Next]_vars
        => TimelyInv'
  BY TimelyStep, TimelyFleet
<1>6. TrackInv => ActiveIsRunning
  BY DEF TrackInv
<1>7. IdleInv => IdleWorkerCanClaim
  BY DEF IdleInv
<1> QED
  BY <1>1, <1>2, <1>3, <1>4, <1>5, <1>6, <1>7, TypeCorrect, HandOutInvariant, PTL DEF Spec
=============================================================================
