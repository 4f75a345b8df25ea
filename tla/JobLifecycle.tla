---------------------------- MODULE JobLifecycle ----------------------------
(***************************************************************************)
(* What the shared queue promises for a job, whatever instances, workers,  *)
(* heartbeats and restarts do: it is handed out at most once, a cancelled  *)
(* job is never handed out, a lost job is not submitted again, a result is *)
(* final, and a result is recorded only after the execution ended.         *)
(***************************************************************************)
CONSTANT Jobs

VARIABLES state,      \* what the jobs table says
          executing   \* the jobs some process really executes

vars == <<state, executing>>

Init == state = [j \in Jobs |-> "absent"] /\ executing = {}

Move(S, from, to) ==
  /\ \A j \in S : state[j] = from
  /\ state' = [j \in Jobs |-> IF j \in S THEN to ELSE state[j]]

Submit(j) == Move({j}, "absent", "queued") /\ UNCHANGED executing

Cancel(S) == Move(S, "queued", "cancelled") /\ UNCHANGED executing

HandOut(j) ==
  /\ j \notin executing
  /\ Move({j}, "queued", "running")
  /\ executing' = executing \cup {j}

Lose(S) == Move(S, "running", "worker_lost") /\ UNCHANGED executing

(* The execution ends: normally, or because its process died.               *)
ExecutionEnds(j) == j \in executing /\ executing' = executing \ {j} /\ UNCHANGED state

(* The result of an ended execution is recorded, late results included.     *)
Record(j, result) ==
  /\ j \notin executing
  /\ \E from \in {"running", "worker_lost"} : Move({j}, from, result)
  /\ UNCHANGED executing

Next ==
  \/ \E S \in SUBSET Jobs : Cancel(S) \/ Lose(S)
  \/ \E j \in Jobs :
       \/ Submit(j) \/ HandOut(j) \/ ExecutionEnds(j)
       \/ \E r \in {"completed", "failed"} : Record(j, r)

Spec == Init /\ [][Next]_vars
=============================================================================
