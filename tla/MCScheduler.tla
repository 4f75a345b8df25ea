---------------------------- MODULE MCScheduler ----------------------------
(* Small fleets for model-checking Scheduler.                               *)
EXTENDS Scheduler, TLC

CONSTANTS j1, j2, j3, alice, bob, root, w1, w2, a1, a2, b1, b2

(* Two processes of port w1, one or two of port w2.                         *)
MCPortOf == [p \in Procs |-> IF p \in {a1, a2} THEN w1 ELSE w2]
MCPidOf == [p \in Procs |-> p]
MCUnpooled == [p \in Procs |-> "default"]
MCPools == [p \in Procs |-> CASE p = a2 -> "api" [] p = b1 -> "gpu" [] OTHER -> "default"]
MCNoLimits == [c \in {} |-> 0]
MCPoolLimits == [c \in {"gpu"} |-> 1]
MCSymmetry == Permutations(Prompts)

(* Prompt ids are interchangeable; symmetry is unsound for liveness, so the *)
(* runs with fairness use them up in one fixed order instead.               *)
MCInOrder == /\ status'[j2] # "absent" => status'[j1] # "absent"
             /\ status'[j3] # "absent" => status'[j2] # "absent"
MCServedSpec == Init /\ [][Next /\ MCInOrder]_vars /\ FleetFairness
=============================================================================
