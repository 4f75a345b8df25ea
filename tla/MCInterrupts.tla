---------------------------- MODULE MCInterrupts ----------------------------
(* Small fleets for model-checking Interrupts and TaskSessions.             *)
EXTENDS Interrupts

CONSTANTS j1, j2, c1, c2, alice, bob, w1, w2, w3, a1, a2, b1, d1

MCPortOf == [p \in Procs |-> CASE p \in {a1, a2} -> w1 [] p = b1 -> w2 [] OTHER -> w3]
MCPidOf == [p \in Procs |-> p]
MCUnpooled == [p \in Procs |-> "default"]
MCNoLimits == [c \in {} |-> 0]
MCChildOf == [j \in Parents |-> IF j = j1 THEN c1 ELSE c2]

(* The fleet is up, on a1 first, before the first prompt, which is j1, of   *)
(* alice; how an execution ends makes no difference here.                   *)
MCInOrder ==
  /\ phase'[b1] # "new" => phase[a1] # "new"
  /\ status'[j1] # "absent" => phase[b1] # "new" /\ job'[j1].owner = alice
  /\ status'[j2] # "absent" => status[j1] # "absent"
  /\ phase'[a2] # "new" => status[j1] # "absent"
  /\ \A p \in Procs : phase'[p] = "finishing" => ok'[p]
MCSpec == /\ InterruptsInit /\ [][InterruptsNext /\ MCInOrder]_interruptVars
          /\ SessionFairness
=============================================================================
