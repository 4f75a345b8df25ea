---------------------------- MODULE MCAgentTasks ----------------------------
(* Small instances of AgentTasks for TLC.                                  *)
EXTENDS AgentTasks, TLC

CONSTANTS t1, t2, k1, k2, r1, r2, q1, q2, alice

MCOneOwner == [t \in Tasks |-> alice]
MCSymmetry == Permutations(Runners) \cup Permutations(Requests) \cup Permutations(Keys)
=============================================================================
