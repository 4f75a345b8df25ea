--------------------------- MODULE MCCloudArchive ---------------------------
(* Small instances of CloudArchive for TLC.                                *)
EXTENDS CloudArchive, TLC

CONSTANTS t1, t2, a1, a2, c1, c2, op, nobody, nothing

MCOneOutput  == a1 :> t1
MCTwoOutputs == a1 :> t1 @@ a2 :> t1

MCSymmetry == Permutations({c1, c2}) \cup Permutations({a1, a2})

(* What the next steps and the safety properties can tell apart: how a job  *)
(* ended makes no difference to the archive; the attempts of an output are  *)
(* only looked at by a thread that works on it, until it is claimed again   *)
(* from a row that is not settled, and only compared with the limit.        *)
MCAttempts(a) ==
  LET n == art[a].tries IN
  IF art[a].status \in Settled /\ \A c \in Threads : ~OnArt(c, a) THEN 0
  ELSE IF n < MaxAttempts THEN n ELSE MaxAttempts
MCView ==
  <<{t \in Tasks : job[t] = "open"}, [a \in Arts |-> [art[a] EXCEPT !.tries = MCAttempts(a)]],
    stage, history, task, threadVars, missed, plan, ossVars, auxVars, bounds>>
=============================================================================
