--------------------------- MODULE MCApiRecovery ---------------------------
(* Small instances of ApiRecovery for TLC.                                 *)
EXTENDS ApiRecovery

CONSTANTS j1, c1, c2, i1, i2

(* Both calls were made for the one job.                                    *)
MCJobOf == [c \in Calls |-> j1]
=============================================================================
