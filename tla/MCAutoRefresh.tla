--------------------------- MODULE MCAutoRefresh ---------------------------
(* Small instances of AutoRefresh for TLC.                                 *)
EXTENDS AutoRefresh

CONSTANTS alice, bob
=============================================================================
