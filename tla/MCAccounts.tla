----------------------------- MODULE MCAccounts -----------------------------
(* Small instances of Accounts for TLC.                                    *)
EXTENDS Accounts, TLC

CONSTANTS p1, p2, ann, ben, a1, a2

Symmetry == Permutations(Instances) \cup Permutations(Names) \cup Permutations(Addresses)
=============================================================================
