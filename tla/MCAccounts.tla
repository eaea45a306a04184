----------------------------- MODULE MCAccounts -----------------------------
(* One tenant administrator, two replicas and two addresses for the bootstrap, *)
(* two requests at a time.                                                     *)
EXTENDS Accounts, TLC

CONSTANTS a1, b1, b2, r1, r2, c1, c2

Symmetry == Permutations(Roots) \cup Permutations(Replicas) \cup Permutations(Calls)
=============================================================================
