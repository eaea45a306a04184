------------------------------- MODULE MCPairing -------------------------------
(* Pairing with model values for TLC. *)
EXTENDS Pairing, TLC

CONSTANTS c1, c2, c3, n1, n2

\* Commands are interchangeable; used by the safety runs only.
Symmetry == Permutations(Calls) \cup Permutations(Numbers)
=============================================================================
