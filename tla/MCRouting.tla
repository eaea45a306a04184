------------------------------ MODULE MCRouting ------------------------------
(* Two workers, a lease that changes hands once, two calls that set passive   *)
(* mode and one other command.                                                *)
EXTENDS Routing, TLC

CONSTANTS w1, w2, c1, c2, c3

\* Two calls that race for the owner; one that meets a failure; passive mode set
\* once across two connections; passive mode set by two at a time on one
MCBudgets == {[terms |-> 2, set |-> 1, ask |-> 1, links |-> 0, failures |-> 0],
              [terms |-> 2, set |-> 0, ask |-> 1, links |-> 0, failures |-> 1],
              [terms |-> 2, set |-> 1, ask |-> 0, links |-> 2, failures |-> 1],
              [terms |-> 1, set |-> 2, ask |-> 0, links |-> 1, failures |-> 0]}

Symmetry == Permutations(Workers) \cup Permutations(Setters)
=============================================================================
