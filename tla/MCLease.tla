------------------------------- MODULE MCLease -------------------------------
(* Lease with model values for TLC.                                        *)
EXTENDS Lease

CONSTANTS w1, w2, i1, i2
=============================================================================
