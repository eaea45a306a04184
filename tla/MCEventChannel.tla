---------------------------- MODULE MCEventChannel ----------------------------
(* EventChannel with model values for TLC. *)
EXTENDS EventChannel

CONSTANTS p1, p2
=============================================================================
