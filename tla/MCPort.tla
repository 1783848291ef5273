------------------------------- MODULE MCPort -------------------------------
(* Three tasks on the port for the model checker.                          *)
EXTENDS Port

CONSTANTS a, b, c
=============================================================================
