------------------------------- MODULE MCTimer ------------------------------
(* Instances of Timer for the model checker.                               *)
EXTENDS Timer

CONSTANTS t1, t2, t3
=============================================================================
