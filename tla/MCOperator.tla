----------------------------- MODULE MCOperator -----------------------------
(* Values of the constants for TLC. *)
EXTENDS Operator
=============================================================================
