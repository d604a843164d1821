------------------------------ MODULE MCGates ------------------------------
(* Two places to call from and two values to tell registers apart. *)
EXTENDS Exceptions
=============================================================================
