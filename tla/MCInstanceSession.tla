------------------------- MODULE MCInstanceSession -------------------------
(* Model checking instance of InstanceSession: all parameters are numbers. *)
EXTENDS InstanceSession
=============================================================================
