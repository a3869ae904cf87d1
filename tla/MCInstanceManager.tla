-------------------------- MODULE MCInstanceManager --------------------------
(* Model checking instance of InstanceManager: the uuids are model values. *)
EXTENDS InstanceManager
=============================================================================
