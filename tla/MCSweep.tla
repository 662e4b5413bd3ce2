------------------------------ MODULE MCSweep ------------------------------
(* Sweep on small instances: see the MCSweep*.cfg files. *)
EXTENDS Sweep
=============================================================================
