--------------------------- MODULE MCProbeController ---------------------------
(* Instances of ProbeController for TLC. *)
EXTENDS ProbeController
=============================================================================
