----------------------------- MODULE MCPacingLoop -----------------------------
(* Instances of PacingLoop for TLC. *)
EXTENDS PacingLoop

\* Iterations of 1 and of 3 ms, and the wall clock set back by more than a second.
Steps == {1, 3, -20}
=============================================================================
