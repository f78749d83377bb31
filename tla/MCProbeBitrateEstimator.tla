------------------------ MODULE MCProbeBitrateEstimator ------------------------
(* Instance of ProbeBitrateEstimator for TLC. *)
EXTENDS ProbeBitrateEstimator

\* A packet overtaken, and gaps of which two make more than a second.
Sends == {-3, 600}
\* Late, soon, more than half a second later, and after a silence.
Receives == {-700, 2, 600, 1001}
================================================================================
