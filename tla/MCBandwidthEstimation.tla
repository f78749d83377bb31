------------------------- MODULE MCBandwidthEstimation -------------------------
(* Instances of BandwidthEstimation for TLC. *)
EXTENDS BandwidthEstimation

Report(received, lost, rtt, acked, probe) ==
  [received |-> received, lost |-> lost, rtt |-> rtt, acked |-> acked, probe |-> probe]

\* Enough packets for a loss rate, of 0 and of 30%, too few, only losses; rates
\* acknowledged below and above the estimate; probes below the least bitrate and
\* above the largest; a round trip that puts off the next decrease.
MixedReports ==
  { Report(20, 0, 100, 3000000, NoRate), Report(20, 0, 100, 100000, NoRate),
    Report(14, 6, 900, 100000, NoRate), Report(7, 1, 100, NoRate, NoRate),
    Report(0, 4, 0, NoRate, NoRate), Report(20, 0, 100, 100000, 4000),
    Report(20, 1, 100, 100000, 1500000) }

\* Feedbacks of which no or most packets are lost.
LossyReports ==
  { Report(20, 0, 100, 600000, NoRate), Report(2, 18, 100, 600000, NoRate) }
================================================================================
