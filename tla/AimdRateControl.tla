---------------------------- MODULE AimdRateControl ----------------------------
(***************************************************************************)
(* AimdRateControl and DelayBasedBwe as this program runs them, as         *)
(* functions on a record.  TrendlineEstimator::Update no longer calls      *)
(* Detect (the call is commented out) and there is no predictor, so that   *)
(* the detector's state is always kBwNormal: the branches for over-use and *)
(* under-use, the state kRcDecrease, the link capacity estimate that only  *)
(* an over-use sets, and the additive increase that needs it are never     *)
(* reached, and are left out.                                              *)
(***************************************************************************)
EXTENDS SendSideBandwidth

(* The record: current (current_bitrate_), state (rate_control_state_),       *)
(* changed (time_last_bitrate_change_) and throughput                         *)
(* (latest_estimated_throughput_).                                            *)
SetStartBitrate(rate) ==
  [current |-> rate, state |-> "Hold", changed |-> Unset, throughput |-> rate]

\* (Faulty variant: the clamp also takes down what is there.)
ClampBitrateDown(a, rate, throughput) ==
  AtLeast(AtMost(rate, throughput + throughput \div 2 + 10000), MinBitrate)

\* An estimate may not rise above what 1.5 times the throughput allows, but one
\* that is there already may stay.
ClampBitrate(a, rate, throughput) ==
  LET most == throughput + throughput \div 2 + 10000
      kept == IF rate > a.current /\ rate > most THEN AtLeast(a.current, most) ELSE rate
  IN AtLeast(kept, MinBitrate)

\* 1.08 ^ s - 1 for the s seconds passed, at most one, by its chord 0.08 * s (at
\* most 0.0008 above it); in parts that stay below 2^31.
MultiplicativeRateIncrease(a, t) ==
  LET ms == IF a.changed = Unset THEN 1000 ELSE AtMost(t - a.changed, 1000)
  IN AtLeast(((a.current \div 1000) * 8 * ms) \div 100, 1000)

\* Update without an over-use: Hold goes to Increase, as of now, and the rate
\* rises.
ChangeBitrate(a, acked, t) ==
  LET throughput == IF acked = NoRate THEN a.throughput ELSE acked
      held == IF a.state = "Hold" THEN [a EXCEPT !.changed = t] ELSE a
      risen == a.current + MultiplicativeRateIncrease(held, t)
  IN [current |-> ClampBitrate(a, risen, throughput), state |-> "Increase",
      changed |-> t, throughput |-> throughput]

SetEstimate(a, rate, t) ==
  [a EXCEPT !.current = ClampBitrate(a, rate, rate), !.changed = t]

\* IncomingPacketFeedbackVector and MaybeUpdateEstimate, for a feedback that has
\* a received packet: what is left of the controller, and the result's target.
Controlled(a, acked, probe, t) ==
  IF probe # NoRate THEN SetEstimate(a, probe, t) ELSE ChangeBitrate(a, acked, t)

TargetBitrate(a, acked, probe, t) ==
  IF probe # NoRate THEN probe ELSE ChangeBitrate(a, acked, t).current
================================================================================
