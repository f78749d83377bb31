---------------------------- MODULE SendSideBandwidth ----------------------------
(***************************************************************************)
(* SendSideBandwidthEstimation as functions on a record: the estimate that *)
(* loss reports move up and down, below what the delay-based estimate      *)
(* allows.  Rates are in bits per second, times in milliseconds.  Left out *)
(* is what this program never turns on: REMB, the loss-based field trial,  *)
(* the backoff on the round trip time and the feedback timeout.            *)
(***************************************************************************)
EXTENDS Integers, Sequences, FiniteSets

CONSTANTS
  MinBitrate,  \* min_bitrate_configured_ (5000 in the code)
  MaxBitrate   \* max_bitrate_configured_ (10^9)

ASSUME LimitsAssumption ==
  /\ MinBitrate \in Nat \ {0} /\ MaxBitrate \in Nat
  /\ MinBitrate <= MaxBitrate

kBweIncreaseInterval == 1000
kBweDecreaseInterval == 300
kStartPhase == 2000
kLimitNumPackets == 20
\* Losses of at most 2% and 10%, in 256ths.
lowLossThreshold == 5
highLossThreshold == 25

Unset == -1
NoRate == 0

AtMost(a, b) == IF a < b THEN a ELSE b
AtLeast(a, b) == IF a > b THEN a ELSE b

\* 8% and a rounding half of a rate; (512 - loss) / 512 of a rate, in parts that
\* stay below 2^31.
EightPercentMore(rate) == rate + (8 * rate + 50) \div 100
LessLoss(rate, loss) ==
  (rate \div 512) * (512 - loss) + ((rate % 512) * (512 - loss)) \div 512

(* The record: current (current_bitrate_), delayBased, minHistory, lost and   *)
(* expected (since the last loss update), loss (last_fraction_loss_), rtt,    *)
(* first (first_report_time_), report (last_loss_packet_report_), decrease    *)
(* (time_last_decrease_) and hasDecreased.                                    *)
NewEstimation(rate) ==
  [current |-> rate, delayBased |-> NoRate, minHistory |-> <<>>, lost |-> 0,
   expected |-> 0, loss |-> 0, rtt |-> 0, first |-> Unset, report |-> Unset,
   decrease |-> Unset, hasDecreased |-> FALSE]

\* (Faulty variant: the lower limit is applied first.)
CappedMinFirst(b, rate) ==
  LET least == AtLeast(MinBitrate, AtMost(MaxBitrate, rate))
  IN IF b.delayBased > NoRate THEN AtMost(b.delayBased, least) ELSE least

\* What CapBitrateToThresholds leaves of a rate.
Capped(b, rate) ==
  LET allowed == IF b.delayBased > NoRate THEN AtMost(b.delayBased, rate) ELSE rate
  IN AtLeast(MinBitrate, AtMost(MaxBitrate, allowed))

CapBitrateToThresholds(b, rate) == [b EXCEPT !.current = Capped(b, rate)]

SetSendBitrate(b, rate) ==
  [CapBitrateToThresholds([b EXCEPT !.delayBased = NoRate], rate)
    EXCEPT !.minHistory = <<>>]

UpdateDelayBasedEstimate(b, rate) ==
  CapBitrateToThresholds([b EXCEPT !.delayBased = rate], b.current)

UpdateRtt(b, rtt) == IF rtt > 0 THEN [b EXCEPT !.rtt = rtt] ELSE b

\* CurrentEstimate
CurrentEstimate(b) == AtLeast(b.current, MinBitrate)

IsInStartPhase(b, t) == b.first = Unset \/ t - b.first < kStartPhase

\* Values older than a second leave at the front, then values not below the
\* current one at the back; the history is in order of time and of rate.
UpdateMinHistory(b, t) ==
  LET h == b.minHistory
      old == {i \in DOMAIN h : t - h[i].time + 1 > kBweIncreaseInterval}
      high == {i \in DOMAIN h : b.current <= h[i].rate}
      kept == SubSeq(h, Cardinality(old) + 1,
                     AtLeast(Len(h) - Cardinality(high), Cardinality(old)))
  IN [b EXCEPT !.minHistory = Append(kept, [time |-> t, rate |-> b.current])]

MayDecrease(b, t) ==
  /\ ~b.hasDecreased
  /\ \/ b.decrease = Unset
     \/ t - b.decrease >= kBweDecreaseInterval + b.rtt

\* The branches of UpdateEstimate on the loss, once the minimum is up to date.
Increase(b) ==
  CapBitrateToThresholds(b, EightPercentMore(Head(b.minHistory).rate) + 1000)

Decrease(b, t) ==
  CapBitrateToThresholds([b EXCEPT !.decrease = t, !.hasDecreased = TRUE],
                         LessLoss(b.current, b.loss))

ReactToLoss(b, t) ==
  CASE b.loss <= lowLossThreshold -> Increase(b)
    [] b.loss > highLossThreshold /\ MayDecrease(b, t) -> Decrease(b, t)
    [] OTHER -> CapBitrateToThresholds(b, b.current)

\* UpdateEstimate.  It is called when a loss report was just taken, so that the
\* report is never older than the feedback interval, or before any.
UpdateEstimate(b, t) ==
  LET trusted == AtLeast(b.delayBased, b.current)
      recent == UpdateMinHistory(b, t)
  IN IF b.loss = 0 /\ IsInStartPhase(b, t) /\ trusted # b.current
     THEN CapBitrateToThresholds(
            [b EXCEPT !.minHistory = << [time |-> t, rate |-> b.current] >>], trusted)
     ELSE IF b.report = Unset THEN CapBitrateToThresholds(recent, b.current)
     ELSE ReactToLoss(recent, t)

\* (Faulty variant: nothing keeps the fraction in its 8 bits.)
FractionLossUncapped(lost, expected) == (lost * 256) \div expected

FractionLoss(lost, expected) == AtMost((lost * 256) \div expected, 255)

\* (Faulty variant: packets too few for a loss rate are forgotten.)
UpdatePacketsLostForgets(b, packetsLost, number, t) ==
  LET lost == b.lost + packetsLost
      expected == b.expected + number
      first == IF b.first = Unset THEN t ELSE b.first
  IN IF expected < kLimitNumPackets
     THEN [b EXCEPT !.first = first]
     ELSE UpdateEstimate([b EXCEPT !.first = first, !.lost = 0, !.expected = 0,
                                   !.hasDecreased = FALSE, !.report = t,
                                   !.loss = FractionLoss(lost, expected)], t)

UpdatePacketsLost(b, packetsLost, number, t) ==
  LET lost == b.lost + packetsLost
      expected == b.expected + number
      first == IF b.first = Unset THEN t ELSE b.first
  IN CASE number = 0 -> [b EXCEPT !.first = first]
       [] number > 0 /\ expected < kLimitNumPackets ->
            [b EXCEPT !.first = first, !.lost = lost, !.expected = expected]
       [] OTHER ->
            UpdateEstimate([b EXCEPT !.first = first, !.lost = 0, !.expected = 0,
                                     !.hasDecreased = FALSE, !.report = t,
                                     !.loss = FractionLoss(lost, expected)], t)
================================================================================
