-------------------------- MODULE BandwidthEstimation --------------------------
(***************************************************************************)
(* What the sender's GoogCcNetworkController makes of the feedbacks: it    *)
(* collects losses for the loss-based estimate, runs the delay-based one,  *)
(* lets a probe's result override both, and tells the program a new target *)
(* when a feedback had a received packet.  What the filters measure (round *)
(* trip time, acknowledged rate, results of probes) is the environment's.  *)
(***************************************************************************)
EXTENDS AimdRateControl

CONSTANTS
  StartBitrate,  \* InitialAvailableBitrate, bps
  PacketLength,  \* bytes of a packet (1312 in the code)
  Reports,       \* what a feedback may report, see EstimationConstants
  Elapsed,       \* ms between two feedbacks
  MaxReports     \* bound: feedbacks in a behaviour

\* A report tells of packets received and lost (only those that the history still
\* knows); the measurements come with a received packet only.
ASSUME EstimationConstants ==
  /\ StartBitrate \in MinBitrate .. MaxBitrate
  /\ PacketLength \in Nat
  /\ \A r \in Reports :
       /\ r.received \in Nat /\ r.lost \in Nat /\ r.received + r.lost > 0
       /\ r.rtt \in Nat /\ r.acked \in Nat /\ r.probe \in Nat
  /\ Elapsed \subseteq Nat
  /\ MaxReports \in Nat

VARIABLES
  b,        \* bandwidth_estimation_
  a,        \* the rate control of delay_based_bwe_
  pending,  \* lost_ and expected_packets_since_last_loss_update_
  nextLoss, \* next_loss_update_
  told,     \* last_estimated_bitrate_bps_: the target given to the program
  now,      \* time of the last feedback
  report,   \* the last report, or NoReport (history)
  reported, \* packets reported lost and expected so far (history)
  decided,  \* those of them that went into a loss rate (history)
  moved,    \* when the loss-based part last moved the estimate, or Unset (history)
  reports   \* feedbacks so far (bounds the model)

controller == <<b, a, pending, nextLoss, told>>
vars == <<controller, now, report, reported, decided, moved, reports>>

kLossUpdateInterval == 1000

NoReport == [received |-> 0, lost |-> 0, rtt |-> 0, acked |-> NoRate, probe |-> NoRate]
Nothing == [lost |-> 0, expected |-> 0]
Plus(x, lost, expected) == [lost |-> x.lost + lost, expected |-> x.expected + expected]

TypeOK ==
  /\ b.current \in Nat /\ b.delayBased \in Nat /\ b.loss \in 0 .. 255 /\ b.rtt \in Nat
  /\ b.lost \in 0 .. b.expected /\ b.expected \in 0 .. kLimitNumPackets - 1
  /\ b.hasDecreased \in BOOLEAN
  /\ {b.first, b.report, b.decrease, moved, nextLoss} \subseteq {Unset} \cup Nat
  /\ \A i \in DOMAIN b.minHistory : b.minHistory[i] \in [time : 0 .. now, rate : Nat]
  /\ a.current \in Nat /\ a.state \in {"Hold", "Increase"} /\ a.throughput \in Nat
  /\ pending.lost \in 0 .. pending.expected
  /\ told \in Nat /\ now \in Nat /\ reports \in 0 .. MaxReports

\* OnProcessInterval, once at the start: ResetConstraints, UpdateEstimate.
Init ==
  /\ b = UpdateEstimate(SetSendBitrate(NewEstimation(NoRate), StartBitrate), 0)
  /\ a = SetStartBitrate(StartBitrate)
  /\ pending = Nothing
  /\ nextLoss = Unset
  /\ told = CurrentEstimate(b)
  /\ now = 0
  /\ report = NoReport
  /\ reported = Nothing /\ decided = Nothing
  /\ moved = Unset
  /\ reports = 0

\* (Faulty variant: losses are passed on with every feedback.)
LossDueAlways(t) == TRUE

LossDue(t) == nextLoss = Unset \/ t > nextLoss

\* The estimation after the losses of report r: they are passed on once a second.
WithLosses(e, r, t) ==
  LET total == Plus(pending, r.lost, r.received + r.lost)
  IN IF LossDue(t) THEN UpdatePacketsLost(e, total.lost, total.expected, t) ELSE e

Collect(r, t) ==
  /\ pending' = IF LossDue(t) THEN Nothing ELSE Plus(pending, r.lost, r.received + r.lost)
  /\ nextLoss' = IF LossDue(t) THEN t + kLossUpdateInterval ELSE nextLoss

\* The estimation after the delay-based part's result: a probe's sets the rate.
WithResult(e, r, t) ==
  LET target == TargetBitrate(a, r.acked, r.probe, t)
      set == IF r.probe # NoRate THEN SetSendBitrate(e, target) ELSE e
  IN UpdateDelayBasedEstimate(set, target)

\* (Faulty variant: only a changed delay-based estimate counts as an update.)
FollowResultChanged(r, t, measured) ==
  /\ b' = WithResult(measured, r, t)
  /\ a' = Controlled(a, r.acked, r.probe, t)
  /\ told' = IF a'.current # a.current THEN CurrentEstimate(b') ELSE told

\* With a received packet the delay-based part always has a result, and the
\* program is told what comes out.
FollowResult(r, t, measured) ==
  /\ b' = WithResult(measured, r, t)
  /\ a' = Controlled(a, r.acked, r.probe, t)
  /\ told' = CurrentEstimate(b')

\* Without one there is no result: a change by the losses is not told.
KeepTarget(measured) == b' = measured /\ UNCHANGED <<a, told>>

\* The histories: what was decided on is what the accumulators no longer hold.
Account(r, t, measured) ==
  /\ report' = r
  /\ reported' = Plus(reported, r.lost, r.received + r.lost)
  /\ decided' = IF measured.report = t /\ LossDue(t)
                THEN Plus(decided, pending.lost + b.lost + r.lost,
                          pending.expected + b.expected + r.received + r.lost)
                ELSE decided
  /\ moved' = IF measured.current # b.current THEN t ELSE moved

OnTransportPacketsFeedback(r, t) ==
  LET measured == WithLosses(UpdateRtt(b, r.rtt), r, t)
  IN /\ Collect(r, t)
     /\ Account(r, t, measured)
     /\ \/ r.received > 0 /\ FollowResult(r, t, measured)
        \/ r.received = 0 /\ KeepTarget(measured)

Next ==
  \E r \in Reports, ms \in Elapsed :
    /\ reports < MaxReports
    /\ OnTransportPacketsFeedback(r, now + ms)
    /\ now' = now + ms
    /\ reports' = reports + 1

Spec == Init /\ [][Next]_vars

--------------------------------------------------------------------------------
(* Properties *)

Probed == report'.probe # NoRate /\ report'.received > 0

\* Whatever the order of loss reports, delay-based results and probes, the
\* estimate stays between the limits, and below the delay-based estimate as soon
\* as there is one; the rate control never goes below the least bitrate.
EstimateCapped ==
  /\ b.current \in MinBitrate .. MaxBitrate
  /\ b.delayBased > NoRate => b.current <= AtLeast(b.delayBased, MinBitrate)
  /\ a.current >= MinBitrate

\* A packet reported goes into exactly one loss rate: through the two
\* accumulators, the once-a-second hand-over and the wait for 20 packets, none is
\* forgotten and none counted twice.
PacketsConserved ==
  /\ reported.expected = decided.expected + pending.expected + b.expected
  /\ reported.lost = decided.lost + pending.lost + b.lost

\* The program's target is the estimate, unless the last feedback reported losses
\* only: then it may lag behind, until a packet is received.
TargetInStep == report.received > 0 \/ reports = 0 => told = CurrentEstimate(b)

\* The loss-based part moves the estimate at most once a second, whatever the
\* feedbacks' pace: this is what keeps a rise below 8% and 1 kbps a second (but
\* for the first two seconds without loss, when it follows the delay-based
\* estimate), and a fall above half a second apart from the one before.
MovesApart ==
  [][moved' # moved =>
       /\ moved = Unset \/ moved' - moved > kLossUpdateInterval
       /\ ~Probed => \/ b'.current <= EightPercentMore(b.current) + 1000
                     \/ b'.loss = 0 /\ IsInStartPhase(b, now')
       /\ ~Probed => 2 * b'.current >= b.current - 1]_vars

\* An estimate falls only for a loss rate above 10% or to a probe's result: as
\* the program is built, no delay, however long it grows, takes the rate down.
NoFallForDelay ==
  [][/\ Probed \/ a'.current >= a.current
     /\ b'.current < b.current => Probed \/ b'.loss > highLossThreshold]_vars

\* "Add 1 kbps extra, just to make sure that we do not get stuck": a fifth of the
\* target, the bytes the pacing loop has for a second, exceeds a packet.  Where it
\* does not, nothing is sent, so that no feedback comes and the target stays.
NeverStuck == told \div 5 > PacketLength
================================================================================
