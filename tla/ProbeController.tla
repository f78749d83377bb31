---------------------------- MODULE ProbeController ----------------------------
(***************************************************************************)
(* What the sender does with a new bandwidth estimate: the network         *)
(* controller's decision to probe for more (ProbeController), the pacer's  *)
(* queue of probe clusters (BitrateProber), and the report of the target   *)
(* rate to the server (CongestionControlHandler).  The estimate itself,    *)
(* its quality (loss and round trip time), the recovery from overuse and   *)
(* the application limited region (ALR) are the environment's: any of them *)
(* may come, also a recovery, which BandwidthEstimation's detector, whose  *)
(* state never changes, does not report in the program as it is built.     *)
(*                                                                         *)
(* This program processes the interval once, when it registers its         *)
(* observer: nothing calls RtpTransportControllerSend::Process.            *)
(***************************************************************************)
EXTENDS Integers, Sequences, SequencesExt

CONSTANTS
  StartBitrate,  \* InitialAvailableBitrate, bps
  Rates,         \* bandwidth estimates, bps
  Qualities,     \* loss and round trip time
  Start,         \* wall clock at the start, ms
  Elapsed,       \* ms between two feedbacks
  MaxTime        \* bound: end of a behaviour, ms

ASSUME ProbeConstants ==
  /\ StartBitrate \in Nat \ {0} /\ Rates \subseteq Nat /\ StartBitrate \in Rates
  /\ Qualities # {}
  /\ Start \in Nat /\ Start > 5000 /\ Elapsed \subseteq Nat
  /\ MaxTime \in Nat /\ Start <= MaxTime

VARIABLES
  now,       \* wall clock
  started,   \* the first OnProcessInterval is done
  in_alr,    \* the ALR detector has a start time
  was_alr,   \* previously_in_alr_
  last,      \* last_estimated_bitrate_bps_ and its quality
  p,         \* the probe controller
  clusters,  \* clusters_ of the prober
  incoming,  \* last_incoming_ of the control handler
  reported,  \* last_reported_ of the control handler
  available, \* bitrates_.availableBitrate of the server
  probed     \* clusters created so far: kind and time (history)

handler == <<incoming, reported, available>>
vars == <<now, started, in_alr, was_alr, last, p, clusters, handler, probed>>

kExponentialProbingDisabled == 0
kMaxWaitingTimeForProbingResultMs == 1000
kDefaultMaxProbingBitrateBps == 5000000
kBitrateDropTimeoutMs == 5000
kAlrEndedTimeoutMs == 3000
kMinTimeBetweenAlrProbesMs == 5000
kProbeClusterTimeoutMs == 5000

\* With the code's start rate, twice a sufficient result of the first probes is
\* above the limit of the bitrate.
ASSUME StartIsHigh ==
  2 * ((42 * StartBitrate) \div 10 + 1) > kDefaultMaxProbingBitrateBps

NoTime == -1
None == [rate |-> 0, quality |-> 0, set |-> FALSE]
Target(rate, quality) == [rate |-> rate, quality |-> quality, set |-> TRUE]

Kinds == {"first", "further", "drop"}

TypeOK ==
  /\ now \in Start .. MaxTime
  /\ p.state \in {"Init", "WaitingForProbingResult", "ProbingComplete"}
  /\ p.min_to_probe_further = kExponentialProbingDisabled
       <=> p.state # "WaitingForProbingResult"
  /\ p.estimated = last.rate
  /\ \A i \in DOMAIN clusters :
       /\ clusters[i].rate \in 1 .. kDefaultMaxProbingBitrateBps
       /\ clusters[i].id = p.next_id - Len(clusters) + i - 1
       /\ clusters[i].created \in Start .. now
  /\ Len(probed) = p.next_id - 1

-----------------------------------------------------------------------------
(* ProbeController: functions from its state to its state; new clusters are *)
(* collected in pending.                                                    *)

\* Reset(0), in the constructor.
NewController ==
  [state |-> "Init", min_to_probe_further |-> kExponentialProbingDisabled,
   initiated |-> 0, estimated |-> 0, drop_probed |-> 0, alr_end |-> NoTime,
   drop_time |-> 0, before_drop |-> 0, next_id |-> 1, pending |-> <<>>]

\* (Faulty variant: the limit of the bitrate is forgotten.)
Unclamped(rate) == rate

Clamped(rate) ==
  IF rate > kDefaultMaxProbingBitrateBps THEN kDefaultMaxProbingBitrateBps ELSE rate

\* (Faulty variant: a probe at the limit does not end the exponential probing.)
GoesOnAlways(bitrates, further) == further

\* A bitrate that has to be clamped ends the exponential probing.
GoesOn(bitrates, further) ==
  further /\ \A i \in DOMAIN bitrates : bitrates[i] = Clamped(bitrates[i])

InitiateProbing(c, kind, bitrates, further) ==
  LET goesOn == GoesOn(bitrates, further)
  IN [c EXCEPT
       !.pending = @ \o [i \in DOMAIN bitrates |->
                           [id |-> c.next_id + i - 1, rate |-> Clamped(bitrates[i]),
                            kind |-> kind]],
       !.next_id = @ + Len(bitrates),
       !.initiated = now,
       !.state = IF goesOn THEN "WaitingForProbingResult" ELSE "ProbingComplete",
       !.min_to_probe_further =
          IF goesOn THEN (Last(bitrates) * 7) \div 10 ELSE kExponentialProbingDisabled]

\* SetBitrates and InitiateExponentialProbing, in State::kInit; there is no
\* configured maximum.
SetBitrates(c) ==
  InitiateProbing([c EXCEPT !.estimated = StartBitrate], "first",
                  <<3 * StartBitrate, 6 * StartBitrate>>, TRUE)

\* The result of a probe is high enough for another one at twice the rate.
ProbeFurther(c, rate) ==
  IF c.state = "WaitingForProbingResult" /\ rate > c.min_to_probe_further
  THEN InitiateProbing(c, "further", <<2 * rate>>, TRUE)
  ELSE c

\* A drop below 0.66 of the estimate is remembered.
NoteDrop(c, rate) ==
  IF 100 * rate < 66 * c.estimated
  THEN [c EXCEPT !.drop_time = now, !.before_drop = c.estimated]
  ELSE c

SetEstimatedBitrate(c, rate) ==
  [NoteDrop(ProbeFurther(c, rate), rate) EXCEPT !.estimated = rate]

\* 0.85 of the rate before the drop, and 0.95 of that.
Suggested(c) == (85 * c.before_drop) \div 100

\* (Faulty variant: the estimate is compared with the rate before the drop.)
ExpectedAll(c) == c.before_drop

MinExpected(c) == (95 * Suggested(c)) \div 100

AlrEndedRecently(c) ==
  c.alr_end # NoTime /\ now - c.alr_end < kAlrEndedTimeoutMs

MayProbeDrop(c) ==
  /\ in_alr \/ AlrEndedRecently(c)
  /\ c.state = "ProbingComplete"
  /\ MinExpected(c) > c.estimated
  /\ now - c.drop_time < kBitrateDropTimeoutMs
  /\ now - c.drop_probed > kMinTimeBetweenAlrProbesMs

\* (Faulty variant: that there was a probe is not remembered.)
RequestProbeForgets(c) ==
  IF MayProbeDrop(c) THEN InitiateProbing(c, "drop", <<Suggested(c)>>, FALSE) ELSE c

RequestProbe(c) ==
  IF MayProbeDrop(c)
  THEN InitiateProbing([c EXCEPT !.drop_probed = now], "drop", <<Suggested(c)>>, FALSE)
  ELSE c

-----------------------------------------------------------------------------
(* PostUpdates: the clusters go to the prober, the target to the server.    *)

Expired(cluster) == now - cluster.created > kProbeClusterTimeoutMs

\* (Faulty variant: at most one expired cluster is dropped.)
DropExpiredOnce(queue) ==
  IF queue # <<>> /\ Expired(Head(queue)) THEN Tail(queue) ELSE queue

\* The front clusters that are too old are dropped.
DropExpired(queue) ==
  LET fresh == {i \in DOMAIN queue : ~Expired(queue[i])}
      first == CHOOSE i \in fresh : \A j \in fresh : i <= j
  IN IF fresh = {} THEN <<>> ELSE SubSeq(queue, first, Len(queue))

\* CreateProbeCluster for each; the prober is active from the first one on.
CreateProbeClusters(pending) ==
  /\ clusters' = IF pending = <<>> THEN clusters
                 ELSE DropExpired(clusters) \o
                      [i \in DOMAIN pending |->
                        [id |-> pending[i].id, rate |-> pending[i].rate, created |-> now]]
  /\ probed' = probed \o [i \in DOMAIN pending |-> [kind |-> pending[i].kind, at |-> now]]

\* (Faulty variant: only a change of the quality is reported.)
UpdateDueOnQuality(target) == ~reported.set \/ reported.quality # target.quality

\* GetUpdate reports the first target and every change of rate or quality.
UpdateDue(target) ==
  \/ ~reported.set
  \/ reported.rate # target.rate
  \/ target.rate # 0 /\ reported.quality # target.quality

SetTargetRate(target) ==
  /\ incoming' = target
  /\ IF UpdateDue(target)
     THEN reported' = target /\ available' = target.rate
     ELSE UNCHANGED <<reported, available>>

\* MaybeTriggerOnNetworkChanged, for the estimate est and with the controller c
\* before it: a changed estimate is a new target and is given to the controller.
Changed(est) == est.rate # last.rate \/ est.quality # last.quality

Estimated(c, est) == IF Changed(est) THEN SetEstimatedBitrate(c, est.rate) ELSE c

Post(c, est) ==
  /\ p' = [c EXCEPT !.pending = <<>>]
  /\ CreateProbeClusters(c.pending)
  /\ IF Changed(est) THEN last' = est /\ SetTargetRate(est) ELSE UNCHANGED <<last, handler>>

-----------------------------------------------------------------------------

Init ==
  /\ now = Start
  /\ started = FALSE
  /\ in_alr = FALSE /\ was_alr = FALSE
  /\ last = None
  /\ p = NewController
  /\ clusters = <<>>
  /\ incoming = None /\ reported = None /\ available = 0
  /\ probed = <<>>

\* The only OnProcessInterval: the constraints are set, which starts the
\* exponential probing (Process finds it just started); the first estimate is
\* the start rate.
OnProcessInterval ==
  /\ ~started
  /\ started' = TRUE
  /\ \E quality \in Qualities :
       LET est == Target(StartBitrate, quality)
       IN Post(Estimated(SetBitrates(p), est), est)
  /\ UNCHANGED <<now, in_alr, was_alr>>

\* Packets are sent: the application limited region begins or ends.
OnSentPacket ==
  /\ started
  /\ in_alr' = ~in_alr
  /\ UNCHANGED <<now, started, was_alr, last, p, clusters, handler, probed>>

NoteAlr(c) == IF was_alr /\ ~in_alr THEN [c EXCEPT !.alr_end = now] ELSE c

\* A feedback, ms after the last: the estimate may be updated, and only then may
\* it have recovered from overuse, which asks for a probe.
OnTransportPacketsFeedback ==
  /\ started
  /\ was_alr' = in_alr
  /\ \/ /\ p' = NoteAlr(p)
        /\ UNCHANGED <<last, clusters, handler, probed>>
     \/ \E rate \in Rates, quality \in Qualities, recovered \in BOOLEAN :
          LET est == Target(rate, quality)
              estimated == Estimated(NoteAlr(p), est)
          IN Post(IF recovered THEN RequestProbe(estimated) ELSE estimated, est)
  /\ UNCHANGED <<now, started, in_alr>>

Tick ==
  /\ started
  /\ \E ms \in Elapsed : now + ms <= MaxTime /\ now' = now + ms
  /\ UNCHANGED <<started, in_alr, was_alr, last, p, clusters, handler, probed>>

Next == OnProcessInterval \/ OnSentPacket \/ OnTransportPacketsFeedback \/ Tick

Spec == Init /\ [][Next]_vars

-----------------------------------------------------------------------------

\* The server's rate, which the pacing loop asks for, is the last target: the
\* two filters for changes in a row lose none.
ServerFollowsTarget == started => available = last.rate /\ incoming = last

\* Exponential probing comes to an end: besides the first two clusters there is
\* at most one further one, because twice a sufficient result is above the limit.
AtMostOneFurther ==
  \A i, j \in DOMAIN probed :
    probed[i].kind = "further" /\ probed[j].kind = "further" => i = j

\* Probes after a drop are more than kMinTimeBetweenAlrProbesMs apart.
DropProbesApart ==
  \A i, j \in DOMAIN probed :
    i < j /\ probed[i].kind = "drop" /\ probed[j].kind = "drop"
      => probed[j].at - probed[i].at > kMinTimeBetweenAlrProbesMs

\* No cluster in the prober's queue is older than the time out, counted at the
\* newest: those that nobody probed with make room.
ClustersFresh ==
  \A i \in DOMAIN clusters :
    Last(clusters).created - clusters[i].created <= kProbeClusterTimeoutMs

\* "Maximum waiting time from the time of initiating probing to getting the
\* measured results back" (kMaxWaitingTimeForProbingResultMs): no later result
\* leads to a further probe.
ResultInTime ==
  \A i \in 2 .. Len(probed) :
    probed[i].kind = "further"
      => probed[i].at - probed[i - 1].at <= kMaxWaitingTimeForProbingResultMs

\* A probe after a drop never asks for more than the rate that was lost, and for
\* more than the estimate it found, unless that is at the limit already: above
\* the limit, the probe is for less than the estimate.
DropProbeBetween ==
  [][p'.drop_probed # p.drop_probed
       => /\ clusters' # <<>>
          /\ Last(clusters').rate < p'.before_drop
          /\ \/ Last(clusters').rate > p'.estimated
             \/ p'.estimated >= kDefaultMaxProbingBitrateBps]_vars
=============================================================================
