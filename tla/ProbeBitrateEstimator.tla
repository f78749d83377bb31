-------------------------- MODULE ProbeBitrateEstimator --------------------------
(***************************************************************************)
(* ProbeBitrateEstimator, fed with the packets that feedbacks report       *)
(* received.  main.cpp stamps every packet with the same probe cluster, of *)
(* no least number of packets and 600000 bytes, so that all of the stream  *)
(* is one probe: there is one cluster, and nothing but a silence ends it.  *)
(* Send times are those of OnPacketSend, receive times the receiver's;     *)
(* both are counted from those of the packet first reported.               *)
(***************************************************************************)
EXTENDS Integers, Sequences, FiniteSetsExt

CONSTANTS
  PacketLength,  \* bytes of a packet (1312 in the code)
  MinBytes,      \* probe_cluster_min_bytes (600000)
  SendSteps,     \* ms from the latest send time to the next packet's
  ReceiveSteps,  \* ms from the latest receive time to the next packet's
  MaxReported,   \* bound: packets of a feedback
  MaxPackets     \* bound: packets reported in a behaviour

ASSUME ProbeConstants ==
  /\ PacketLength \in Nat \ {0} /\ MinBytes \in Nat
  /\ (MinBytes * 8) \div 10 > PacketLength
  /\ SendSteps \subseteq Int /\ ReceiveSteps \subseteq Int
  /\ MaxReported \in Nat /\ MaxPackets \in Nat

VARIABLES
  cluster,   \* the cluster 1 of clusters_, or NoCluster
  probe,     \* what FetchAndResetLastEstimatedBitrate gave for the last feedback
  arrivals,  \* the packets handled so far, in order (history)
  members    \* those of them since the last silence (history)

vars == <<cluster, probe, arrivals, members>>

kMaxClusterHistory == 1000
kMaxProbeInterval == 1000

NoCluster == [none |-> TRUE]
NoRate == 0

\* Bits per second of some bytes in some ms.
RateOf(bytes, ms) == (bytes * 8000) \div ms

--------------------------------------------------------------------------------
(* HandleProbeAndEstimateBitrate on packet x: [send, receive]                 *)

\* (Faulty variant: clusters are as old as their first packet.)
EraseOldClustersByFirst(c, timestamp) ==
  IF c # NoCluster /\ c.firstReceive + kMaxClusterHistory < timestamp
  THEN NoCluster ELSE c

EraseOldClusters(c, timestamp) ==
  IF c # NoCluster /\ c.lastReceive + kMaxClusterHistory < timestamp
  THEN NoCluster ELSE c

\* (Faulty variant: the order of reports is taken for the order of receipt.)
AggregateInOrder(c, x) ==
  IF c = NoCluster
  THEN [firstSend |-> x.send, lastSend |-> x.send, firstReceive |-> x.receive,
        lastReceive |-> x.receive, total |-> PacketLength]
  ELSE [c EXCEPT !.lastSend = x.send, !.lastReceive = x.receive,
                 !.total = @ + PacketLength]

Aggregate(c, x) ==
  IF c = NoCluster
  THEN [firstSend |-> x.send, lastSend |-> x.send, firstReceive |-> x.receive,
        lastReceive |-> x.receive, total |-> PacketLength]
  ELSE [firstSend |-> IF x.send < c.firstSend THEN x.send ELSE c.firstSend,
        lastSend |-> IF x.send > c.lastSend THEN x.send ELSE c.lastSend,
        firstReceive |-> IF x.receive < c.firstReceive THEN x.receive
                         ELSE c.firstReceive,
        lastReceive |-> IF x.receive > c.lastReceive THEN x.receive
                        ELSE c.lastReceive,
        total |-> c.total + PacketLength]

\* (Faulty variant: the packet that opens or ends an interval is counted in.)
RateOverAll(c, interval) == RateOf(c.total, interval)

\* The interval does not include the time of its last (first) packet.
RateOver(c, interval) == RateOf(c.total - PacketLength, interval)

ValidInterval(interval) == interval > 0 /\ interval <= kMaxProbeInterval

Enough(c) == c.total >= (MinBytes * 8) \div 10
Sent(c) == c.lastSend - c.firstSend
Received(c) == c.lastReceive - c.firstReceive

\* Of two valid rates the smaller one, or 95% of the receive rate if that is well
\* below the send rate; no result if more than twice the send rate is received.
ResultOf(sendRate, receiveRate) ==
  CASE receiveRate > 2 * sendRate -> NoRate
    [] 10 * receiveRate < 9 * sendRate -> (19 * receiveRate) \div 20
    [] OTHER -> IF sendRate < receiveRate THEN sendRate ELSE receiveRate

EstimateOf(c) ==
  IF Enough(c) /\ ValidInterval(Sent(c)) /\ ValidInterval(Received(c))
  THEN ResultOf(RateOver(c, Sent(c)), RateOver(c, Received(c)))
  ELSE NoRate

HandleProbeAndEstimateBitrate(acc, x) ==
  LET aggregated == Aggregate(EraseOldClusters(acc.cluster, x.receive), x)
      estimate == EstimateOf(aggregated)
  IN [cluster |-> aggregated,
      rate |-> IF estimate = NoRate THEN acc.rate ELSE estimate]

--------------------------------------------------------------------------------
(* The received packets of a feedback, sorted by receive time, one by one, and  *)
(* then FetchAndResetLastEstimatedBitrate                                       *)

\* What is left after each of packets, the first of which finds cluster c.
AfterEach(c, packets) ==
  LET after[k \in 0 .. Len(packets)] ==
        IF k = 0 THEN [cluster |-> c, rate |-> NoRate]
        ELSE HandleProbeAndEstimateBitrate(after[k - 1], packets[k])
  IN after

SendTimes(packets) == {packets[i].send : i \in DOMAIN packets}
ReceiveTimes(packets) == {packets[i].receive : i \in DOMAIN packets}

\* A received packet, after those of packets.
PacketsAfter(packets) ==
  IF packets = <<>> THEN {[send |-> 0, receive |-> 0]}
  ELSE {[send |-> Max(SendTimes(packets)) + s, receive |-> Max(ReceiveTimes(packets)) + r] :
          s \in SendSteps, r \in ReceiveSteps}

\* The packets since the last silence, with one more.
Joined(packets, x) ==
  IF packets # <<>> /\ Max(ReceiveTimes(packets)) + kMaxClusterHistory < x.receive
  THEN <<x>> ELSE Append(packets, x)

\* ... and with each of more.
JoinedEach(packets, more) ==
  LET joined[k \in 0 .. Len(more)] ==
        IF k = 0 THEN packets ELSE Joined(joined[k - 1], more[k])
  IN joined

OnTransportPacketsFeedback(feedbacks) ==
  LET handled == AfterEach(cluster, feedbacks)[Len(feedbacks)]
  IN /\ cluster' = handled.cluster
     /\ probe' = handled.rate
     /\ arrivals' = arrivals \o feedbacks
     /\ members' = JoinedEach(members, feedbacks)[Len(feedbacks)]

Init ==
  /\ cluster = NoCluster
  /\ probe = NoRate
  /\ arrivals = <<>> /\ members = <<>>

\* The received packets a feedback may report, by their number.
Feedbacks[n \in 0 .. MaxReported] ==
  IF n = 0 THEN {<<>>}
  ELSE UNION {{Append(q, x) : x \in {y \in PacketsAfter(arrivals \o q) :
                                     q # <<>> => y.receive >= q[n - 1].receive}} :
                q \in Feedbacks[n - 1]}

Next ==
  \E n \in 1 .. MaxReported :
    /\ Len(arrivals) + n <= MaxPackets
    /\ \E feedbacks \in Feedbacks[n] : OnTransportPacketsFeedback(feedbacks)

Spec == Init /\ [][Next]_vars

--------------------------------------------------------------------------------
(* Properties *)

TypeOK ==
  /\ cluster # NoCluster =>
       /\ {cluster.firstSend, cluster.lastSend, cluster.firstReceive,
           cluster.lastReceive} \subseteq Int
       /\ Sent(cluster) >= 0 /\ Received(cluster) >= 0
       /\ cluster.total \in Nat \ {0}
  /\ probe \in Nat

\* However late or out of order the feedbacks come, the cluster describes exactly
\* the packets since the last second in which nothing was received: its ends are
\* their extremes, its bytes theirs.
ClusterExact ==
  members # <<>> =>
    cluster = [firstSend |-> Min(SendTimes(members)), lastSend |-> Max(SendTimes(members)),
               firstReceive |-> Min(ReceiveTimes(members)),
               lastReceive |-> Max(ReceiveTimes(members)),
               total |-> Len(members) * PacketLength]

\* Packet m is received after more than a second of silence, or is the first.
StartsStream(packets, m) ==
  m = 1 \/ packets[m].receive >
             Max(ReceiveTimes(SubSeq(packets, 1, m - 1))) + kMaxClusterHistory

\* As all of the stream is one cluster, an uninterrupted stream is measured in its
\* first second only: a result is at most the rate at which the packets from the
\* first one after a silence to one of this feedback's were received, the first
\* not counted, within a second.
ResultOfFirstSecond ==
  [][probe' # NoRate =>
       \E n \in Len(arrivals) + 1 .. Len(arrivals') : \E m \in 1 .. n - 1 :
         LET times == ReceiveTimes(SubSeq(arrivals', m, n))
             span == Max(times) - Min(times)
         IN /\ StartsStream(arrivals', m)
            /\ span \in 1 .. kMaxProbeInterval
            /\ probe' <= RateOf((n - m) * PacketLength, span)]_vars
================================================================================
