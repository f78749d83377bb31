--------------------------- MODULE TransportFeedback ---------------------------
(***************************************************************************)
(* The sender's feedback path: GCCServer::OnPacketSend on the thread that  *)
(* produces packets, OnTransportFeedback on the event loop, both on one    *)
(* TransportFeedbackAdapter with no lock between them (a call is a step:   *)
(* races inside a call are not modelled).  The receiver is reduced to what *)
(* it promises: consecutive feedbacks, each ending with a received packet. *)
(* The network loses, repeats and reorders feedbacks.  Packets are         *)
(* numbered here without wrap; the program sees the number % SeqSpace.     *)
(***************************************************************************)
EXTENDS SendTimeHistory

CONSTANTS
  PacketSizes,  \* bytes of a packet
  FirstSeqs,    \* numbers of the first packet recorded
  RefSpan,      \* span of a feedback's reference time (2^29 ms in the code)
  MaxDelta,     \* longest time between two packets of one feedback
  Networks,     \* what a behaviour's packets and feedbacks may do
  MaxUnwrapped  \* bound: where the unwrapped numbers may get

ASSUME FeedbackConstants ==
  /\ PacketSizes \subseteq Nat \ {0}
  /\ FirstSeqs \subseteq 0 .. SeqSpace - 1
  /\ RefSpan \in Nat \ {0} /\ MaxDelta \in Nat
  /\ MaxUnwrapped \in Nat
  /\ \A n \in Networks :
       \* What the sender's and the receiver's clock go on by between two packets:
       \* they are wall clocks, which may be set forwards or back.
       /\ n.elapsed \subseteq [sender : Int, receiver : Int]
       /\ n.maxLag \in Nat        \* how far behind the newest packet a feedback
                                  \* may reach
       /\ n.maxPackets \in Nat    \* bound: packets in a behaviour

VARIABLES
  h,            \* send_time_history_
  offset,       \* current_offset_ms_
  lastRef,      \* last_timestamp_us_
  msg,          \* the packet_feedbacks last given to the controller
  pacer,        \* outstanding_bytes_ of the PacedSender
  phase,        \* the calls OnPacketSend has made: "idle", "inserted" or "added"
  length,       \* bytes of the packet OnPacketSend is given
  first, next,  \* the first packet recorded, and the one to record next
  now,          \* the sender's clock
  network,      \* the one of Networks this behaviour is in
  net,          \* feedbacks sent and not lost for good
  time,         \* the receiver's clock
  rbase, rtime, \* the receiver's next base, and the time of the packet before it
  delivered,    \* packets the controller was told were received (history)
  highest,      \* the sender's clock at its highest (history)
  behind        \* how far it was below its highest at most (history)

clocks == <<now, time, highest, behind>>
senderVars == <<h, offset, lastRef, msg, pacer, phase, length, first, next, clocks, delivered>>
receiverVars == <<net, rbase, rtime, network>>
vars == <<senderVars, receiverVars>>

\* Packets recorded so far.
Recorded == first .. next - 1

TypeOK ==
  /\ DOMAIN h.history \subseteq Nat
  /\ \A l \in DOMAIN h.history :
       /\ h.history[l].packet \in Recorded
       /\ h.history[l].size \in PacketSizes
       /\ h.history[l].sent \in {kNoSendTime} \cup Nat
       /\ h.history[l].created \in 0 .. highest
  /\ h.inFlight \in Nat
  /\ h.lastAck \in {Unset} \cup Nat
  /\ h.lastUnwrapped \in IF next = first THEN {Unset} ELSE Nat
  /\ offset \in Int /\ lastRef \in {Unset} \cup 0 .. RefSpan - 1
  /\ pacer \in Nat
  /\ now \in 0 .. highest /\ time \in Nat /\ behind \in 0 .. highest
  /\ phase \in {"idle", "inserted", "added"} /\ length \in PacketSizes
  /\ \A f \in net : f.received # {} /\ f.received \subseteq Recorded
  /\ delivered \in [Recorded -> Nat]

Init ==
  /\ h = EmptyHistory
  /\ offset = Unset /\ lastRef = Unset
  /\ msg = {}
  /\ pacer = 0
  /\ phase = "idle" /\ length \in PacketSizes
  /\ first \in FirstSeqs /\ next = first
  /\ now = 0 /\ time = 0 /\ highest = 0 /\ behind = 0
  /\ network \in Networks
  /\ net = {}
  /\ rbase = first + 1 /\ rtime = 0
  /\ delivered = <<>>

--------------------------------------------------------------------------------
(* GCCServer::OnPacketSend: three calls, between which a feedback may come in *)

\* PacedSender::InsertPacket counts the packet as outstanding at once.
InsertPacket ==
  /\ phase = "idle"
  /\ next - first < network.maxPackets
  /\ length' \in PacketSizes
  /\ pacer' = pacer + length'
  /\ phase' = "inserted"
  /\ UNCHANGED <<h, offset, lastRef, msg, first, next, clocks, delivered, receiverVars>>

Larger(a, b) == IF a < b THEN b ELSE a

\* GetCurrentStamp64 is read anew at the sender, and what it has been is noted.
SetClocks(here, there) ==
  /\ here >= 0 /\ there >= 0
  /\ now' = here /\ time' = there
  /\ highest' = Larger(highest, here)
  /\ behind' = Larger(behind, highest' - here)

\* RtpTransportControllerSend::OnAddPacket, TransportFeedbackAdapter::AddPacket
OnAddPacket ==
  /\ phase = "inserted"
  /\ \E ms \in network.elapsed : SetClocks(now + ms.sender, time + ms.receiver)
  /\ LET entry == [packet |-> next, size |-> length, sent |-> kNoSendTime,
                   created |-> now']
     IN h' = AddNewPacket(RemoveOld(h, now'), next % SeqSpace, entry)
  /\ next' = next + 1
  /\ delivered' = [p \in first .. next |-> IF p = next THEN 0 ELSE delivered[p]]
  /\ phase' = "added"
  /\ UNCHANGED <<offset, lastRef, msg, pacer, length, first, receiverVars>>

\* (Faulty variant: the pacer is not told.)
OnPacketSentQuiet ==
  /\ phase = "added"
  /\ h' = OnSentPacket(h, (next - 1) % SeqSpace, now)
  /\ phase' = "idle"
  /\ UNCHANGED <<offset, lastRef, msg, pacer, length, first, next, clocks, delivered,
                 receiverVars>>

\* RtpTransportControllerSend::OnSentPacket, ProcessSentPacket
OnPacketSent ==
  /\ phase = "added"
  /\ h' = OnSentPacket(h, (next - 1) % SeqSpace, now)
  /\ pacer' = h'.inFlight
  /\ phase' = "idle"
  /\ UNCHANGED <<offset, lastRef, msg, length, first, next, clocks, delivered,
                 receiverVars>>

--------------------------------------------------------------------------------
(* The receiver and the network *)

Sent == first .. (IF phase = "added" THEN next - 2 ELSE next - 1)

\* Feedbacks that the receiver may send now: the received among the packets from
\* its base on, the last of them included, all arriving now.
ReceiverReports ==
  /\ time - rtime \in -MaxDelta .. MaxDelta
  /\ \E received \in (SUBSET (rbase .. next - 1)) \ {{}} :
       /\ received \subseteq Sent
       /\ net' = net \cup {[base |-> rbase, received |-> received,
                            ref |-> rtime % RefSpan, refTime |-> rtime, time |-> time]}
       /\ rbase' = Max(received) + 1
  /\ rtime' = time
  /\ UNCHANGED <<senderVars, network>>

\* The receiver starts over from a packet it received now (AddPacket is FATAL).
ReceiverStartsOver ==
  /\ \E p \in Sent : p >= rbase /\ rbase' = p + 1
  /\ rtime' = time
  /\ UNCHANGED <<senderVars, net, network>>

--------------------------------------------------------------------------------
(* RtpTransportControllerSend::OnTransportFeedback *)

\* (Faulty variant: the offset is set anew from every feedback.)
OffsetAnew(f) == now

\* GetBaseDeltaUs and the time base: the first feedback's base is the clock's.
NewOffset(f) == IF lastRef = Unset THEN now ELSE offset + (f.ref - lastRef)

\* What one status of a feedback adds: it is looked up (and taken out, if the packet
\* was received) in the history; one not found or not sent is not passed on.
WithStatus(acc, f, p) ==
  LET received == p \in f.received
      seq == p % SeqSpace
      entry == acc.h.history[Unwrapped(acc.h, seq)]
  IN [h |-> GetFeedback(acc.h, seq, received),
      feedbacks |-> acc.feedbacks \cup
        IF Finds(acc.h, seq) /\ entry.sent # kNoSendTime
        THEN {[reported |-> p, found |-> entry.packet, received |-> received,
               arrival |-> NewOffset(f) + (f.time - f.refTime), arrived |-> f.time]}
        ELSE {}]

\* GetPacketFeedbackVector: one status after the other, from the base up to the
\* last received.
PacketFeedbackVector(f) ==
  LET n == Max(f.received) - f.base + 1
      vector[k \in 0 .. n] ==
        IF k = 0 THEN [h |-> h, feedbacks |-> {}]
        ELSE WithStatus(vector[k - 1], f, f.base + (k - 1))
  IN vector[n]

OnTransportFeedback(f) ==
  /\ next - f.base <= network.maxLag
  /\ h.lastUnwrapped <= MaxUnwrapped
  /\ LET vector == PacketFeedbackVector(f)
         found == {r.found : r \in {r \in vector.feedbacks : r.received}}
     IN /\ h' = vector.h
        /\ msg' = vector.feedbacks
        /\ delivered' = [p \in DOMAIN delivered |->
                           delivered[p] + IF p \in found THEN 1 ELSE 0]
  /\ offset' = NewOffset(f)
  /\ lastRef' = f.ref
  /\ pacer' = h'.inFlight
  /\ UNCHANGED <<phase, length, first, next, clocks, receiverVars>>

Next ==
  \/ InsertPacket
  \/ OnAddPacket
  \/ OnPacketSent
  \/ ReceiverReports
  \/ ReceiverStartsOver
  \/ \E f \in net : OnTransportFeedback(f)

Spec == Init /\ [][Next]_vars

--------------------------------------------------------------------------------
(* Properties *)

\* The running total that GetOutstandingData returns is the sum over the packets
\* sent, not acknowledged and still in the history, whatever was removed in
\* between for its age, for being received or not at all.
InFlightExact ==
  h.inFlight = SumFunctionOnSet(Sizes(h), {l \in DOMAIN h.history : Counts(h, l)})

\* Feedbacks are less than half the sequence space late.
InTime == 2 * network.maxLag < SeqSpace

\* As long as feedbacks are less than half the sequence space late, every status
\* is matched with the packet it is about, and nothing is acknowledged that was
\* not sent.
NoAliasing == InTime =>
  /\ \A l \in DOMAIN h.history : h.history[l].packet = l
  /\ \A r \in msg : r.found = r.reported
  /\ h.lastAck < next

\* The controller is told at most once that a packet was received, also when a
\* feedback is repeated or overlaps with another.
ReceivedOnce == \A p \in DOMAIN delivered : delivered[p] <= 1

\* While feedbacks are in time, lost or never reported packets do not pile up in the
\* history: whenever a packet is added, every packet older than the window goes, not
\* only the first.  If the sender's clock is set back, a packet may stay behind one
\* that seems younger, but it outlives the window by no more than the clock was ever
\* behind.  (A late feedback may turn the unwrapper back: a new packet is then filed
\* before old ones, which stay behind it as long as there are such packets.)
HistoryInWindow == InTime =>
  \A l \in DOMAIN h.history : now - h.history[l].created <= AgeLimit + behind

\* Outside OnPacketSend the pacer's outstanding data is the history's, although
\* InsertPacket counts a packet before the history knows it, a feedback may set
\* the figure in between, and the history may drop packets for their age.
PacerInStep == phase = "idle" => pacer = h.inFlight

\* The arrival times given to the controller are the receiver's but for one
\* offset, the same for all feedbacks, also when some are lost or reordered.
ArrivalClock ==
  [][\A r \in msg, s \in msg' :
       s.arrival - r.arrival = s.arrived - r.arrived]_vars

\* While feedbacks are in time, a packet reported lost can still be reported
\* received: only the feedback that reports it received, or its age, takes it out
\* of the history.
LostStaysKnown ==
  [][\A l \in DOMAIN h.history \ DOMAIN h'.history :
       \/ delivered'[h.history[l].packet] > delivered[h.history[l].packet]
       \/ now' - h.history[l].created > AgeLimit
       \/ ~InTime]_vars
================================================================================
