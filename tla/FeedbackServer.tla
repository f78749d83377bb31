---------------------------- MODULE FeedbackServer ----------------------------
(***************************************************************************)
(* The receiver's GCCServer: every RTP packet that arrives is entered in   *)
(* the feedback under construction, and the feedback is sent when no more  *)
(* fits in.  Media packets arrive with gaps, duplicates and reorderings,   *)
(* and the wall clock that stamps them may be set back.                    *)
(***************************************************************************)
EXTENDS FeedbackPacket

CONSTANTS
  Networks,    \* what a behaviour's packets may do, see FeedbackConstants
  FirstTime    \* wall clock at the start, in ms

\* A time of 0 stands for no packet.  The wall clock, however it is set, is past
\* the first 64 ms of its epoch, which would be rounded to it.
Epoch == 64

ASSUME FeedbackConstants ==
  /\ FirstTime \in Nat /\ FirstTime >= Epoch
  /\ \A n \in Networks :
       \* Bytes of a feedback (1400 in the code), which is a datagram.
       /\ n.mtuSize \in HeaderSize + fixedHeaderSize + 4 .. 65535
       /\ n.firstSeq \in 0 .. SeqSpace - 1  \* of the packet before the first
       /\ n.jumps \subseteq Int         \* steps of number between two arrivals
       /\ n.elapsed \subseteq Int       \* wall clock ms between two arrivals
       /\ n.maxPackets \in Nat          \* bound: RTP packets in a behaviour

VARIABLES
  network,   \* the one of Networks this behaviour is in
  pkt,       \* transportCcFeedbackPacket_
  count,     \* transportCcFeedbackPacketCount_
  now,       \* wall clock of the last arrival
  last,      \* sequence number of the last arrival
  packets,   \* arrivals so far (bounds the model)
  out,       \* the last feedback sent, or NoFeedback
  chained,   \* no FATAL since out was sent (history)
  log        \* arrivals pkt owes a report, in order (history)

vars == <<network, pkt, count, now, last, packets, out, chained, log>>

NoFeedback == [none |-> TRUE]

TypeOK ==
  /\ pkt.baseSequenceNumber \in 0 .. SeqSpace - 1
  /\ pkt.latestSequenceNumber \in 0 .. SeqSpace - 1
  /\ pkt.packetStatusCount \in 0 .. maxPacketStatusCount
  /\ pkt.referenceTime \in 0 .. TimeMod \div 64 - 1
  /\ pkt.statuses \in Seq(Statuses)
  /\ \A k \in DOMAIN pkt.chunks : ChunkCount(pkt.chunks[k]) \in 1 .. maxPacketStatusCount
  /\ \A k \in DOMAIN pkt.deltas : pkt.deltas[k] \in -maxPacketDelta .. maxPacketDelta
  /\ count \in 0 .. 255
  /\ packets \in 0 .. network.maxPackets
  /\ chained \in BOOLEAN

Init ==
  /\ network \in Networks
  /\ pkt = NewPacket(0)
  /\ count = 0
  /\ now = FirstTime
  /\ last = network.firstSeq
  /\ packets = 0
  /\ out = NoFeedback
  /\ chained = FALSE
  /\ log = <<>>

\* SendTransportCcFeedback, on the feedback full: what it leaves in its place,
\* a new packet whose base is the latest packet of the old one.
Regenerated(full) ==
  LET fresh == NewPacket((count + 1) % 256)
  IN IF ~IsSerializable(full) THEN full
     ELSE IF full.latestTimestamp > 0
     THEN AddPacket(fresh, full.latestSequenceNumber, full.latestTimestamp,
                    network.mtuSize).pkt
     ELSE fresh

\* ... and what it sends.
SendTransportCcFeedback(full) ==
  IF IsSerializable(full)
  THEN out' = Serialize(full) /\ count' = (count + 1) % 256 /\ chained' = TRUE
  ELSE UNCHANGED <<out, count, chained>>

Arrival(seq, nowMs) == [seq |-> seq, time |-> nowMs % TimeMod]

\* The arrivals owed once this one is entered in pkt: a base and a late or
\* repeated packet are not.
Owed(seq, nowMs) ==
  IF pkt.latestTimestamp # 0 /\ IsSeqHigherThan(seq, pkt.latestSequenceNumber)
  THEN Append(log, Arrival(seq, nowMs))
  ELSE log

\* The cases of rtp_handler on the result of AddPacket.
HandleSuccess(seq, nowMs, entered) ==
  /\ ~IsFull(entered)
  /\ pkt' = entered
  /\ log' = Owed(seq, nowMs)
  /\ UNCHANGED <<count, out, chained>>

HandleFull(seq, nowMs, entered) ==
  /\ IsFull(entered)
  /\ SendTransportCcFeedback(entered)
  /\ pkt' = Regenerated(entered)
  /\ log' = <<>>

\* (Faulty variant: the feedback that has no room left is replaced, not sent.)
HandleMaxSizeUnsent(seq, nowMs) ==
  /\ pkt' = AddPacket(Regenerated(pkt), seq, nowMs, network.mtuSize).pkt
  /\ log' = <<Arrival(seq, nowMs)>>
  /\ UNCHANGED <<count, out, chained>>

\* (Faulty variant: the packet for which there was no room is not added.)
HandleMaxSizeForgets(seq, nowMs) ==
  /\ SendTransportCcFeedback(pkt)
  /\ pkt' = Regenerated(pkt)
  /\ log' = <<>>

\* The result of the second AddPacket is not looked at: the arrival may be refused.
HandleMaxSizeExceeded(seq, nowMs) ==
  LET again == AddPacket(Regenerated(pkt), seq, nowMs, network.mtuSize)
  IN /\ SendTransportCcFeedback(pkt)
     /\ pkt' = again.pkt
     /\ log' = IF again.result = "SUCCESS" THEN <<Arrival(seq, nowMs)>> ELSE <<>>

\* (Faulty variant: the packet that was dropped unsent uses up its number.)
HandleFatalCounts ==
  /\ pkt' = NewPacket((count + 1) % 256)
  /\ count' = (count + 1) % 256
  /\ log' = <<>>
  /\ chained' = FALSE
  /\ UNCHANGED out

HandleFatal ==
  /\ pkt' = NewPacket(count)
  /\ log' = <<>>
  /\ chained' = FALSE
  /\ UNCHANGED <<count, out>>

\* rtp_handler: an RTP packet with sequence number seq arrives at nowMs.
RtpHandler(seq, nowMs) ==
  LET added == AddPacket(pkt, seq, nowMs, network.mtuSize)
  IN CASE added.result = "SUCCESS" -> \/ HandleSuccess(seq, nowMs, added.pkt)
                                      \/ HandleFull(seq, nowMs, added.pkt)
       [] added.result = "MAX_SIZE_EXCEEDED" -> HandleMaxSizeExceeded(seq, nowMs)
       [] added.result = "FATAL" -> HandleFatal

Receive ==
  \E jump \in network.jumps, ms \in network.elapsed :
    LET seq == (last + jump) % SeqSpace
    IN /\ packets < network.maxPackets
       /\ now + ms >= Epoch
       /\ RtpHandler(seq, now + ms)
       /\ last' = seq
       /\ now' = now + ms
       /\ packets' = packets + 1
       /\ UNCHANGED network

Next == Receive

Spec == Init /\ [][Next]_vars

--------------------------------------------------------------------------------
(* Properties *)

\* The statuses fit in the fields of the format: a 16-bit status count, and 13
\* bits for the length of a run.
FitsFormat(chunks) ==
  /\ TotalCount(chunks) <= maxPacketStatusCount
  /\ \A k \in DOMAIN chunks : SerializeChunk(chunks[k]) = chunks[k]

\* Whatever the pattern of gaps and delays, the feedback under construction,
\* sent now, reads back at the sender as exactly the arrivals since its base:
\* every one of them with its arrival time to the millisecond (modulo the span
\* of the reference time), and every other number up to the latest as lost.
FaithfulFeedback ==
  pkt.latestTimestamp # 0 /\ FitsFormat(AddPendingChunks(pkt).chunks) =>
    LET w == Serialize(pkt)
    IN /\ ParsesAsWritten(w, w.size)
       /\ w.statusCount = (pkt.latestSequenceNumber + 1 - w.base) % SeqSpace
       /\ GetPacketResults(w) = log

\* The room that AddPacket reserves, "for another chunk", is not enough for the
\* chunks FillChunk may create, but the datagram never exceeds the limit by more
\* than two words.
OvershootBounded ==
  IsSerializable(pkt) => Serialize(pkt).size <= network.mtuSize + 8

\* IsFull reserves 7 packets "since AddPendingChunks() is called at the end": as
\* long as it is FALSE the pending statuses still fit in the 16-bit count.
StatusCountFits ==
  ~IsFull(pkt) => TotalCount(AddPendingChunks(pkt).chunks) <= maxPacketStatusCount

\* AddPacket refuses a gap of more than maxMissingPackets: every run it creates
\* can be represented in the 13 bits of a run-length chunk.
RunsFitTheirField ==
  \A k \in DOMAIN pkt.chunks :
    pkt.chunks[k].kind = "run" => SerializeChunk(pkt.chunks[k]) = pkt.chunks[k]

\* Feedbacks are numbered consecutively, a reset (FATAL) uses no number, and a
\* feedback starts right after the last packet of the one before, unless there
\* was a reset in between: no packet is reported twice or falls between two.
ConsecutiveFeedback ==
  [][out' # out /\ out # NoFeedback =>
       /\ out'.feedbackPacketCount = (out.feedbackPacketCount + 1) % 256
       /\ chained => out'.base = (out.base + out.statusCount) % SeqSpace]_vars

\* A packet newer than all before is entered in a feedback, also if one has to be sent
\* for want of room ("and add the new packet info to the regenerated one").  Only then,
\* its delay may be too long once it is counted from the rounded time of the new base.
EnteredUnlessRefused ==
  [][pkt.latestTimestamp # 0 /\ IsSeqHigherThan(last', pkt.latestSequenceNumber) =>
       \/ pkt'.latestSequenceNumber = last'
       \/ TooManyMissing(pkt, last') \/ DeltaTooLarge(DeltaTo(pkt, now'))
       \/ out' # out /\ DeltaTooLarge((now' - Rounded(pkt.latestTimestamp)) * 4)]_vars

\* An arrival that was entered stays owed until a feedback reports it, as long as
\* its statuses fit in the format; only a gap or a time step too large for the
\* format makes the server forget any.
ReportedUnlessFatal ==
  [][LET sent == AddPacket(pkt, last', now', network.mtuSize).pkt
     IN \/ IsPrefix(log, log')
        \/ /\ out' # out
           /\ FitsFormat(AddPendingChunks(sent).chunks) =>
                IsPrefix(log, GetPacketResults(out'))
        \/ TooManyMissing(pkt, last') \/ DeltaTooLarge(DeltaTo(pkt, now'))]_vars
================================================================================
