---------------------------- MODULE FeedbackPacket ----------------------------
(***************************************************************************)
(* FeedbackRtpTransportPacket: the transport-cc feedback that the receiver *)
(* builds packet by packet (AddPacket), serializes, and the sender parses. *)
(* A feedback packet is a record; every operation is a function from       *)
(* records to records.  Sequence numbers, limits and field widths are the  *)
(* code's own.  Times are in milliseconds, deltas in units of 250 us.      *)
(***************************************************************************)
EXTENDS Integers, Sequences, SequencesExt

SeqSpace == 65536                 \* uint16_t sequence numbers and status counts
TimeMod == 536870912            \* 2^29 ms: the span of the reference time
maxMissingPackets == 8191       \* (1 << 13) - 1
maxPacketStatusCount == 65535   \* (1 << 16) - 1
maxPacketDelta == 32767         \* 0x7FFF
HeaderSize == 12                \* FeedbackRtpPacket::GetSize
fixedHeaderSize == 8
VectorSize == 7                 \* symbols of a two-bit vector chunk

NotReceived == "NR"
SmallDelta == "SD"
LargeDelta == "LD"
None == "None"
Statuses == {NotReceived, SmallDelta, LargeDelta}

Padded(size) == size + ((-size) % 4)

\* SeqManager<uint16_t>::IsSeqHigherThan: serial-number order.
IsSeqHigherThan(lhs, rhs) ==
  \/ lhs > rhs /\ lhs - rhs <= (SeqSpace - 1) \div 2
  \/ rhs > lhs /\ rhs - lhs > (SeqSpace - 1) \div 2

\* A packet as its constructor leaves it.
NewPacket(count) ==
  [baseSequenceNumber |-> 0, referenceTime |-> 0,
   latestSequenceNumber |-> 0, latestTimestamp |-> 0,
   packetStatusCount |-> 0, feedbackPacketCount |-> count,
   chunks |-> <<>>, deltas |-> <<>>, deltasAndChunksSize |-> 0,
   statuses |-> <<>>, allSameStatus |-> TRUE, currentStatus |-> None]

RunChunk(status, count) == [kind |-> "run", status |-> status, count |-> count]
VectorChunk(statuses) == [kind |-> "vector", statuses |-> statuses]

--------------------------------------------------------------------------------
(* Building chunks *)

AddChunk(p, chunk, count) ==
  [p EXCEPT !.chunks = Append(@, chunk),
            !.packetStatusCount = (@ + count) % SeqSpace,
            !.deltasAndChunksSize = @ + 2]

CreateRunLengthChunk(p, status, count) ==
  AddChunk(p, RunChunk(status, count % SeqSpace), count % SeqSpace)

CreateTwoBitVectorChunk(p) == AddChunk(p, VectorChunk(p.statuses), Len(p.statuses))

\* Close the pending statuses; the caller decides what becomes of currentStatus.
CloseRun(p) ==
  [CreateRunLengthChunk(p, p.currentStatus, Len(p.statuses)) EXCEPT !.statuses = <<>>]
CloseVector(p) == [CreateTwoBitVectorChunk(p) EXCEPT !.statuses = <<>>]

LongRunPending(p) == Len(p.statuses) >= VectorSize /\ p.allSameStatus

\* (Faulty variant: a rest of zero missing packets gets a run of its own.)
FillMissingZeroRun(p, missing) ==
  LET closed == IF LongRunPending(p) THEN CloseRun(p) ELSE p
      room == VectorSize - Len(closed.statuses)
      represented == IF missing < room THEN missing ELSE room
      filled == [closed EXCEPT !.statuses = @ \o [k \in 1 .. represented |-> NotReceived]]
  IN [CreateRunLengthChunk(CloseVector(filled), NotReceived, missing - represented) EXCEPT
        !.currentStatus = None]

\* First half of FillChunk: the packets missing before the received one.
FillMissing(p, missing) ==
  LET closed == IF LongRunPending(p) THEN CloseRun(p) ELSE p
      room == VectorSize - Len(closed.statuses)
      represented == IF missing < room THEN missing ELSE room
      filled == [closed EXCEPT
                   !.statuses = @ \o [k \in 1 .. represented |-> NotReceived],
                   !.currentStatus = NotReceived]
      vectored == IF Len(filled.statuses) = VectorSize
                  THEN [CloseVector(filled) EXCEPT !.currentStatus = None]
                  ELSE filled
      left == missing - represented
  IN IF left = 0 THEN vectored
     ELSE [CreateRunLengthChunk(vectored, NotReceived, left) EXCEPT
             !.statuses = <<>>, !.currentStatus = None]

StatusOf(delta) == IF delta \in 0 .. 255 THEN SmallDelta ELSE LargeDelta
DeltaSize(delta) == IF StatusOf(delta) = SmallDelta THEN 1 ELSE 2

\* (Faulty variant: allSameStatus is only ever set, never reset.)
FillReceivedStaysSame(p, delta) ==
  LET status == StatusOf(delta)
      closed == IF LongRunPending(p) /\ status # p.currentStatus THEN CloseRun(p) ELSE p
  IN [closed EXCEPT
        !.statuses = Append(@, status),
        !.deltas = Append(@, delta),
        !.deltasAndChunksSize = @ + DeltaSize(delta),
        !.currentStatus = status]

\* Second half of FillChunk: the received packet.
FillReceived(p, delta) ==
  LET status == StatusOf(delta)
      closed == IF LongRunPending(p) /\ status # p.currentStatus THEN CloseRun(p) ELSE p
      added == [closed EXCEPT
                  !.statuses = Append(@, status),
                  !.deltas = Append(@, delta),
                  !.deltasAndChunksSize = @ + DeltaSize(delta),
                  !.allSameStatus = \/ closed.currentStatus = None
                                    \/ @ /\ closed.currentStatus = status,
                  !.currentStatus = status]
  IN IF Len(added.statuses) = VectorSize /\ ~added.allSameStatus
     THEN [CloseVector(added) EXCEPT !.currentStatus = None]
     ELSE added

FillChunk(p, previousSequenceNumber, sequenceNumber, delta) ==
  LET missing == (sequenceNumber - (previousSequenceNumber + 1)) % SeqSpace
  IN FillReceived(IF missing > 0 THEN FillMissing(p, missing) ELSE p, delta)

AddPendingChunks(p) ==
  IF p.statuses = <<>> THEN p
  ELSE IF p.allSameStatus THEN CloseRun(p) ELSE CloseVector(p)

--------------------------------------------------------------------------------
(* The receiver's interface *)

\* To the 64 ms of the reference time.
Rounded(timestamp) == (timestamp \div 64) * 64

\* The first packet of a feedback is its base: it is not itself reported, and
\* its time is rounded down.
SetBase(p, sequenceNumber, timestamp) ==
  [p EXCEPT !.baseSequenceNumber = (sequenceNumber + 1) % SeqSpace,
            !.referenceTime = (timestamp % TimeMod) \div 64,
            !.latestSequenceNumber = sequenceNumber,
            !.latestTimestamp = Rounded(timestamp)]

\* The number of missing packets is computed in int: it does not wrap.
TooManyMissing(p, sequenceNumber) ==
  sequenceNumber - (p.latestSequenceNumber + 1) > maxMissingPackets

DeltaTo(p, timestamp) == (timestamp - p.latestTimestamp) * 4
DeltaTooLarge(delta) == delta > maxPacketDelta \/ delta < -maxPacketDelta

\* (Faulty variant: nothing is reserved for the next packet.)
RoomForNothing(p, maxRtcpPacketLen) ==
  Padded(HeaderSize + fixedHeaderSize + p.deltasAndChunksSize) <= maxRtcpPacketLen

\* Room for "another chunk and its delta infos".
RoomFor(p, maxRtcpPacketLen) ==
  Padded(HeaderSize + fixedHeaderSize + p.deltasAndChunksSize + 2 + 2) <= maxRtcpPacketLen

\* AddPacket with its early returns, as a result and the packet it leaves.
AddPacket(p, sequenceNumber, timestamp, maxRtcpPacketLen) ==
  LET delta == DeltaTo(p, timestamp)
      Returns(result, q) == [result |-> result, pkt |-> q]
  IN IF p.latestTimestamp = 0
       THEN Returns("SUCCESS", SetBase(p, sequenceNumber, timestamp))
     ELSE IF ~IsSeqHigherThan(sequenceNumber, p.latestSequenceNumber)
       THEN Returns("SUCCESS", p)
     ELSE IF TooManyMissing(p, sequenceNumber) \/ DeltaTooLarge(delta)
       THEN Returns("FATAL", p)
     ELSE IF ~RoomFor(p, maxRtcpPacketLen)
       THEN Returns("MAX_SIZE_EXCEEDED", p)
     ELSE Returns("SUCCESS",
            [FillChunk(p, p.latestSequenceNumber, sequenceNumber, delta) EXCEPT
               !.latestSequenceNumber = sequenceNumber,
               !.latestTimestamp = timestamp])

IsFull(p) == p.packetStatusCount >= maxPacketStatusCount - 7
IsSerializable(p) == p.deltas # <<>>
GetSize(p) == Padded(HeaderSize + fixedHeaderSize + p.deltasAndChunksSize)

--------------------------------------------------------------------------------
(* The wire and the sender's side *)

\* A run-length chunk has 13 bits for its count.
SerializeChunk(c) ==
  IF c.kind = "run" THEN [c EXCEPT !.count = @ % (maxMissingPackets + 1)] ELSE c

\* Serialize (and BuildClsRTCPPacket, which copies it into the datagram).
Serialize(p) ==
  LET q == AddPendingChunks(p)
  IN [base |-> q.baseSequenceNumber, statusCount |-> q.packetStatusCount,
      referenceTime |-> q.referenceTime, feedbackPacketCount |-> q.feedbackPacketCount,
      chunks |-> [k \in DOMAIN q.chunks |-> SerializeChunk(q.chunks[k])],
      deltas |-> q.deltas, size |-> GetSize(q)]

ChunkCount(c) == IF c.kind = "run" THEN c.count ELSE Len(c.statuses)

\* The statuses of a chunk (of a run of missing packets nothing is needed).
SymbolsOf(c) ==
  IF c.kind = "vector" THEN c.statuses
  ELSE IF c.status = NotReceived THEN <<>>
  ELSE [k \in 1 .. c.count |-> c.status]

\* The received packets among the first symbols: position (from 0) and status.
ReceivedAmong(symbols) ==
  LET received[k \in 0 .. Len(symbols)] ==
        IF k = 0 THEN <<>>
        ELSE IF symbols[k] = NotReceived THEN received[k - 1]
        ELSE Append(received[k - 1], [at |-> k - 1, status |-> symbols[k]])
  IN received

ReceivedIn(c) == ReceivedAmong(SymbolsOf(c))[Len(SymbolsOf(c))]

\* Sums of the status counts of the first chunks, without the wrap of a uint16_t.
CountsOf(chunks) ==
  LET counts[k \in 0 .. Len(chunks)] ==
        IF k = 0 THEN 0 ELSE counts[k - 1] + ChunkCount(chunks[k])
  IN counts

TotalCount(chunks) == CountsOf(chunks)[Len(chunks)]

\* What a chunk reports as received, if its first status is that of number first.
ReportOf(first, c) ==
  [i \in DOMAIN ReceivedIn(c) |->
     [seq |-> (first + ReceivedIn(c)[i].at) % SeqSpace, status |-> ReceivedIn(c)[i].status]]

\* What the first chunks report, counting from sequence number base: FillResults.
ReportsOf(base, chunks) ==
  LET reports[k \in 0 .. Len(chunks)] ==
        IF k = 0 THEN <<>>
        ELSE reports[k - 1] \o ReportOf(base + CountsOf(chunks)[k - 1], chunks[k])
  IN reports

ReportedBy(base, chunks) == ReportsOf(base, chunks)[Len(chunks)]

\* What Parse accepts and reads as it was written: the datagram fits, the chunks
\* add up to the status count, there is a delta for each received status and it
\* has the width of its status.  Otherwise the sender drops it or misreads it.
ParsesAsWritten(w, availableLen) ==
  LET reported == ReportedBy(w.base, w.chunks)
  IN /\ w.size <= availableLen
     /\ TotalCount(w.chunks) = w.statusCount
     /\ Len(w.deltas) = Len(reported)
     /\ \A k \in DOMAIN reported : reported[k].status = StatusOf(w.deltas[k])

\* The milliseconds that the first deltas add up to.
ElapsedAfter(deltas) ==
  LET elapsed[k \in 0 .. Len(deltas)] ==
        IF k = 0 THEN 0 ELSE elapsed[k - 1] + deltas[k] \div 4
  IN elapsed

\* GetPacketResults, received ones only: sequence number and arrival time.  The
\* deltas are whole milliseconds, so the division by 4 is exact.
GetPacketResults(w) ==
  LET reported == ReportedBy(w.base, w.chunks)
  IN [k \in DOMAIN reported |->
        [seq |-> reported[k].seq,
         time |-> (w.referenceTime * 64 + ElapsedAfter(w.deltas)[k]) % TimeMod]]
================================================================================
