-------------------------- MODULE FeedbackServerProofs --------------------------
(***************************************************************************)
(* Proofs about FeedbackServer, for all values of its constants: whatever  *)
(* the gaps, delays and clock steps.  An operation on a feedback packet    *)
(* has a lemma that says what it makes of every field.                     *)
(***************************************************************************)
EXTENDS FeedbackServer, SequenceTheorems, Induction

PacketFields ==
  {"baseSequenceNumber", "referenceTime", "latestSequenceNumber", "latestTimestamp",
   "packetStatusCount", "feedbackPacketCount", "chunks", "deltas", "deltasAndChunksSize",
   "statuses", "allSameStatus", "currentStatus"}

Numbers == 0 .. SeqSpace - 1
Deltas == -maxPacketDelta .. maxPacketDelta

\* A chunk of 1 to 65535 statuses, a vector of at most 7.
Chunks == {RunChunk(s, n) : s \in Statuses, n \in 1 .. maxPacketStatusCount}
          \cup {VectorChunk(q) : q \in {r \in Seq(Statuses) : Len(r) \in 1 .. VectorSize}}

\* The fields that only SetBase and AddPacket itself assign are those of p.
SameHead(q, p) ==
  /\ q.baseSequenceNumber = p.baseSequenceNumber
  /\ q.referenceTime = p.referenceTime
  /\ q.latestSequenceNumber = p.latestSequenceNumber
  /\ q.latestTimestamp = p.latestTimestamp
  /\ q.feedbackPacketCount = p.feedbackPacketCount

\* The statuses that are in no chunk yet.  Those of a run are equal, and each of
\* them has a delta; others are closed when there are seven.
Ready(p) ==
  /\ p.currentStatus \in Statuses \cup {None}
  /\ p.currentStatus = None => Len(p.statuses) = 0
  /\ p.allSameStatus /\ p.currentStatus # NotReceived =>
       /\ \A k \in 1 .. Len(p.statuses) : p.statuses[k] = p.currentStatus
       /\ Len(p.statuses) <= Len(p.deltas)
  /\ ~p.allSameStatus \/ p.currentStatus = NotReceived => Len(p.statuses) < VectorSize

\* What is in the chunks and deltas.
Filed(p) ==
  /\ DOMAIN p = PacketFields
  /\ p.baseSequenceNumber \in Numbers
  /\ p.chunks \in Seq(Chunks)
  /\ p.deltas \in Seq(Deltas)
  /\ p.statuses \in Seq(Statuses)
  /\ p.packetStatusCount = TotalCount(p.chunks) % SeqSpace
  /\ p.deltasAndChunksSize \in Nat
  /\ Len(p.deltas) <= p.deltasAndChunksSize
  /\ p.allSameStatus \in BOOLEAN

\* The numbers entered in a packet, the received ones among them, and the bytes
\* they take once all are in chunks.
Total(p) == TotalCount(p.chunks) + Len(p.statuses)

Report(p) ==
  ReportedBy(p.baseSequenceNumber, p.chunks)
    \o ReportOf(p.baseSequenceNumber + TotalCount(p.chunks), VectorChunk(p.statuses))

Cost(p) == p.deltasAndChunksSize + (IF Len(p.statuses) = 0 THEN 0 ELSE 2)

\* q has n more missing packets than p.
Extends(q, p, n) ==
  /\ SameHead(q, p)
  /\ q.deltas = p.deltas
  /\ Total(q) = Total(p) + n
  /\ Report(q) = Report(p)

(***************************************************************************)
(* The operations, field by field                                          *)
(***************************************************************************)
LEMMA AddChunkFields ==
  ASSUME NEW p, DOMAIN p = PacketFields, NEW c, NEW n
  PROVE  LET q == AddChunk(p, c, n) IN
         /\ DOMAIN q = PacketFields /\ SameHead(q, p)
         /\ q.chunks = Append(p.chunks, c)
         /\ q.packetStatusCount = (p.packetStatusCount + n) % SeqSpace
         /\ q.deltasAndChunksSize = p.deltasAndChunksSize + 2
         /\ q.deltas = p.deltas /\ q.statuses = p.statuses
         /\ q.allSameStatus = p.allSameStatus /\ q.currentStatus = p.currentStatus
  BY DEF AddChunk, PacketFields, SameHead

LEMMA CloseRunFields ==
  ASSUME NEW p, DOMAIN p = PacketFields
  PROVE  LET q == CloseRun(p)
             n == Len(p.statuses) % SeqSpace
         IN
         /\ DOMAIN q = PacketFields /\ SameHead(q, p)
         /\ q.chunks = Append(p.chunks, RunChunk(p.currentStatus, n))
         /\ q.packetStatusCount = (p.packetStatusCount + n) % SeqSpace
         /\ q.deltasAndChunksSize = p.deltasAndChunksSize + 2
         /\ q.deltas = p.deltas /\ q.statuses = <<>>
         /\ q.allSameStatus = p.allSameStatus /\ q.currentStatus = p.currentStatus
  <1> DEFINE n == Len(p.statuses) % SeqSpace
             c == RunChunk(p.currentStatus, n)
             r == AddChunk(p, c, n)
  <1>1. CloseRun(p) = [r EXCEPT !.statuses = <<>>] BY DEF CloseRun, CreateRunLengthChunk
  <1> HIDE DEF n, c
  <1>2. /\ DOMAIN r = PacketFields /\ SameHead(r, p)
         /\ r.chunks = Append(p.chunks, c)
         /\ r.packetStatusCount = (p.packetStatusCount + n) % SeqSpace
         /\ r.deltasAndChunksSize = p.deltasAndChunksSize + 2
         /\ r.deltas = p.deltas
         /\ r.allSameStatus = p.allSameStatus /\ r.currentStatus = p.currentStatus
    BY AddChunkFields
  <1> HIDE DEF r
  <1> DEFINE q == [r EXCEPT !.statuses = <<>>]
  <1>3. DOMAIN q = PacketFields /\ SameHead(q, r) /\ q.statuses = <<>>
        /\ q.chunks = r.chunks /\ q.packetStatusCount = r.packetStatusCount
        /\ q.deltasAndChunksSize = r.deltasAndChunksSize /\ q.deltas = r.deltas
        /\ q.allSameStatus = r.allSameStatus /\ q.currentStatus = r.currentStatus
    BY <1>2 DEF PacketFields, SameHead
  <1> HIDE DEF q
  <1>4. CloseRun(p) = q BY <1>1 DEF q
  <1> QED BY <1>2, <1>3, <1>4 DEF SameHead, n, c

LEMMA CloseVectorFields ==
  ASSUME NEW p, DOMAIN p = PacketFields
  PROVE  LET q == CloseVector(p)
         IN
         /\ DOMAIN q = PacketFields /\ SameHead(q, p)
         /\ q.chunks = Append(p.chunks, VectorChunk(p.statuses))
         /\ q.packetStatusCount = (p.packetStatusCount + Len(p.statuses)) % SeqSpace
         /\ q.deltasAndChunksSize = p.deltasAndChunksSize + 2
         /\ q.deltas = p.deltas /\ q.statuses = <<>>
         /\ q.allSameStatus = p.allSameStatus /\ q.currentStatus = p.currentStatus
  <1> DEFINE n == Len(p.statuses)
             c == VectorChunk(p.statuses)
             r == AddChunk(p, c, n)
  <1>1. CloseVector(p) = [r EXCEPT !.statuses = <<>>]
    BY DEF CloseVector, CreateTwoBitVectorChunk
  <1> HIDE DEF n, c
  <1>2. /\ DOMAIN r = PacketFields /\ SameHead(r, p)
         /\ r.chunks = Append(p.chunks, c)
         /\ r.packetStatusCount = (p.packetStatusCount + n) % SeqSpace
         /\ r.deltasAndChunksSize = p.deltasAndChunksSize + 2
         /\ r.deltas = p.deltas
         /\ r.allSameStatus = p.allSameStatus /\ r.currentStatus = p.currentStatus
    BY AddChunkFields
  <1> HIDE DEF r
  <1> DEFINE q == [r EXCEPT !.statuses = <<>>]
  <1>3. DOMAIN q = PacketFields /\ SameHead(q, r) /\ q.statuses = <<>>
        /\ q.chunks = r.chunks /\ q.packetStatusCount = r.packetStatusCount
        /\ q.deltasAndChunksSize = r.deltasAndChunksSize /\ q.deltas = r.deltas
        /\ q.allSameStatus = r.allSameStatus /\ q.currentStatus = r.currentStatus
    BY <1>2 DEF PacketFields, SameHead
  <1> HIDE DEF q
  <1>4. CloseVector(p) = q BY <1>1 DEF q
  <1> QED BY <1>2, <1>3, <1>4 DEF SameHead, n, c

(***************************************************************************)
(* What chunks report                                                      *)
(***************************************************************************)
At == [at : Nat, status : Statuses]
Result == [seq : Numbers, status : Statuses]

LEMMA NumbersAre == \A n : n \in Numbers <=> n \in Nat /\ n < SeqSpace
  <1>1. \A s \in Nat : \A n : n \in 0 .. s - 1 <=> n \in Nat /\ n < s OBVIOUS
  <1>2. SeqSpace \in Nat BY DEF SeqSpace
  <1> QED BY <1>1, <1>2 DEF Numbers

LEMMA WrapTyped == \A x \in Int : x % SeqSpace \in Numbers
  <1>1. \A x \in Int : x % SeqSpace \in Nat /\ x % SeqSpace < SeqSpace BY DEF SeqSpace
  <1> QED BY <1>1, NumbersAre

LEMMA NumbersNat == Numbers \subseteq Int /\ \A n \in Numbers : n \in Nat /\ n % SeqSpace = n
  <1>1. \A n \in Nat : n < SeqSpace => n % SeqSpace = n BY DEF SeqSpace
  <1>2. \A n \in Nat : n \in Int OBVIOUS
  <1> QED BY <1>1, <1>2, NumbersAre

LEMMA CountNoWrap ==
  \A m \in 1 .. maxPacketStatusCount :
    m % SeqSpace = m /\ m \in Nat \ {0} /\ m \in Numbers
  <1>1. \A m \in 1 .. maxPacketStatusCount : m \in Nat \ {0}
    BY DEF maxPacketStatusCount
  <1>2. \A m \in 1 .. maxPacketStatusCount : m < SeqSpace
    BY DEF maxPacketStatusCount, SeqSpace
  <1>3. \A m \in 1 .. maxPacketStatusCount : m \in Numbers
    BY <1>1, <1>2, NumbersAre
  <1> QED BY <1>1, <1>3, NumbersNat

LEMMA ChunksCount ==
  ASSUME NEW c \in Chunks
  PROVE  ChunkCount(c) \in 1 .. maxPacketStatusCount
  <1>1. CASE \E s \in Statuses, n \in 1 .. maxPacketStatusCount : c = RunChunk(s, n)
    BY <1>1 DEF ChunkCount, RunChunk
  <1>2. CASE \E q \in Seq(Statuses) : Len(q) \in 1 .. VectorSize /\ c = VectorChunk(q)
    <2>1. PICK q \in Seq(Statuses) : Len(q) \in 1 .. VectorSize /\ c = VectorChunk(q)
      BY <1>2
    <2>2. c.kind = "vector" /\ c.statuses = q BY <2>1 DEF VectorChunk
    <2> DEFINE l == Len(q)
    <2>3. ChunkCount(c) = l /\ l \in 1 .. 7 BY <2>1, <2>2 DEF ChunkCount, VectorSize
    <2> HIDE DEF l
    <2> QED BY <2>3 DEF maxPacketStatusCount
  <1> QED BY <1>1, <1>2 DEF Chunks

LEMMA CountsStep ==
  ASSUME NEW chunks \in Seq(Chunks)
  PROVE  LET counts == CountsOf(chunks) IN
         /\ counts \in [0 .. Len(chunks) -> Nat]
         /\ counts[0] = 0
         /\ \A k \in 0 .. Len(chunks) - 1 :
              counts[k + 1] = counts[k] + ChunkCount(chunks[k + 1])
  <1> DEFINE n == Len(chunks)
             next == [k \in 0 .. n - 1 |-> [v \in Nat |-> v + ChunkCount(chunks[k + 1])]]
             Defined(f) == f = [k \in 0 .. n |-> IF k = 0 THEN 0
                                                 ELSE f[k - 1] + ChunkCount(chunks[k])]
             counts == CountsOf(chunks)
  <1>1. n \in Nat /\ \A k \in 1 .. n : ChunkCount(chunks[k]) \in Nat
    <2>1. \A k \in 1 .. n : chunks[k] \in Chunks BY ElementOfSeq
    <2> QED BY <2>1, LenProperties, ChunksCount
  <1>2. next \in [0 .. n - 1 -> [Nat -> Nat]] BY <1>1
  <1>3. counts = CHOOSE g : Defined(g) BY DEF CountsOf
  <1> HIDE DEF n, counts
  <1>4. \A k \in 0 .. n - 1 : \A v \in Nat : next[k][v] = v + ChunkCount(chunks[k + 1])
    BY <1>1
  <1> HIDE DEF next
  <1>5. PICK f \in [0 .. n -> Nat] : f[0] = 0 /\ \A k \in 0 .. n - 1 : f[k + 1] = next[k][f[k]]
    <2>1. 0 \in Nat /\ next \in Recursions(n, Nat) BY <1>2 DEF Recursions
    <2>2. \E f : f \in DefinedBy(n, Nat, 0, next) BY <1>1, <2>1, RecursiveFunction
    <2> QED BY <2>2 DEF DefinedBy
  <1>6. \A k \in 0 .. n : f[k] = IF k = 0 THEN 0 ELSE f[k - 1] + ChunkCount(chunks[k])
    <2> SUFFICES ASSUME NEW k \in 0 .. n, k # 0
                 PROVE  f[k] = f[k - 1] + ChunkCount(chunks[k])
      BY <1>5
    <2>1. k - 1 \in 0 .. n - 1 /\ (k - 1) + 1 = k /\ f[k - 1] \in Nat BY <1>1
    <2> QED BY <1>4, <1>5, <2>1
  <1>7. Defined(f) BY <1>6
  <1>8. Defined(counts)
    <2> HIDE DEF Defined
    <2> QED BY <1>3, <1>7
  <1>9. counts[0] = 0 BY <1>1, <1>8
  <1>10. \A k \in 0 .. n - 1 : counts[k + 1] = counts[k] + ChunkCount(chunks[k + 1])
    BY <1>1, <1>8
  <1>11. \A k \in 0 .. n : counts[k] \in Nat
    <2> DEFINE T == {k \in 0 .. n : counts[k] \in Nat}
    <2>1. 0 \in T BY <1>1, <1>9
    <2>2. ASSUME NEW k \in 0 .. n - 1, k \in T PROVE k + 1 \in T
      <3>1. k + 1 \in 1 .. n BY <1>1
      <3> HIDE DEF Defined
      <3> QED BY <1>1, <1>10, <2>2, <3>1
    <2> HIDE DEF T
    <2>3. \A k \in 0 .. n : k \in T BY <1>1, <2>1, <2>2, InductionUpTo
    <2> QED BY <2>3 DEF T
  <1>12. counts \in [0 .. n -> Nat] BY <1>8, <1>11
  <1> QED BY <1>9, <1>10, <1>12 DEF counts, n

\* What is received among the statuses, one after the other.
LEMMA ReceivedStep ==
  ASSUME NEW symbols \in Seq(Statuses)
  PROVE  LET received == ReceivedAmong(symbols) IN
         /\ received \in [0 .. Len(symbols) -> Seq(At)]
         /\ received[0] = <<>>
         /\ \A k \in 0 .. Len(symbols) - 1 :
              received[k + 1] = IF symbols[k + 1] = NotReceived THEN received[k]
                                ELSE Append(received[k],
                                            [at |-> k, status |-> symbols[k + 1]])
  <1> DEFINE n == Len(symbols)
             V == Seq(At)
             With(k, v) == IF symbols[k] = NotReceived THEN v
                           ELSE Append(v, [at |-> k - 1, status |-> symbols[k]])
             next == [k \in 0 .. n - 1 |-> [v \in V |-> With(k + 1, v)]]
             Defined(f) == f = [k \in 0 .. n |-> IF k = 0 THEN <<>> ELSE With(k, f[k - 1])]
             received == ReceivedAmong(symbols)
  <1>1. n \in Nat BY LenProperties
  <1>2. <<>> \in V BY EmptySeq
  <1>3. \A k \in 0 .. n - 1 : \A v \in V : With(k + 1, v) \in V
    <2> SUFFICES ASSUME NEW k \in 0 .. n - 1, NEW v \in V,
                        symbols[k + 1] # NotReceived
                 PROVE  With(k + 1, v) \in V
      OBVIOUS
    <2>1. k + 1 \in 1 .. n BY <1>1
    <2>2. symbols[k + 1] \in Statuses BY <2>1, ElementOfSeq
    <2>3. [at |-> (k + 1) - 1, status |-> symbols[k + 1]] \in At BY <2>2 DEF At
    <2> QED BY <2>3, AppendProperties
  <1>4. received = CHOOSE g : Defined(g) BY DEF ReceivedAmong
  <1> HIDE DEF n, V, With, received
  <1>5. next \in Recursions(n, V) BY <1>3 DEF Recursions
  <1>6. \A k \in 0 .. n - 1 : \A v \in V : next[k][v] = With(k + 1, v) OBVIOUS
  <1> HIDE DEF next
  <1>7. PICK f \in [0 .. n -> V] :
          f[0] = <<>> /\ \A k \in 0 .. n - 1 : f[k + 1] = next[k][f[k]]
    <2>1. \E f : f \in DefinedBy(n, V, <<>>, next) BY <1>1, <1>2, <1>5, RecursiveFunction
    <2> QED BY <2>1 DEF DefinedBy
  <1>8. \A k \in 0 .. n : f[k] = IF k = 0 THEN <<>> ELSE With(k, f[k - 1])
    <2> SUFFICES ASSUME NEW k \in 0 .. n, k # 0 PROVE f[k] = With(k, f[k - 1])
      BY <1>7
    <2>1. k - 1 \in 0 .. n - 1 /\ (k - 1) + 1 = k /\ f[k - 1] \in V BY <1>1
    <2> QED BY <1>6, <1>7, <2>1
  <1>9. Defined(f) BY <1>8
  <1>10. Defined(received)
    <2> HIDE DEF Defined
    <2> QED BY <1>4, <1>9
  <1>11. received[0] = <<>> BY <1>1, <1>10
  <1>12. \A k \in 0 .. n - 1 : received[k + 1] = With(k + 1, received[k]) BY <1>1, <1>10
  <1>13. \A k \in 0 .. n : received[k] \in V
    <2> DEFINE T == {k \in 0 .. n : received[k] \in V}
    <2>1. 0 \in T BY <1>1, <1>2, <1>11
    <2>2. ASSUME NEW k \in 0 .. n - 1, k \in T PROVE k + 1 \in T
      <3> HIDE DEF Defined
      <3> QED BY <1>1, <1>3, <1>12, <2>2
    <2> HIDE DEF T
    <2>3. \A k \in 0 .. n : k \in T BY <1>1, <2>1, <2>2, InductionUpTo
    <2> QED BY <2>3 DEF T
  <1>14. received \in [0 .. n -> V] BY <1>10, <1>13
  <1>15. \A k \in 0 .. n - 1 : (k + 1) - 1 = k BY <1>1
  <1> QED BY <1>11, <1>12, <1>14, <1>15 DEF received, n, V, With

LEMMA SymbolsTyped ==
  ASSUME NEW c \in Chunks
  PROVE  SymbolsOf(c) \in Seq(Statuses)
  <1>1. CASE \E s \in Statuses, n \in 1 .. maxPacketStatusCount : c = RunChunk(s, n)
    <2>1. PICK s \in Statuses, n \in 1 .. maxPacketStatusCount : c = RunChunk(s, n)
      BY <1>1
    <2>2. c.kind = "run" /\ c.status = s /\ c.count = n BY <2>1 DEF RunChunk
    <2>3. <<>> \in Seq(Statuses) BY EmptySeq
    <2>4. n \in Nat BY DEF maxPacketStatusCount
    <2>5. [k \in 1 .. n |-> s] \in Seq(Statuses) BY <2>4
    <2> QED BY <2>2, <2>3, <2>5 DEF SymbolsOf
  <1>2. CASE \E q \in Seq(Statuses) : Len(q) \in 1 .. VectorSize /\ c = VectorChunk(q)
    BY <1>2 DEF SymbolsOf, VectorChunk
  <1> QED BY <1>1, <1>2 DEF Chunks

\* What a chunk, or what is pending, reports.
LEMMA ReportOfTyped ==
  ASSUME NEW first \in Int, NEW c, SymbolsOf(c) \in Seq(Statuses)
  PROVE  /\ ReceivedIn(c) \in Seq(At)
         /\ ReportOf(first, c) \in Seq(Result)
         /\ Len(ReportOf(first, c)) = Len(ReceivedIn(c))
  <1> DEFINE r == ReceivedIn(c)
  <1>1. r \in Seq(At)
    <2> DEFINE s == SymbolsOf(c)
               n == Len(s)
    <2>1. n \in 0 .. n /\ s \in Seq(Statuses) BY LenProperties
    <2>2. r = ReceivedAmong(s)[n] BY DEF ReceivedIn
    <2> HIDE DEF s, r
    <2> QED BY <2>1, <2>2, ReceivedStep
  <1>2. Len(r) \in Nat /\ DOMAIN r = 1 .. Len(r) BY <1>1, LenProperties
  <1>3. \A i \in 1 .. Len(r) : /\ (first + r[i].at) % SeqSpace \in Numbers
                               /\ r[i].status \in Statuses
    <2> SUFFICES ASSUME NEW i \in 1 .. Len(r)
                 PROVE  (first + r[i].at) % SeqSpace \in Numbers /\ r[i].status \in Statuses
      OBVIOUS
    <2>1. r[i] \in At BY <1>1, ElementOfSeq
    <2>2. r[i].at \in Nat /\ r[i].status \in Statuses BY <2>1 DEF At
    <2> DEFINE a == r[i].at
    <2>3. a \in Nat BY <2>2
    <2> HIDE DEF a
    <2>4. (first + a) % SeqSpace \in Numbers BY <2>3, WrapTyped
    <2> QED BY <2>2, <2>4 DEF a
  <1>4. ReportOf(first, c) = [i \in 1 .. Len(r) |->
                                [seq |-> (first + r[i].at) % SeqSpace, status |-> r[i].status]]
    BY <1>2 DEF ReportOf
  <1> HIDE DEF r
  <1> DEFINE n == Len(r)
             Entry(i) == [seq |-> (first + r[i].at) % SeqSpace, status |-> r[i].status]
  <1>5. \A i \in 1 .. n : Entry(i) \in Result BY <1>3 DEF Result
  <1>6. n \in Nat BY <1>2
  <1> HIDE DEF n, Entry
  <1>7. [i \in 1 .. n |-> Entry(i)] \in Seq(Result) /\ Len([i \in 1 .. n |-> Entry(i)]) = n
    BY <1>5, <1>6, LenProperties
  <1> QED BY <1>1, <1>4, <1>7 DEF n, Entry, r

LEMMA ReportsStep ==
  ASSUME NEW base \in Int, NEW chunks \in Seq(Chunks)
  PROVE  LET reports == ReportsOf(base, chunks) IN
         /\ reports \in [0 .. Len(chunks) -> Seq(Result)]
         /\ reports[0] = <<>>
         /\ \A k \in 0 .. Len(chunks) - 1 :
              reports[k + 1] =
                reports[k] \o ReportOf(base + CountsOf(chunks)[k], chunks[k + 1])
  <1> DEFINE n == Len(chunks)
             V == Seq(Result)
             counts == CountsOf(chunks)
             More(k) == ReportOf(base + counts[k - 1], chunks[k])
             next == [k \in 0 .. n - 1 |-> [v \in V |-> v \o More(k + 1)]]
             Defined(f) == f = [k \in 0 .. n |-> IF k = 0 THEN <<>> ELSE f[k - 1] \o More(k)]
             reports == ReportsOf(base, chunks)
  <1>1. n \in Nat BY LenProperties
  <1>2. <<>> \in V BY EmptySeq
  <1>3. \A k \in 1 .. n : More(k) \in V
    <2> SUFFICES ASSUME NEW k \in 1 .. n PROVE More(k) \in V
      OBVIOUS
    <2>1. chunks[k] \in Chunks BY ElementOfSeq
    <2>2. SymbolsOf(chunks[k]) \in Seq(Statuses) BY <2>1, SymbolsTyped
    <2>3. k - 1 \in 0 .. n BY <1>1
    <2>4. counts[k - 1] \in Nat BY <2>3, CountsStep
    <2> DEFINE first == base + counts[k - 1]
    <2>5. first \in Int BY <2>4
    <2> HIDE DEF first
    <2>6. ReportOf(first, chunks[k]) \in V BY <2>2, <2>5, ReportOfTyped
    <2> QED BY <2>6 DEF first
  <1>4. reports = CHOOSE g : Defined(g) BY DEF ReportsOf
  <1> HIDE DEF n, More, reports
  <1>5. \A k \in 0 .. n - 1 : \A v \in V : v \o More(k + 1) \in V
    <2>1. \A k \in 0 .. n - 1 : k + 1 \in 1 .. n BY <1>1
    <2> QED BY <1>3, <2>1, ConcatProperties
  <1> HIDE DEF V
  <1>6. next \in Recursions(n, V) BY <1>5 DEF Recursions
  <1>7. \A k \in 0 .. n - 1 : \A v \in V : next[k][v] = v \o More(k + 1) OBVIOUS
  <1> HIDE DEF next
  <1>8. PICK f \in [0 .. n -> V] :
          f[0] = <<>> /\ \A k \in 0 .. n - 1 : f[k + 1] = next[k][f[k]]
    <2>1. \E f : f \in DefinedBy(n, V, <<>>, next) BY <1>1, <1>2, <1>6, RecursiveFunction
    <2> QED BY <2>1 DEF DefinedBy
  <1>9. \A k \in 0 .. n : f[k] = IF k = 0 THEN <<>> ELSE f[k - 1] \o More(k)
    <2> SUFFICES ASSUME NEW k \in 0 .. n, k # 0 PROVE f[k] = f[k - 1] \o More(k)
      BY <1>8
    <2>1. k - 1 \in 0 .. n - 1 /\ (k - 1) + 1 = k /\ f[k - 1] \in V BY <1>1
    <2> QED BY <1>7, <1>8, <2>1
  <1>10. Defined(f) BY <1>9
  <1>11. Defined(reports)
    <2> HIDE DEF Defined
    <2> QED BY <1>4, <1>10
  <1>12. reports[0] = <<>> BY <1>1, <1>11
  <1>13. \A k \in 0 .. n - 1 : reports[k + 1] = reports[k] \o More(k + 1)
    <2> SUFFICES ASSUME NEW k \in 0 .. n - 1
                 PROVE  reports[k + 1] = reports[k] \o More(k + 1)
      OBVIOUS
    <2> DEFINE j == k + 1
    <2>1. j \in 0 .. n /\ j # 0 /\ j - 1 = k BY <1>1
    <2> HIDE DEF j
    <2>2. reports[j] = reports[j - 1] \o More(j) BY <1>11, <2>1
    <2> QED BY <2>1, <2>2 DEF j
  <1>14. \A k \in 0 .. n : reports[k] \in V
    <2> DEFINE T == {k \in 0 .. n : reports[k] \in V}
    <2>1. 0 \in T BY <1>1, <1>2, <1>12
    <2>2. ASSUME NEW k \in 0 .. n - 1, k \in T PROVE k + 1 \in T
      <3> HIDE DEF Defined
      <3> QED BY <1>1, <1>5, <1>13, <2>2
    <2> HIDE DEF T
    <2>3. \A k \in 0 .. n : k \in T BY <1>1, <2>1, <2>2, InductionUpTo
    <2> QED BY <2>3 DEF T
  <1>15. reports \in [0 .. n -> V] BY <1>11, <1>14
  <1>16. \A k \in 0 .. n - 1 : (k + 1) - 1 = k BY <1>1
  <1> QED BY <1>12, <1>13, <1>15, <1>16 DEF reports, n, V, More

\* The milliseconds up to each delta.
LEMMA ElapsedStep ==
  ASSUME NEW deltas \in Seq(Int)
  PROVE  LET elapsed == ElapsedAfter(deltas) IN
         /\ elapsed \in [0 .. Len(deltas) -> Int]
         /\ elapsed[0] = 0
         /\ \A k \in 0 .. Len(deltas) - 1 :
              elapsed[k + 1] = elapsed[k] + deltas[k + 1] \div 4
  <1> DEFINE n == Len(deltas)
             next == [k \in 0 .. n - 1 |-> [v \in Int |-> v + deltas[k + 1] \div 4]]
             Defined(f) == f = [k \in 0 .. n |-> IF k = 0 THEN 0
                                                 ELSE f[k - 1] + deltas[k] \div 4]
             elapsed == ElapsedAfter(deltas)
  <1>1. n \in Nat /\ \A k \in 1 .. n : deltas[k] \in Int
    BY ElementOfSeq, LenProperties
  <1>2. \A k \in 1 .. n : deltas[k] \div 4 \in Int BY <1>1
  <1>3. elapsed = CHOOSE g : Defined(g) BY DEF ElapsedAfter
  <1> HIDE DEF n, elapsed
  <1>4. next \in Recursions(n, Int)
    <2>1. \A k \in 0 .. n - 1 : k + 1 \in 1 .. n BY <1>1
    <2> QED BY <1>2, <2>1 DEF Recursions
  <1>5. \A k \in 0 .. n - 1 : \A v \in Int : next[k][v] = v + deltas[k + 1] \div 4 OBVIOUS
  <1> HIDE DEF next
  <1>6. PICK f \in [0 .. n -> Int] : f[0] = 0 /\ \A k \in 0 .. n - 1 : f[k + 1] = next[k][f[k]]
    <2>1. \E f : f \in DefinedBy(n, Int, 0, next) BY <1>1, <1>4, RecursiveFunction
    <2> QED BY <2>1 DEF DefinedBy
  <1>7. \A k \in 0 .. n : f[k] = IF k = 0 THEN 0 ELSE f[k - 1] + deltas[k] \div 4
    <2> SUFFICES ASSUME NEW k \in 0 .. n, k # 0
                 PROVE  f[k] = f[k - 1] + deltas[k] \div 4
      BY <1>6
    <2>1. k - 1 \in 0 .. n - 1 /\ (k - 1) + 1 = k /\ f[k - 1] \in Int BY <1>1
    <2> QED BY <1>5, <1>6, <2>1
  <1>8. Defined(f) BY <1>7
  <1>9. Defined(elapsed)
    <2> HIDE DEF Defined
    <2> QED BY <1>3, <1>8
  <1>10. elapsed[0] = 0 BY <1>1, <1>9
  <1>11. \A k \in 0 .. n - 1 : elapsed[k + 1] = elapsed[k] + deltas[k + 1] \div 4
    BY <1>1, <1>9
  <1>12. \A k \in 0 .. n : elapsed[k] \in Int
    <2> DEFINE T == {k \in 0 .. n : elapsed[k] \in Int}
    <2>1. 0 \in T BY <1>1, <1>10
    <2>2. ASSUME NEW k \in 0 .. n - 1, k \in T PROVE k + 1 \in T
      <3>1. k + 1 \in 1 .. n BY <1>1
      <3> HIDE DEF Defined
      <3> QED BY <1>1, <1>2, <1>11, <2>2, <3>1
    <2> HIDE DEF T
    <2>3. \A k \in 0 .. n : k \in T BY <1>1, <2>1, <2>2, InductionUpTo
    <2> QED BY <2>3 DEF T
  <1>13. elapsed \in [0 .. n -> Int] BY <1>9, <1>12
  <1> QED BY <1>10, <1>11, <1>13 DEF elapsed, n

(***************************************************************************)
(* One chunk, status or delta more                                         *)
(***************************************************************************)
LEMMA AppendedKeeps ==
  ASSUME NEW S, NEW s \in Seq(S), NEW x \in S
  PROVE  LET t == Append(s, x)
             n == Len(s)
         IN /\ n \in Nat /\ t \in Seq(S) /\ Len(t) = n + 1 /\ t[n + 1] = x
            /\ \A k \in 0 .. n - 1 : k \in 0 .. Len(t) - 1 /\ k + 1 \in 1 .. n
                                     /\ t[k + 1] = s[k + 1]
            /\ n \in 0 .. Len(t) - 1 /\ n \in 0 .. n
  <1> DEFINE t == Append(s, x)
             n == Len(s)
  <1>1. n \in Nat /\ t \in Seq(S) /\ Len(t) = n + 1 /\ t[n + 1] = x
        /\ \A i \in 1 .. n : t[i] = s[i]
    BY AppendProperties, LenProperties
  <1> HIDE DEF t, n
  <1> QED BY <1>1 DEF t, n

LEMMA CountsAppended ==
  ASSUME NEW chunks \in Seq(Chunks), NEW c \in Chunks
  PROVE  LET longer == Append(chunks, c) IN
         /\ \A k \in 0 .. Len(chunks) : CountsOf(longer)[k] = CountsOf(chunks)[k]
         /\ TotalCount(longer) = TotalCount(chunks) + ChunkCount(c)
         /\ TotalCount(chunks) \in Nat
  <1> DEFINE longer == Append(chunks, c)
             n == Len(chunks)
             a == CountsOf(chunks)
             b == CountsOf(longer)
             T == {k \in 0 .. n : b[k] = a[k]}
  <1>1. /\ n \in Nat /\ longer \in Seq(Chunks) /\ Len(longer) = n + 1 /\ longer[n + 1] = c
        /\ \A k \in 0 .. n - 1 : k \in 0 .. Len(longer) - 1 /\ longer[k + 1] = chunks[k + 1]
        /\ n \in 0 .. Len(longer) - 1 /\ n \in 0 .. n
    BY AppendedKeeps
  <1>2. a \in [0 .. n -> Nat] /\ a[0] = 0
        /\ \A k \in 0 .. n - 1 : a[k + 1] = a[k] + ChunkCount(chunks[k + 1])
    BY CountsStep
  <1>3. b[0] = 0
        /\ \A k \in 0 .. Len(longer) - 1 : b[k + 1] = b[k] + ChunkCount(longer[k + 1])
    BY <1>1, CountsStep
  <1>4. TotalCount(chunks) = a[n] /\ TotalCount(longer) = b[n + 1]
    BY <1>1 DEF TotalCount
  <1> HIDE DEF longer, n, a, b
  <1>5. 0 \in T BY <1>1, <1>2, <1>3
  <1>6. ASSUME NEW k \in 0 .. n - 1, k \in T PROVE k + 1 \in T
    <2>1. b[k] = a[k] BY <1>6
    <2>2. k + 1 \in 0 .. n BY <1>1
    <2> HIDE DEF T
    <2>3. b[k + 1] = a[k + 1] BY <1>1, <1>2, <1>3, <2>1
    <2> QED BY <2>2, <2>3 DEF T
  <1> HIDE DEF T
  <1>7. \A k \in 0 .. n : k \in T BY <1>1, <1>5, <1>6, InductionUpTo
  <1>8. \A k \in 0 .. n : b[k] = a[k] BY <1>7 DEF T
  <1>9. b[n + 1] = a[n] + ChunkCount(c) /\ a[n] \in Nat BY <1>1, <1>2, <1>3, <1>8
  <1> QED BY <1>4, <1>8, <1>9 DEF longer, n, a, b

LEMMA ReportsAppended ==
  ASSUME NEW base \in Int, NEW chunks \in Seq(Chunks), NEW c \in Chunks
  PROVE  ReportedBy(base, Append(chunks, c)) =
           ReportedBy(base, chunks) \o ReportOf(base + TotalCount(chunks), c)
  <1> DEFINE longer == Append(chunks, c)
             n == Len(chunks)
             a == ReportsOf(base, chunks)
             b == ReportsOf(base, longer)
             counts == CountsOf(chunks)
             more == CountsOf(longer)
             T == {k \in 0 .. n : b[k] = a[k]}
  <1>1. /\ n \in Nat /\ longer \in Seq(Chunks) /\ Len(longer) = n + 1 /\ longer[n + 1] = c
        /\ \A k \in 0 .. n - 1 : k \in 0 .. Len(longer) - 1 /\ longer[k + 1] = chunks[k + 1]
        /\ n \in 0 .. Len(longer) - 1 /\ n \in 0 .. n
    BY AppendedKeeps
  <1>2. a[0] = <<>>
        /\ \A k \in 0 .. n - 1 : a[k + 1] = a[k] \o ReportOf(base + counts[k], chunks[k + 1])
    BY ReportsStep
  <1>3. b[0] = <<>>
        /\ \A k \in 0 .. Len(longer) - 1 :
             b[k + 1] = b[k] \o ReportOf(base + more[k], longer[k + 1])
    BY <1>1, ReportsStep
  <1>4. \A k \in 0 .. n : more[k] = counts[k] BY CountsAppended
  <1>5. ReportedBy(base, chunks) = a[n] /\ ReportedBy(base, longer) = b[n + 1]
        /\ TotalCount(chunks) = counts[n]
    BY <1>1 DEF ReportedBy, TotalCount
  <1> HIDE DEF longer, n, a, b, counts, more
  <1>6. 0 \in T BY <1>1, <1>2, <1>3
  <1>7. ASSUME NEW k \in 0 .. n - 1, k \in T PROVE k + 1 \in T
    <2>1. b[k] = a[k] BY <1>7
    <2>2. k + 1 \in 0 .. n /\ k \in 0 .. n BY <1>1
    <2> HIDE DEF T
    <2>3. b[k + 1] = a[k + 1] BY <1>1, <1>2, <1>3, <1>4, <2>1, <2>2
    <2> QED BY <2>2, <2>3 DEF T
  <1> HIDE DEF T
  <1>8. \A k \in 0 .. n : k \in T BY <1>1, <1>6, <1>7, InductionUpTo
  <1>9. b[n] = a[n] BY <1>1, <1>8 DEF T
  <1>10. b[n + 1] = a[n] \o ReportOf(base + counts[n], c) BY <1>1, <1>3, <1>4, <1>9
  <1> QED BY <1>5, <1>10 DEF longer

LEMMA ReceivedAppended ==
  ASSUME NEW s \in Seq(Statuses), NEW x \in Statuses
  PROVE  LET t == Append(s, x)
             before == ReceivedAmong(s)[Len(s)]
         IN ReceivedAmong(t)[Len(t)] =
              IF x = NotReceived THEN before
              ELSE Append(before, [at |-> Len(s), status |-> x])
  <1> DEFINE t == Append(s, x)
             n == Len(s)
             a == ReceivedAmong(s)
             b == ReceivedAmong(t)
             T == {k \in 0 .. n : b[k] = a[k]}
  <1>1. /\ n \in Nat /\ t \in Seq(Statuses) /\ Len(t) = n + 1 /\ t[n + 1] = x
        /\ \A k \in 0 .. n - 1 : k \in 0 .. Len(t) - 1 /\ t[k + 1] = s[k + 1]
        /\ n \in 0 .. Len(t) - 1 /\ n \in 0 .. n
    BY AppendedKeeps
  <1>2. a[0] = <<>>
        /\ \A k \in 0 .. n - 1 :
             a[k + 1] = IF s[k + 1] = NotReceived THEN a[k]
                        ELSE Append(a[k], [at |-> k, status |-> s[k + 1]])
    BY ReceivedStep
  <1>3. b[0] = <<>>
        /\ \A k \in 0 .. Len(t) - 1 :
             b[k + 1] = IF t[k + 1] = NotReceived THEN b[k]
                        ELSE Append(b[k], [at |-> k, status |-> t[k + 1]])
    BY <1>1, ReceivedStep
  <1> HIDE DEF t, n, a, b
  <1>4. 0 \in T BY <1>1, <1>2, <1>3
  <1>5. ASSUME NEW k \in 0 .. n - 1, k \in T PROVE k + 1 \in T
    <2>1. b[k] = a[k] BY <1>5
    <2>2. k + 1 \in 0 .. n BY <1>1
    <2> HIDE DEF T
    <2>3. b[k + 1] = a[k + 1] BY <1>1, <1>2, <1>3, <2>1
    <2> QED BY <2>2, <2>3 DEF T
  <1> HIDE DEF T
  <1>6. \A k \in 0 .. n : k \in T BY <1>1, <1>4, <1>5, InductionUpTo
  <1>7. b[n] = a[n] BY <1>1, <1>6 DEF T
  <1>8. b[n + 1] = IF x = NotReceived THEN a[n] ELSE Append(a[n], [at |-> n, status |-> x])
    BY <1>1, <1>3, <1>7
  <1> QED BY <1>1, <1>8 DEF t, n, a, b

LEMMA ElapsedAppended ==
  ASSUME NEW deltas \in Seq(Int), NEW d \in Int
  PROVE  LET longer == Append(deltas, d) IN
         /\ \A k \in 0 .. Len(deltas) : ElapsedAfter(longer)[k] = ElapsedAfter(deltas)[k]
         /\ ElapsedAfter(longer)[Len(longer)] = ElapsedAfter(deltas)[Len(deltas)] + d \div 4
  <1> DEFINE longer == Append(deltas, d)
             n == Len(deltas)
             a == ElapsedAfter(deltas)
             b == ElapsedAfter(longer)
             T == {k \in 0 .. n : b[k] = a[k]}
  <1>1. /\ n \in Nat /\ longer \in Seq(Int) /\ Len(longer) = n + 1 /\ longer[n + 1] = d
        /\ \A k \in 0 .. n - 1 : k \in 0 .. Len(longer) - 1 /\ longer[k + 1] = deltas[k + 1]
        /\ n \in 0 .. Len(longer) - 1 /\ n \in 0 .. n
    BY AppendedKeeps
  <1>2. a \in [0 .. n -> Int] /\ a[0] = 0
        /\ \A k \in 0 .. n - 1 : a[k + 1] = a[k] + deltas[k + 1] \div 4
    BY ElapsedStep
  <1>3. b[0] = 0
        /\ \A k \in 0 .. Len(longer) - 1 : b[k + 1] = b[k] + longer[k + 1] \div 4
    BY <1>1, ElapsedStep
  <1> HIDE DEF longer, n, a, b
  <1>4. 0 \in T BY <1>1, <1>2, <1>3
  <1>5. ASSUME NEW k \in 0 .. n - 1, k \in T PROVE k + 1 \in T
    <2>1. b[k] = a[k] BY <1>5
    <2>2. k + 1 \in 0 .. n BY <1>1
    <2> HIDE DEF T
    <2>3. b[k + 1] = a[k + 1] BY <1>1, <1>2, <1>3, <2>1
    <2> QED BY <2>2, <2>3 DEF T
  <1> HIDE DEF T
  <1>6. \A k \in 0 .. n : k \in T BY <1>1, <1>4, <1>5, InductionUpTo
  <1>7. \A k \in 0 .. n : b[k] = a[k] BY <1>6 DEF T
  <1>8. b[n + 1] = a[n] + d \div 4 BY <1>1, <1>3, <1>7
  <1> QED BY <1>1, <1>7, <1>8 DEF longer, n, a, b

(***************************************************************************)
(* What the pending statuses report                                        *)
(***************************************************************************)
LEMMA VectorSymbols ==
  ASSUME NEW s
  PROVE  SymbolsOf(VectorChunk(s)) = s
  BY DEF SymbolsOf, VectorChunk

LEMMA NothingPending ==
  ASSUME NEW first \in Int
  PROVE  ReportOf(first, VectorChunk(<<>>)) = <<>>
  <1> DEFINE c == VectorChunk(<<>>)
  <1>1. <<>> \in Seq(Statuses) /\ Len(<<>>) = 0 BY EmptySeq
  <1>2. SymbolsOf(c) = <<>> BY VectorSymbols
  <1>3. ReceivedIn(c) = ReceivedAmong(<<>>)[0] BY <1>1, <1>2 DEF ReceivedIn
  <1>4. ReceivedAmong(<<>>)[0] = <<>> BY <1>1, ReceivedStep
  <1> HIDE DEF c
  <1>5. ReportOf(first, c) \in Seq(Result) /\ Len(ReportOf(first, c)) = Len(ReceivedIn(c))
    BY <1>1, <1>2, ReportOfTyped
  <1>6. Len(ReportOf(first, c)) = 0 BY <1>1, <1>3, <1>4, <1>5
  <1>7. ReportOf(first, c) = <<>> BY <1>5, <1>6, EmptySeq
  <1> QED BY <1>7 DEF c

\* A run of missing packets reports nothing.
LEMMA MissingRun ==
  ASSUME NEW first \in Int, NEW n
  PROVE  ReportOf(first, RunChunk(NotReceived, n)) = <<>>
  <1>1. SymbolsOf(RunChunk(NotReceived, n)) = <<>> BY DEF SymbolsOf, RunChunk
  <1>2. SymbolsOf(VectorChunk(<<>>)) = <<>> BY VectorSymbols
  <1>3. ReceivedIn(RunChunk(NotReceived, n)) = ReceivedIn(VectorChunk(<<>>))
    BY <1>1, <1>2 DEF ReceivedIn
  <1>4. ReportOf(first, RunChunk(NotReceived, n)) = ReportOf(first, VectorChunk(<<>>))
    BY <1>3 DEF ReportOf
  <1> QED BY <1>4, NothingPending

\* A run of equal statuses reports what a vector of them would.
LEMMA RunAsVector ==
  ASSUME NEW first \in Int, NEW s \in Seq(Statuses), NEW x \in Statuses \ {NotReceived},
         \A k \in 1 .. Len(s) : s[k] = x
  PROVE  ReportOf(first, RunChunk(x, Len(s))) = ReportOf(first, VectorChunk(s))
  <1> DEFINE n == Len(s)
             c == RunChunk(x, n)
  <1>1. n \in Nat /\ s \in [1 .. n -> Statuses] BY LenProperties
  <1>2. c.kind = "run" /\ c.status = x /\ c.count = n BY DEF RunChunk
  <1> HIDE DEF c
  <1>3. SymbolsOf(c) = [k \in 1 .. n |-> x] BY <1>2 DEF SymbolsOf
  <1> HIDE DEF n
  <1>4. s = [k \in 1 .. n |-> x] BY <1>1 DEF n
  <1>5. ReceivedIn(c) = ReceivedIn(VectorChunk(s))
    BY <1>3, <1>4, VectorSymbols DEF ReceivedIn
  <1>6. ReportOf(first, c) = ReportOf(first, VectorChunk(s)) BY <1>5 DEF ReportOf
  <1> QED BY <1>6 DEF c, n

\* One status more: of a missing packet, or of a received one.
LEMMA PendingMissing ==
  ASSUME NEW first \in Int, NEW s \in Seq(Statuses)
  PROVE  ReportOf(first, VectorChunk(Append(s, NotReceived))) = ReportOf(first, VectorChunk(s))
  <1> DEFINE t == Append(s, NotReceived)
  <1>1. ReceivedAmong(t)[Len(t)] = ReceivedAmong(s)[Len(s)]
    BY ReceivedAppended DEF Statuses
  <1> HIDE DEF t
  <1>2. ReceivedIn(VectorChunk(t)) = ReceivedIn(VectorChunk(s))
    BY <1>1, VectorSymbols DEF ReceivedIn
  <1>3. ReportOf(first, VectorChunk(t)) = ReportOf(first, VectorChunk(s)) BY <1>2 DEF ReportOf
  <1> QED BY <1>3 DEF t

LEMMA PendingReceived ==
  ASSUME NEW first \in Int, NEW s \in Seq(Statuses), NEW x \in Statuses \ {NotReceived}
  PROVE  ReportOf(first, VectorChunk(Append(s, x))) =
           Append(ReportOf(first, VectorChunk(s)),
                  [seq |-> (first + Len(s)) % SeqSpace, status |-> x])
  <1> DEFINE t == Append(s, x)
             c == VectorChunk(s)
             d == VectorChunk(t)
             r == ReceivedIn(c)
             q == ReceivedIn(d)
             n == Len(r)
             before == ReportOf(first, c)
             after == ReportOf(first, d)
             new == [seq |-> (first + Len(s)) % SeqSpace, status |-> x]
  <1>1. ReceivedAmong(t)[Len(t)] = Append(ReceivedAmong(s)[Len(s)], [at |-> Len(s), status |-> x])
    BY ReceivedAppended
  <1>2. t \in Seq(Statuses) BY AppendProperties
  <1> HIDE DEF t
  <1>3. SymbolsOf(c) = s /\ SymbolsOf(d) = t BY VectorSymbols
  <1> HIDE DEF c, d
  <1>4. q = Append(r, [at |-> Len(s), status |-> x]) BY <1>1, <1>3 DEF ReceivedIn
  <1>5. /\ r \in Seq(At) /\ before \in Seq(Result) /\ Len(before) = n
        /\ q \in Seq(At) /\ after \in Seq(Result) /\ Len(after) = Len(q)
    BY <1>2, <1>3, ReportOfTyped
  <1>6. Len(s) \in Nat /\ n \in Nat BY <1>5, LenProperties
  <1>7. /\ Len(q) = n + 1 /\ \A i \in 1 .. n : q[i] = r[i]
        /\ q[n + 1] = [at |-> Len(s), status |-> x]
    <2>1. [at |-> Len(s), status |-> x] \in At BY <1>6 DEF At
    <2> QED BY <1>4, <1>5, <2>1, AppendProperties
  <1>8. /\ \A i \in 1 .. n : before[i] = [seq |-> (first + r[i].at) % SeqSpace, status |-> r[i].status]
        /\ \A i \in 1 .. n + 1 : after[i] = [seq |-> (first + q[i].at) % SeqSpace, status |-> q[i].status]
    <2>1. DOMAIN r = 1 .. n /\ DOMAIN q = 1 .. n + 1 BY <1>5, <1>7, LenProperties
    <2> QED BY <2>1 DEF ReportOf
  <1>9. new \in Result
    <2>1. (first + Len(s)) % SeqSpace \in Numbers
      <3> DEFINE l == Len(s)
      <3>1. first + l \in Int BY <1>6
      <3> HIDE DEF l
      <3> QED BY <3>1, WrapTyped DEF l
    <2> QED BY <2>1 DEF Result
  <1> HIDE DEF r, q, before, after, n
  <1>10. \A i \in 1 .. n : after[i] = before[i]
    <2>1. \A i \in 1 .. n : i \in 1 .. n + 1 BY <1>6
    <2> QED BY <1>7, <1>8, <2>1
  <1>11. after[n + 1] = new
    <2>1. n + 1 \in 1 .. n + 1 BY <1>6
    <2>2. q[n + 1].at = Len(s) /\ q[n + 1].status = x BY <1>7
    <2> QED BY <1>8, <2>1, <2>2
  <1> HIDE DEF new
  <1>12. after = Append(before, new)
    <2> DEFINE longer == Append(before, new)
    <2>1. /\ longer \in Seq(Result) /\ Len(longer) = n + 1 /\ longer[n + 1] = new
          /\ \A i \in 1 .. n : longer[i] = before[i]
      BY <1>5, <1>9, AppendProperties
    <2> HIDE DEF longer
    <2>2. Len(after) = n + 1 BY <1>5, <1>7
    <2>3. \A i \in 1 .. n + 1 : after[i] = longer[i]
      <3> SUFFICES ASSUME NEW i \in 1 .. n + 1 PROVE after[i] = longer[i]
        OBVIOUS
      <3>1. i \in 1 .. n \/ i = n + 1 BY <1>6
      <3> QED BY <1>10, <1>11, <2>1, <3>1
    <2>4. after = longer BY <1>5, <2>1, <2>2, <2>3, SeqEqual
    <2> QED BY <2>4 DEF longer
  <1> QED BY <1>12 DEF after, before, new, c, d, t

\* Any number of missing packets.
LEMMA PendingAllMissing ==
  ASSUME NEW first \in Int, NEW s \in Seq(Statuses), NEW m \in Nat
  PROVE  LET filled == s \o [k \in 1 .. m |-> NotReceived] IN
         /\ filled \in Seq(Statuses) /\ Len(filled) = Len(s) + m
         /\ ReportOf(first, VectorChunk(filled)) = ReportOf(first, VectorChunk(s))
  <1> DEFINE NRs(j) == [k \in 1 .. j |-> NotReceived]
             Same(j) == ReportOf(first, VectorChunk(s \o NRs(j))) = ReportOf(first, VectorChunk(s))
             T == {j \in 0 .. m : Same(j)}
  <1>1. \A j \in Nat :
          /\ NRs(j) \in Seq(Statuses) /\ Len(NRs(j)) = j
          /\ \A k \in 1 .. j : NRs(j)[k] = NotReceived
    BY DEF Statuses
  <1> HIDE DEF NRs
  <1>2. NRs(0) = <<>>
    <2>1. NRs(0) \in Seq(Statuses) /\ Len(NRs(0)) = 0 BY <1>1
    <2> QED BY <2>1, EmptySeq
  <1>3. \A j \in Nat : NRs(j + 1) = Append(NRs(j), NotReceived)
    <2> SUFFICES ASSUME NEW j \in Nat PROVE NRs(j + 1) = Append(NRs(j), NotReceived)
      OBVIOUS
    <2> DEFINE a == NRs(j)
               b == NRs(j + 1)
    <2>0. j + 1 \in Nat OBVIOUS
    <2>1. /\ a \in Seq(Statuses) /\ Len(a) = j /\ b \in Seq(Statuses) /\ Len(b) = j + 1
      BY <1>1, <2>0
    <2>2. \A k \in 1 .. j : a[k] = NotReceived BY <1>1
    <2>3. \A k \in 1 .. j + 1 : b[k] = NotReceived
      <3>1. j + 1 \in Nat OBVIOUS
      <3> QED BY <1>1, <3>1
    <2> DEFINE c == Append(a, NotReceived)
    <2> HIDE DEF a, b
    <2>4. NotReceived \in Statuses BY DEF Statuses
    <2>5. c \in Seq(Statuses) /\ Len(c) = j + 1 /\ c[j + 1] = NotReceived
          /\ \A k \in 1 .. j : c[k] = a[k]
      BY <2>1, <2>4, AppendProperties
    <2> HIDE DEF c
    <2>6. \A k \in 1 .. j + 1 : k \in 1 .. j \/ k = j + 1 OBVIOUS
    <2>7. \A k \in 1 .. Len(b) : b[k] = c[k] BY <2>1, <2>2, <2>3, <2>5, <2>6
    <2>8. b = c BY <2>1, <2>5, <2>7, SeqEqual
    <2> QED BY <2>8 DEF a, b, c
  <1>4. Len(s) \in Nat BY LenProperties
  <1>5. 0 \in T
    <2>1. s \o NRs(0) = s BY <1>2, ConcatEmptySeq
    <2>2. Same(0) BY <2>1
    <2> HIDE DEF Same
    <2> QED BY <2>2
  <1>6. ASSUME NEW j \in 0 .. m - 1, j \in T PROVE j + 1 \in T
    <2> DEFINE t == s \o NRs(j)
    <2>1. NRs(j) \in Seq(Statuses) /\ t \in Seq(Statuses) BY <1>1, ConcatProperties
    <2>2. s \o NRs(j + 1) = Append(t, NotReceived)
      <3>1. NotReceived \in Statuses BY DEF Statuses
      <3>2. <<NotReceived>> \in Seq(Statuses) BY <3>1
      <3>3. NRs(j + 1) = NRs(j) \o <<NotReceived>>
        <4>1. Append(NRs(j), NotReceived) = NRs(j) \o <<NotReceived>>
          BY <2>1, <3>1, AppendIsConcat
        <4>2. j \in Nat OBVIOUS
        <4> QED BY <1>3, <4>1, <4>2
      <3>4. s \o (NRs(j) \o <<NotReceived>>) = (s \o NRs(j)) \o <<NotReceived>>
        BY <2>1, <3>2, ConcatAssociative
      <3>5. (s \o NRs(j)) \o <<NotReceived>> = Append(s \o NRs(j), NotReceived)
        BY <2>1, <3>1, AppendIsConcat
      <3> QED BY <3>3, <3>4, <3>5
    <2>3. ReportOf(first, VectorChunk(t)) = ReportOf(first, VectorChunk(s)) BY <1>6
    <2> HIDE DEF t
    <2>4. ReportOf(first, VectorChunk(Append(t, NotReceived))) = ReportOf(first, VectorChunk(t))
      BY <2>1, PendingMissing
    <2>5. Same(j + 1) BY <2>2, <2>3, <2>4
    <2> HIDE DEF Same
    <2> QED BY <2>5
  <1>7. m \in T
    <2> HIDE DEF T
    <2>1. \A j \in 0 .. m : j \in T BY <1>5, <1>6, InductionUpTo
    <2> QED BY <2>1
  <1>8. Same(m) BY <1>7
  <1>9. s \o NRs(m) \in Seq(Statuses) /\ Len(s \o NRs(m)) = Len(s) + m
    BY <1>1, ConcatProperties
  <1> QED BY <1>8, <1>9 DEF NRs

(***************************************************************************)
(* Closing the pending statuses                                            *)
(***************************************************************************)

\* What a chunk more, with nothing pending after it, makes of a packet.
Chunked(q, p, c) ==
  /\ DOMAIN q = PacketFields /\ SameHead(q, p)
  /\ q.chunks = Append(p.chunks, c)
  /\ q.packetStatusCount = (p.packetStatusCount + ChunkCount(c)) % SeqSpace
  /\ q.deltasAndChunksSize = p.deltasAndChunksSize + 2
  /\ q.deltas = p.deltas /\ q.statuses = <<>>
  /\ q.allSameStatus = p.allSameStatus

LEMMA ReportTyped ==
  ASSUME NEW p, Filed(p)
  PROVE  /\ TotalCount(p.chunks) \in Nat /\ Len(p.statuses) \in Nat /\ Len(p.deltas) \in Nat
         /\ p.baseSequenceNumber + TotalCount(p.chunks) \in Int
         /\ ReportedBy(p.baseSequenceNumber, p.chunks) \in Seq(Result)
         /\ ReportOf(p.baseSequenceNumber + TotalCount(p.chunks), VectorChunk(p.statuses))
              \in Seq(Result)
         /\ Report(p) \in Seq(Result)
  <1> DEFINE base == p.baseSequenceNumber
             n == TotalCount(p.chunks)
             done == ReportedBy(base, p.chunks)
             open == ReportOf(base + n, VectorChunk(p.statuses))
  <1>1. base \in Int /\ p.chunks \in Seq(Chunks) /\ p.statuses \in Seq(Statuses)
        /\ p.deltas \in Seq(Deltas)
    BY NumbersNat DEF Filed
  <1>2. Len(p.chunks) \in 0 .. Len(p.chunks) BY <1>1, LenProperties
  <1>3. n \in Nat BY <1>1, <1>2, CountsStep DEF TotalCount
  <1>4. base + n \in Int BY <1>1, <1>3
  <1>5. done \in Seq(Result) BY <1>1, <1>2, ReportsStep DEF ReportedBy
  <1>6. open \in Seq(Result)
    <2> DEFINE first == base + n
    <2>1. first \in Int BY <1>4
    <2> HIDE DEF first
    <2>2. ReportOf(first, VectorChunk(p.statuses)) \in Seq(Result)
      BY <1>1, <2>1, VectorSymbols, ReportOfTyped
    <2> QED BY <2>2 DEF first
  <1>7. Report(p) = done \o open BY DEF Report
  <1>8. Len(p.statuses) \in Nat /\ Len(p.deltas) \in Nat BY <1>1, LenProperties
  <1> HIDE DEF done, open
  <1>9. Report(p) \in Seq(Result) BY <1>5, <1>6, <1>7, ConcatProperties
  <1> QED BY <1>3, <1>4, <1>5, <1>6, <1>8, <1>9 DEF done, open

LEMMA ChunkedIs ==
  ASSUME NEW p, Filed(p), NEW c \in Chunks, NEW q, Chunked(q, p, c)
  PROVE  LET base == p.baseSequenceNumber
             n == TotalCount(p.chunks)
         IN /\ Filed(q)
            /\ Total(q) = n + ChunkCount(c)
            /\ Cost(q) = p.deltasAndChunksSize + 2
            /\ Report(q) = ReportedBy(base, p.chunks) \o ReportOf(base + n, c)
  <1> DEFINE base == p.baseSequenceNumber
             n == TotalCount(p.chunks)
             m == ChunkCount(c)
             done == ReportedBy(base, q.chunks)
  <1>1. /\ p.chunks \in Seq(Chunks) /\ q.chunks = Append(p.chunks, c)
        /\ q.baseSequenceNumber = base /\ base \in Numbers
        /\ q.statuses = <<>>
    BY DEF Filed, Chunked, SameHead
  <1>2. q.chunks \in Seq(Chunks) BY <1>1, AppendProperties
  <1>3. TotalCount(q.chunks) = n + m /\ n \in Nat BY <1>1, CountsAppended
  <1>4. m \in Nat BY ChunksCount
  <1>5. <<>> \in Seq(Statuses) /\ Len(<<>>) = 0 BY EmptySeq
  <1>6. q.packetStatusCount = TotalCount(q.chunks) % SeqSpace
    <2>1. q.packetStatusCount = ((n % SeqSpace) + m) % SeqSpace
      BY DEF Filed, Chunked
    <2> HIDE DEF n, m
    <2>2. ((n % SeqSpace) + m) % SeqSpace = (n + m) % SeqSpace
      BY <1>3, <1>4 DEF SeqSpace
    <2> QED BY <1>3, <2>1, <2>2
  <1>7. Filed(q)
    <2>1. /\ DOMAIN q = PacketFields /\ q.deltas = p.deltas
          /\ q.deltasAndChunksSize = p.deltasAndChunksSize + 2
          /\ q.allSameStatus = p.allSameStatus
      BY DEF Chunked
    <2>2. Len(p.deltas) \in Nat BY ReportTyped
    <2>3. q.deltasAndChunksSize \in Nat /\ Len(q.deltas) <= q.deltasAndChunksSize
      BY <2>1, <2>2 DEF Filed
    <2>4. q.deltas \in Seq(Deltas) /\ q.allSameStatus \in BOOLEAN BY <2>1 DEF Filed
    <2> QED BY <1>1, <1>2, <1>5, <1>6, <2>1, <2>3, <2>4 DEF Filed
  <1>8. Total(q) = n + m
    <2> HIDE DEF n, m
    <2> QED BY <1>1, <1>3, <1>4, <1>5 DEF Total
  <1>9. Cost(q) = p.deltasAndChunksSize + 2
    <2>1. q.deltasAndChunksSize = p.deltasAndChunksSize + 2 /\ Len(q.statuses) = 0
      BY <1>1, <1>5 DEF Chunked
    <2>2. p.deltasAndChunksSize \in Nat BY DEF Filed
    <2> QED BY <2>1, <2>2 DEF Cost
  <1>10. Report(q) = done
    <2> DEFINE first == base + TotalCount(q.chunks)
    <2>1. first \in Int BY <1>1, <1>7, ReportTyped
    <2>2. Report(q) = done \o ReportOf(first, VectorChunk(<<>>)) BY <1>1 DEF Report
    <2>3. done \in Seq(Result) BY <1>1, <1>7, ReportTyped
    <2> HIDE DEF first, done
    <2> QED BY <2>1, <2>2, <2>3, NothingPending, ConcatEmptySeq
  <1>11. done = ReportedBy(base, p.chunks) \o ReportOf(base + n, c)
    <2>1. base \in Int BY <1>1, NumbersNat
    <2> HIDE DEF base, n
    <2> QED BY <1>1, <2>1, ReportsAppended DEF n
  <1> QED BY <1>7, <1>8, <1>9, <1>10, <1>11

\* A closed run or vector reports what was pending.
LEMMA CloseRunKeeps ==
  ASSUME NEW p, Filed(p), p.currentStatus \in Statuses \ {NotReceived},
         Len(p.statuses) \in 1 .. maxPacketStatusCount,
         \A k \in 1 .. Len(p.statuses) : p.statuses[k] = p.currentStatus
  PROVE  LET q == CloseRun(p) IN
         /\ Filed(q) /\ Extends(q, p, 0) /\ Cost(q) = Cost(p)
         /\ q.statuses = <<>> /\ q.allSameStatus = p.allSameStatus
         /\ q.currentStatus = p.currentStatus
  <1> DEFINE q == CloseRun(p)
             l == Len(p.statuses)
             x == p.currentStatus
             c == RunChunk(x, l)
             base == p.baseSequenceNumber
             n == TotalCount(p.chunks)
  <1>1. l % SeqSpace = l /\ l \in 1 .. maxPacketStatusCount
    <2> HIDE DEF l
    <2>1. l \in 1 .. maxPacketStatusCount BY DEF l
    <2> QED BY <2>1, CountNoWrap
  <1>2. DOMAIN p = PacketFields /\ p.statuses \in Seq(Statuses) BY DEF Filed
  <1>3. c \in Chunks BY <1>1 DEF Chunks
  <1>4. ChunkCount(c) = l BY DEF ChunkCount, RunChunk
  <1>5. Chunked(q, p, c) /\ q.currentStatus = x BY <1>1, <1>2, <1>4, CloseRunFields DEF Chunked
  <1> HIDE DEF q, c
  <1>6. Filed(q) /\ Total(q) = n + l /\ Cost(q) = p.deltasAndChunksSize + 2
        /\ Report(q) = ReportedBy(base, p.chunks) \o ReportOf(base + n, c)
    BY <1>3, <1>4, <1>5, ChunkedIs
  <1>7. ReportOf(base + n, c) = ReportOf(base + n, VectorChunk(p.statuses))
    <2> DEFINE first == base + n
    <2>1. first \in Int BY ReportTyped
    <2> HIDE DEF first
    <2>2. ReportOf(first, RunChunk(x, Len(p.statuses))) = ReportOf(first, VectorChunk(p.statuses))
      BY <1>2, <2>1, RunAsVector
    <2> QED BY <2>2 DEF first, c
  <1>8. Report(q) = Report(p) BY <1>6, <1>7 DEF Report
  <1>9. n \in Nat /\ l \in Nat BY ReportTyped
  <1>10. Total(q) = Total(p) + 0
    <2>1. Total(p) = n + l BY DEF Total
    <2> HIDE DEF n, l
    <2> QED BY <1>6, <1>9, <2>1
  <1>11. Cost(q) = Cost(p)
    <2>1. Cost(p) = p.deltasAndChunksSize + 2 BY <1>1 DEF Cost
    <2> QED BY <1>6, <2>1
  <1>12. Extends(q, p, 0) BY <1>5, <1>8, <1>10 DEF Extends, Chunked
  <1> QED BY <1>5, <1>6, <1>11, <1>12 DEF Chunked, q

LEMMA CloseVectorKeeps ==
  ASSUME NEW p, Filed(p), Len(p.statuses) \in 1 .. VectorSize
  PROVE  LET q == CloseVector(p) IN
         /\ Filed(q) /\ Extends(q, p, 0) /\ Cost(q) = Cost(p)
         /\ q.statuses = <<>> /\ q.allSameStatus = p.allSameStatus
         /\ q.currentStatus = p.currentStatus
  <1> DEFINE q == CloseVector(p)
             l == Len(p.statuses)
             c == VectorChunk(p.statuses)
             base == p.baseSequenceNumber
             n == TotalCount(p.chunks)
  <1>2. DOMAIN p = PacketFields /\ p.statuses \in Seq(Statuses) BY DEF Filed
  <1>3. c \in Chunks BY <1>2 DEF Chunks
  <1>4. ChunkCount(c) = l BY DEF ChunkCount, VectorChunk
  <1>5. Chunked(q, p, c) /\ q.currentStatus = p.currentStatus
    BY <1>2, <1>4, CloseVectorFields DEF Chunked
  <1> HIDE DEF q, c
  <1>6. Filed(q) /\ Total(q) = n + l /\ Cost(q) = p.deltasAndChunksSize + 2
        /\ Report(q) = ReportedBy(base, p.chunks) \o ReportOf(base + n, c)
    BY <1>3, <1>4, <1>5, ChunkedIs
  <1>8. Report(q) = Report(p) BY <1>6 DEF Report, c
  <1>9. n \in Nat /\ l \in Nat BY ReportTyped
  <1>10. Total(q) = Total(p) + 0
    <2>1. Total(p) = n + l BY DEF Total
    <2> HIDE DEF n, l
    <2> QED BY <1>6, <1>9, <2>1
  <1>11. Cost(q) = Cost(p)
    <2>1. l # 0
      <3>1. l \in 1 .. 7 BY DEF VectorSize
      <3> HIDE DEF l
      <3> QED BY <3>1
    <2>2. Cost(p) = p.deltasAndChunksSize + 2 BY <2>1 DEF Cost
    <2> QED BY <1>6, <2>2
  <1>12. Extends(q, p, 0) BY <1>5, <1>8, <1>10 DEF Extends, Chunked
  <1> QED BY <1>5, <1>6, <1>11, <1>12 DEF Chunked, q

\* A run of missing packets, entered when nothing is pending.
LEMMA MissingRunKeeps ==
  ASSUME NEW p, Filed(p), p.statuses = <<>>, NEW m \in 1 .. maxPacketStatusCount
  PROVE  LET q == CreateRunLengthChunk(p, NotReceived, m) IN
         /\ Filed(q) /\ Extends(q, p, m) /\ Cost(q) = Cost(p) + 2
         /\ q.statuses = <<>> /\ q.allSameStatus = p.allSameStatus
         /\ q.currentStatus = p.currentStatus
  <1> DEFINE q == CreateRunLengthChunk(p, NotReceived, m)
             c == RunChunk(NotReceived, m)
             base == p.baseSequenceNumber
             n == TotalCount(p.chunks)
  <1>1. m % SeqSpace = m /\ m \in Nat BY CountNoWrap
  <1>2. DOMAIN p = PacketFields BY DEF Filed
  <1>3. c \in Chunks BY DEF Chunks, Statuses
  <1>4. ChunkCount(c) = m BY DEF ChunkCount, RunChunk
  <1>5. Chunked(q, p, c) /\ q.currentStatus = p.currentStatus
    <2>1. q = AddChunk(p, c, m) BY <1>1 DEF CreateRunLengthChunk
    <2> QED BY <1>2, <1>4, <2>1, AddChunkFields DEF Chunked
  <1> HIDE DEF q, c
  <1>6. Filed(q) /\ Total(q) = n + m /\ Cost(q) = p.deltasAndChunksSize + 2
        /\ Report(q) = ReportedBy(base, p.chunks) \o ReportOf(base + n, c)
    BY <1>3, <1>4, <1>5, ChunkedIs
  <1>7. Report(q) = Report(p)
    <2> DEFINE first == base + n
    <2>1. first \in Int BY ReportTyped
    <2> HIDE DEF first
    <2>2. ReportOf(first, c) = ReportOf(first, VectorChunk(p.statuses))
      BY <2>1, MissingRun, NothingPending DEF c
    <2> QED BY <1>6, <2>2 DEF first, Report
  <1>8. n \in Nat /\ Len(p.statuses) = 0 BY ReportTyped, EmptySeq
  <1>9. Total(q) = Total(p) + m
    <2>1. Total(p) = n + 0 BY <1>8 DEF Total
    <2> HIDE DEF n
    <2> QED BY <1>1, <1>6, <1>8, <2>1
  <1>10. Cost(q) = Cost(p) + 2
    <2>1. p.deltasAndChunksSize \in Nat BY DEF Filed
    <2>2. Cost(p) = p.deltasAndChunksSize BY <1>8, <2>1 DEF Cost
    <2> QED BY <1>6, <2>2
  <1>11. Extends(q, p, m) BY <1>5, <1>7, <1>9 DEF Extends, Chunked
  <1> QED BY <1>5, <1>6, <1>10, <1>11 DEF Chunked, q

LEMMA ExtendsTwice ==
  ASSUME NEW p, NEW q, NEW r, NEW n \in Nat, NEW m \in Nat, Filed(p),
         Extends(q, p, n), Extends(r, q, m)
  PROVE  Extends(r, p, n + m)
  <1> DEFINE t == TotalCount(p.chunks)
             l == Len(p.statuses)
  <1>1. t \in Nat /\ l \in Nat BY ReportTyped
  <1>2. Total(p) = t + l BY DEF Total
  <1> HIDE DEF t, l
  <1>3. Total(r) = Total(p) + (n + m) BY <1>1, <1>2 DEF Extends
  <1> QED BY <1>3 DEF Extends, SameHead

\* currentStatus is not part of what is reported.
LEMMA StatusSet ==
  ASSUME NEW p, Filed(p), NEW x
  PROVE  LET q == [p EXCEPT !.currentStatus = x] IN
         /\ Filed(q) /\ Extends(q, p, 0) /\ Cost(q) = Cost(p)
         /\ q.statuses = p.statuses /\ q.allSameStatus = p.allSameStatus
         /\ q.currentStatus = x
  <1> DEFINE q == [p EXCEPT !.currentStatus = x]
             t == TotalCount(p.chunks)
             l == Len(p.statuses)
  <1>1. t \in Nat /\ l \in Nat BY ReportTyped
  <1>2. DOMAIN p = PacketFields BY DEF Filed
  <1>3. /\ DOMAIN q = PacketFields /\ SameHead(q, p)
        /\ q.chunks = p.chunks /\ q.packetStatusCount = p.packetStatusCount
        /\ q.deltasAndChunksSize = p.deltasAndChunksSize /\ q.deltas = p.deltas
        /\ q.statuses = p.statuses /\ q.allSameStatus = p.allSameStatus
        /\ q.currentStatus = x
    BY <1>2 DEF PacketFields, SameHead
  <1> HIDE DEF q
  <1>4. Filed(q) BY <1>3 DEF Filed, SameHead
  <1>5. Total(q) = Total(p) + 0
    <2>1. Total(p) = t + l /\ Total(q) = t + l BY <1>3 DEF Total
    <2> HIDE DEF t, l
    <2> QED BY <1>1, <2>1
  <1>6. Report(q) = Report(p) BY <1>3 DEF Report, SameHead
  <1>7. Cost(q) = Cost(p) BY <1>3 DEF Cost
  <1>8. Extends(q, p, 0) BY <1>3, <1>5, <1>6 DEF Extends
  <1> QED BY <1>3, <1>4, <1>7, <1>8 DEF q

\* Statuses of missing packets.
WithMissing(p, m) ==
  [p EXCEPT !.statuses = @ \o [k \in 1 .. m |-> NotReceived],
            !.currentStatus = NotReceived]

LEMMA FilledKeeps ==
  ASSUME NEW p, Filed(p), NEW m \in Nat
  PROVE  LET q == WithMissing(p, m) IN
         /\ Filed(q) /\ Extends(q, p, m) /\ Cost(q) <= Cost(p) + 2
         /\ Len(q.statuses) = Len(p.statuses) + m
         /\ q.allSameStatus = p.allSameStatus /\ q.currentStatus = NotReceived
  <1> DEFINE filled == p.statuses \o [k \in 1 .. m |-> NotReceived]
             q == WithMissing(p, m)
             t == TotalCount(p.chunks)
             l == Len(p.statuses)
             first == p.baseSequenceNumber + t
  <1>1. t \in Nat /\ l \in Nat /\ first \in Int BY ReportTyped
  <1>2. DOMAIN p = PacketFields /\ p.statuses \in Seq(Statuses) BY DEF Filed
  <1>3. q = [p EXCEPT !.statuses = filled, !.currentStatus = NotReceived] BY DEF WithMissing
  <1> HIDE DEF filled, q
  <1>4. /\ DOMAIN q = PacketFields /\ SameHead(q, p)
        /\ q.chunks = p.chunks /\ q.packetStatusCount = p.packetStatusCount
        /\ q.deltasAndChunksSize = p.deltasAndChunksSize /\ q.deltas = p.deltas
        /\ q.statuses = filled /\ q.allSameStatus = p.allSameStatus
        /\ q.currentStatus = NotReceived
    BY <1>2, <1>3 DEF PacketFields, SameHead
  <1>5. filled \in Seq(Statuses) /\ Len(filled) = l + m
        /\ ReportOf(first, VectorChunk(filled)) = ReportOf(first, VectorChunk(p.statuses))
    <2> HIDE DEF first
    <2> QED BY <1>1, <1>2, PendingAllMissing DEF filled
  <1>6. Filed(q) BY <1>4, <1>5 DEF Filed, SameHead
  <1>7. Total(q) = Total(p) + m
    <2>1. Total(p) = t + l /\ Total(q) = t + (l + m) BY <1>4, <1>5 DEF Total
    <2> HIDE DEF t, l
    <2> QED BY <1>1, <2>1
  <1>8. Report(q) = Report(p) BY <1>4, <1>5 DEF Report, SameHead
  <1>9. Cost(q) <= Cost(p) + 2
    <2>1. p.deltasAndChunksSize \in Nat BY DEF Filed
    <2> DEFINE a == p.deltasAndChunksSize
    <2>2. Cost(p) = a + (IF l = 0 THEN 0 ELSE 2) /\ Cost(q) = a + (IF l + m = 0 THEN 0 ELSE 2)
      BY <1>4, <1>5 DEF Cost
    <2>3. a \in Nat BY <2>1
    <2> HIDE DEF a, l
    <2> QED BY <1>1, <2>2, <2>3
  <1>10. Extends(q, p, m) BY <1>4, <1>7, <1>8 DEF Extends
  <1> QED BY <1>4, <1>5, <1>6, <1>9, <1>10 DEF q

\* A run that is long enough for a chunk of its own is closed.
LEMMA LongRunKeeps ==
  ASSUME NEW p, Filed(p), Ready(p), Len(p.deltas) <= maxPacketStatusCount,
         LongRunPending(p), p.currentStatus # NotReceived
  PROVE  LET q == CloseRun(p) IN
         /\ Filed(q) /\ Extends(q, p, 0) /\ Cost(q) = Cost(p)
         /\ q.statuses = <<>> /\ q.allSameStatus = p.allSameStatus
         /\ q.currentStatus = p.currentStatus
  <1> DEFINE l == Len(p.statuses)
  <1>1. l \in Nat /\ Len(p.deltas) \in Nat BY ReportTyped
  <1>2. l >= 7 /\ p.allSameStatus BY DEF LongRunPending, VectorSize
  <1>3. l <= Len(p.deltas) /\ \A k \in 1 .. l : p.statuses[k] = p.currentStatus
    BY <1>2 DEF Ready
  <1>4. l \in 1 .. maxPacketStatusCount
    <2>1. l <= maxPacketStatusCount /\ maxPacketStatusCount \in Nat
      <3> DEFINE d == Len(p.deltas)
      <3>1. d \in Nat /\ l <= d /\ d <= maxPacketStatusCount BY <1>1, <1>3
      <3> HIDE DEF d, l
      <3> QED BY <1>1, <3>1 DEF maxPacketStatusCount
    <2> HIDE DEF l
    <2> QED BY <1>1, <1>2, <2>1
  <1>5. p.currentStatus \in Statuses \ {NotReceived}
    <2>1. l # 0
      <3> HIDE DEF l
      <3> QED BY <1>1, <1>2
    <2> QED BY <2>1 DEF Ready
  <1> QED BY <1>3, <1>4, <1>5, CloseRunKeeps

\* The packets missing before a received one.
LEMMA FillMissingKeeps ==
  ASSUME NEW p, Filed(p), Ready(p), Len(p.deltas) <= maxPacketStatusCount,
         p.currentStatus # NotReceived, NEW missing \in 1 .. maxPacketStatusCount
  PROVE  LET q == FillMissing(p, missing) IN
         /\ Filed(q) /\ Ready(q) /\ Extends(q, p, missing) /\ Cost(q) <= Cost(p) + 4
  <1> DEFINE closed == IF LongRunPending(p) THEN CloseRun(p) ELSE p
             l == Len(closed.statuses)
             room == VectorSize - l
             represented == IF missing < room THEN missing ELSE room
             filled == WithMissing(closed, represented)
             emptied == CloseVector(filled)
             vectored == IF Len(filled.statuses) = VectorSize
                         THEN [emptied EXCEPT !.currentStatus = None] ELSE filled
             left == missing - represented
             run == CreateRunLengthChunk(vectored, NotReceived, left)
  <1>1. FillMissing(p, missing) =
          IF left = 0 THEN vectored
          ELSE [run EXCEPT !.statuses = <<>>, !.currentStatus = None]
    BY DEF FillMissing, WithMissing
  <1>2. Filed(closed) /\ Extends(closed, p, 0) /\ Cost(closed) = Cost(p) /\ l \in 0 .. 6
    <2>1. CASE LongRunPending(p)
      <3>1. closed = CloseRun(p) BY <2>1
      <3> HIDE DEF closed
      <3>2. Len(closed.statuses) = 0 BY <2>1, <3>1, LongRunKeeps, EmptySeq
      <3> QED BY <2>1, <3>1, <3>2, LongRunKeeps
    <2>2. CASE ~LongRunPending(p)
      <3>1. closed = p BY <2>2
      <3>2. Len(p.statuses) \in Nat /\ Len(p.statuses) < 7
        <4>1. Len(p.statuses) \in Nat BY ReportTyped
        <4>2. CASE p.allSameStatus
          <5>1. ~(Len(p.statuses) >= 7) BY <2>2, <4>2 DEF LongRunPending, VectorSize
          <5> QED BY <4>1, <5>1
        <4>3. CASE ~p.allSameStatus BY <4>1, <4>3 DEF Ready, VectorSize
        <4> QED BY <4>2, <4>3 DEF Filed
      <3>3. Extends(p, p, 0)
        <4>1. Total(p) = Total(p) + 0
          <5> DEFINE a == TotalCount(p.chunks)
                     b == Len(p.statuses)
          <5>1. a \in Nat /\ b \in Nat BY ReportTyped
          <5>2. Total(p) = a + b BY DEF Total
          <5> HIDE DEF a, b
          <5> QED BY <5>1, <5>2
        <4> QED BY <4>1 DEF Extends, SameHead
      <3> HIDE DEF closed
      <3>4. l \in 0 .. 6
        <4> DEFINE b == Len(p.statuses)
        <4>1. b \in Nat /\ b < 7 /\ l = b BY <3>1, <3>2
        <4> HIDE DEF b, l
        <4> QED BY <4>1
      <3> HIDE DEF l
      <3> QED BY <3>1, <3>3, <3>4
    <2> QED BY <2>1, <2>2
  <1> HIDE DEF closed
  <1>3. missing \in Nat \ {0} /\ missing <= maxPacketStatusCount /\ maxPacketStatusCount \in Nat
    <2>1. maxPacketStatusCount \in Nat BY DEF maxPacketStatusCount
    <2> QED BY <2>1
  <1>4. /\ represented \in Nat /\ l + represented <= 7 /\ left \in Nat /\ left <= maxPacketStatusCount
        /\ missing = represented + left /\ (left # 0 => l + represented = 7)
    <2> HIDE DEF l
    <2> QED BY <1>2, <1>3 DEF VectorSize
  <1> HIDE DEF represented
  <1>5. /\ Filed(filled) /\ Extends(filled, closed, represented)
        /\ Cost(filled) <= Cost(closed) + 2 /\ Len(filled.statuses) = l + represented
        /\ filled.allSameStatus = closed.allSameStatus /\ filled.currentStatus = NotReceived
    BY <1>2, <1>4, FilledKeeps
  <1> HIDE DEF filled
  <1>6. Extends(filled, p, represented)
    <2>1. 0 + represented = represented BY <1>4
    <2>2. Extends(filled, p, 0 + represented) BY <1>2, <1>4, <1>5, ExtendsTwice
    <2> QED BY <2>1, <2>2
  <1>7. Len(filled.deltas) \in Nat BY <1>5, ReportTyped
  <1>8. Cost(closed) \in Nat /\ Cost(filled) \in Nat
    <2>1. closed.deltasAndChunksSize \in Nat /\ filled.deltasAndChunksSize \in Nat
      BY <1>2, <1>5 DEF Filed
    <2> QED BY <2>1 DEF Cost
  <1>9. /\ Filed(vectored) /\ Ready(vectored) /\ Extends(vectored, filled, 0)
        /\ Cost(vectored) = Cost(filled)
        /\ Len(filled.statuses) = 7 => vectored.statuses = <<>>
    <2>1. CASE Len(filled.statuses) = 7
      <3>1. Len(filled.statuses) \in 1 .. VectorSize BY <2>1 DEF VectorSize
      <3>2. /\ Filed(emptied) /\ Extends(emptied, filled, 0) /\ Cost(emptied) = Cost(filled)
            /\ emptied.statuses = <<>>
        BY <1>5, <3>1, CloseVectorKeeps
      <3> HIDE DEF emptied
      <3>3. vectored = [emptied EXCEPT !.currentStatus = None] BY <2>1 DEF VectorSize
      <3> HIDE DEF vectored
      <3>4. /\ Filed(vectored) /\ Extends(vectored, emptied, 0) /\ Cost(vectored) = Cost(emptied)
            /\ vectored.statuses = <<>> /\ vectored.currentStatus = None
        BY <3>2, <3>3, StatusSet
      <3>5. Extends(vectored, filled, 0 + 0) BY <1>5, <3>2, <3>4, ExtendsTwice
      <3>6. Len(vectored.statuses) = 0 /\ Len(vectored.deltas) \in Nat
        BY <3>4, EmptySeq, ReportTyped
      <3>7. Ready(vectored) BY <3>4, <3>6 DEF Ready, VectorSize
      <3> QED BY <3>2, <3>4, <3>5, <3>7
    <2>2. CASE Len(filled.statuses) # 7
      <3>1. vectored = filled BY <2>2 DEF VectorSize
      <3> HIDE DEF vectored
      <3>2. Len(filled.statuses) < 7
        <4> HIDE DEF l
        <4> QED BY <1>2, <1>4, <1>5, <2>2
      <3>3. Ready(filled) BY <1>5, <3>2 DEF Ready, VectorSize, Statuses, NotReceived, None
      <3>4. Extends(filled, filled, 0)
        <4> DEFINE a == TotalCount(filled.chunks)
                   b == Len(filled.statuses)
        <4>1. a \in Nat /\ b \in Nat BY <1>5, ReportTyped
        <4>2. Total(filled) = a + b BY DEF Total
        <4> HIDE DEF a, b
        <4>3. Total(filled) = Total(filled) + 0 BY <4>1, <4>2
        <4> QED BY <4>3 DEF Extends, SameHead
      <3> QED BY <1>5, <2>2, <3>1, <3>3, <3>4
    <2> QED BY <2>1, <2>2
  <1> HIDE DEF vectored
  <1>10. Extends(vectored, p, represented)
    <2>1. represented + 0 = represented BY <1>4
    <2>2. Extends(vectored, p, represented + 0) BY <1>4, <1>6, <1>9, ExtendsTwice
    <2> QED BY <2>1, <2>2
  <1>11. CASE left = 0
    <2>1. FillMissing(p, missing) = vectored BY <1>1, <1>11
    <2>2. missing = represented BY <1>4, <1>11
    <2>3. Cost(vectored) <= Cost(p) + 4 BY <1>2, <1>5, <1>8, <1>9
    <2> QED BY <1>9, <1>10, <2>1, <2>2, <2>3
  <1>12. CASE left # 0
    <2> DEFINE q == [run EXCEPT !.statuses = <<>>, !.currentStatus = None]
               again == [run EXCEPT !.currentStatus = None]
    <2>1. vectored.statuses = <<>>
      <3> HIDE DEF l
      <3> QED BY <1>4, <1>5, <1>9, <1>12
    <2>2. left \in 1 .. maxPacketStatusCount
      <3> HIDE DEF left
      <3> QED BY <1>3, <1>4, <1>12
    <2> HIDE DEF left
    <2>3. /\ Filed(run) /\ Extends(run, vectored, left) /\ Cost(run) = Cost(vectored) + 2
          /\ run.statuses = <<>>
      BY <1>9, <2>1, <2>2, MissingRunKeeps
    <2> HIDE DEF run
    <2>4. /\ Filed(again) /\ Extends(again, run, 0) /\ Cost(again) = Cost(run)
          /\ again.statuses = <<>> /\ again.currentStatus = None
      BY <2>3, StatusSet
    <2>5. q = again
      <3>1. DOMAIN run = PacketFields BY <2>3 DEF Filed
      <3> QED BY <2>3, <3>1 DEF PacketFields
    <2>6. FillMissing(p, missing) = q BY <1>1, <1>12
    <2> HIDE DEF again, q
    <2>7. Extends(run, p, represented + left) BY <1>4, <1>10, <2>3, ExtendsTwice
    <2>8. Extends(run, p, missing) /\ missing \in Nat BY <1>3, <1>4, <2>7
    <2>9. Extends(again, p, missing)
      <3> DEFINE m == missing
      <3>1. m \in Nat /\ Extends(run, p, m) BY <2>8
      <3> HIDE DEF m
      <3>2. Extends(again, p, m + 0) /\ m + 0 = m BY <2>4, <3>1, ExtendsTwice
      <3> QED BY <3>2 DEF m
    <2>10. Len(again.statuses) = 0 /\ Len(again.deltas) \in Nat
      BY <2>4, EmptySeq, ReportTyped
    <2>11. Ready(again) BY <2>4, <2>10 DEF Ready, VectorSize
    <2>12. Cost(again) <= Cost(p) + 4 BY <1>2, <1>5, <1>8, <1>9, <2>3, <2>4
    <2> QED BY <2>4, <2>5, <2>6, <2>8, <2>9, <2>11, <2>12
  <1> QED BY <1>11, <1>12

\* q has one received packet more than p.
Enters(q, p, delta) ==
  /\ SameHead(q, p)
  /\ q.deltas = Append(p.deltas, delta)
  /\ Total(q) = Total(p) + 1
  /\ Report(q) = Append(Report(p), [seq |-> (p.baseSequenceNumber + Total(p)) % SeqSpace,
                                    status |-> StatusOf(delta)])

WithReceived(p, delta, same) ==
  [p EXCEPT !.statuses = Append(@, StatusOf(delta)),
            !.deltas = Append(@, delta),
            !.deltasAndChunksSize = @ + DeltaSize(delta),
            !.allSameStatus = same,
            !.currentStatus = StatusOf(delta)]

LEMMA WithReceivedKeeps ==
  ASSUME NEW p, Filed(p), NEW delta \in Deltas, NEW same \in BOOLEAN
  PROVE  LET q == WithReceived(p, delta, same) IN
         /\ Filed(q) /\ Enters(q, p, delta) /\ Cost(q) <= Cost(p) + 4
         /\ q.statuses = Append(p.statuses, StatusOf(delta))
         /\ q.allSameStatus = same /\ q.currentStatus = StatusOf(delta)
  <1> DEFINE x == StatusOf(delta)
             d == DeltaSize(delta)
             q == WithReceived(p, delta, same)
             s == p.statuses
             t == TotalCount(p.chunks)
             l == Len(s)
             base == p.baseSequenceNumber
             first == base + t
             done == ReportedBy(base, p.chunks)
             open == ReportOf(first, VectorChunk(s))
             size == p.deltasAndChunksSize
             new == [seq |-> (base + Total(p)) % SeqSpace, status |-> x]
  <1>1. x \in Statuses \ {NotReceived} /\ d \in 1 .. 2
    BY DEF StatusOf, Statuses, SmallDelta, LargeDelta, NotReceived, DeltaSize
  <1>2. /\ DOMAIN p = PacketFields /\ s \in Seq(Statuses) /\ p.deltas \in Seq(Deltas)
        /\ base \in Numbers /\ size \in Nat /\ Len(p.deltas) <= size
    BY DEF Filed
  <1>3. q = [p EXCEPT !.statuses = Append(@, x), !.deltas = Append(@, delta),
                      !.deltasAndChunksSize = @ + d, !.allSameStatus = same,
                      !.currentStatus = x]
    BY DEF WithReceived
  <1> HIDE DEF x, d, q
  <1>4. /\ DOMAIN q = PacketFields /\ SameHead(q, p)
        /\ q.chunks = p.chunks /\ q.packetStatusCount = p.packetStatusCount
        /\ q.deltasAndChunksSize = size + d
        /\ q.deltas = Append(p.deltas, delta) /\ q.statuses = Append(s, x)
        /\ q.allSameStatus = same /\ q.currentStatus = x
    BY <1>2, <1>3 DEF PacketFields, SameHead
  <1>5. t \in Nat /\ l \in Nat /\ Len(p.deltas) \in Nat /\ first \in Int
        /\ done \in Seq(Result) /\ open \in Seq(Result)
    BY ReportTyped
  <1>6. q.statuses \in Seq(Statuses) /\ Len(q.statuses) = l + 1
        /\ q.deltas \in Seq(Deltas) /\ Len(q.deltas) = Len(p.deltas) + 1
    BY <1>1, <1>2, <1>4, AppendProperties
  <1>7. Filed(q)
    <2>1. size + d \in Nat /\ Len(p.deltas) + 1 <= size + d BY <1>1, <1>2, <1>5
    <2> QED BY <1>4, <1>6, <2>1 DEF Filed, SameHead
  <1>8. Total(p) = t + l /\ Total(q) = t + (l + 1) BY <1>4, <1>6 DEF Total
  <1>9. Total(q) = Total(p) + 1
    <2> HIDE DEF t, l
    <2> QED BY <1>5, <1>8
  <1>10. new \in Result
    <2> DEFINE n == base + Total(p)
    <2>1. n \in Int
      <3>1. base \in Int BY <1>2, NumbersNat
      <3> HIDE DEF t, l, base
      <3> QED BY <1>5, <1>8, <3>1
    <2> HIDE DEF n
    <2>2. n % SeqSpace \in Numbers BY <2>1, WrapTyped
    <2> QED BY <1>1, <2>2 DEF n, Result
  <1>11. Report(q) = Append(Report(p), new)
    <2>1. ReportOf(first, VectorChunk(Append(s, x))) =
            Append(open, [seq |-> (first + l) % SeqSpace, status |-> x])
      <3> HIDE DEF first
      <3> QED BY <1>1, <1>2, <1>5, PendingReceived
    <2>2. first + l = base + Total(p)
      <3>1. base \in Int BY <1>2, NumbersNat
      <3> HIDE DEF t, l, base
      <3> QED BY <1>5, <1>8, <3>1
    <2>3. Report(p) = done \o open /\ Report(q) = done \o ReportOf(first, VectorChunk(Append(s, x)))
      BY <1>4 DEF Report, SameHead
    <2>4. Report(q) = done \o Append(open, new) BY <2>1, <2>2, <2>3
    <2> HIDE DEF done, open, new
    <2>5. done \o Append(open, new) = Append(done \o open, new)
      <3>1. Append(open, new) = open \o <<new>> BY <1>5, <1>10, AppendIsConcat
      <3>2. <<new>> \in Seq(Result) BY <1>10
      <3>3. done \o (open \o <<new>>) = (done \o open) \o <<new>>
        BY <1>5, <3>2, ConcatAssociative
      <3>4. done \o open \in Seq(Result) BY <1>5, ConcatProperties
      <3>5. (done \o open) \o <<new>> = Append(done \o open, new)
        BY <1>10, <3>4, AppendIsConcat
      <3> QED BY <3>1, <3>3, <3>5
    <2> QED BY <2>3, <2>4, <2>5
  <1>12. Cost(q) <= Cost(p) + 4
    <2>1. /\ Cost(p) = size + (IF l = 0 THEN 0 ELSE 2)
          /\ Cost(q) = (size + d) + (IF l + 1 = 0 THEN 0 ELSE 2)
      BY <1>4, <1>6 DEF Cost
    <2> HIDE DEF l, size
    <2> QED BY <1>1, <1>2, <1>5, <2>1
  <1>13. Enters(q, p, delta) BY <1>4, <1>9, <1>11 DEF Enters, x
  <1> QED BY <1>4, <1>7, <1>12, <1>13 DEF q, x

LEMMA EntersAlike ==
  ASSUME NEW p, NEW closed, NEW q, NEW delta, Filed(p),
         Extends(closed, p, 0), Enters(q, closed, delta)
  PROVE  Enters(q, p, delta)
  <1> DEFINE t == TotalCount(p.chunks)
             l == Len(p.statuses)
  <1>1. t \in Nat /\ l \in Nat BY ReportTyped
  <1>2. Total(p) = t + l BY DEF Total
  <1> HIDE DEF t, l
  <1>3. Total(closed) = Total(p) BY <1>1, <1>2 DEF Extends
  <1> QED BY <1>3 DEF Extends, Enters, SameHead

LEMMA AlikeEnters ==
  ASSUME NEW p, NEW added, NEW q, NEW delta, Filed(added),
         Enters(added, p, delta), Extends(q, added, 0)
  PROVE  Enters(q, p, delta)
  <1> DEFINE t == TotalCount(added.chunks)
             l == Len(added.statuses)
  <1>1. t \in Nat /\ l \in Nat BY ReportTyped
  <1>2. Total(added) = t + l BY DEF Total
  <1> HIDE DEF t, l
  <1>3. Total(q) = Total(added) BY <1>1, <1>2 DEF Extends
  <1> QED BY <1>3 DEF Extends, Enters, SameHead

LEMMA ExtendsItself ==
  ASSUME NEW p, Filed(p)
  PROVE  Extends(p, p, 0)
  <1> DEFINE t == TotalCount(p.chunks)
             l == Len(p.statuses)
  <1>1. t \in Nat /\ l \in Nat BY ReportTyped
  <1>2. Total(p) = t + l BY DEF Total
  <1> HIDE DEF t, l
  <1>3. Total(p) = Total(p) + 0 BY <1>1, <1>2
  <1> QED BY <1>3 DEF Extends, SameHead

\* The received packet.
LEMMA FillReceivedKeeps ==
  ASSUME NEW p, Filed(p), Ready(p), Len(p.deltas) <= maxPacketStatusCount,
         NEW delta \in Deltas
  PROVE  LET q == FillReceived(p, delta) IN
         /\ Filed(q) /\ Ready(q) /\ q.currentStatus # NotReceived
         /\ Enters(q, p, delta) /\ Cost(q) <= Cost(p) + 4
  <1> DEFINE status == StatusOf(delta)
             closing == LongRunPending(p) /\ status # p.currentStatus
             closed == IF closing THEN CloseRun(p) ELSE p
             same == \/ closed.currentStatus = None
                     \/ closed.allSameStatus /\ closed.currentStatus = status
             added == WithReceived(closed, delta, same)
             emptied == CloseVector(added)
             q == [emptied EXCEPT !.currentStatus = None]
             l == Len(p.statuses)
             n == Len(closed.statuses)
  <1>1. FillReceived(p, delta) =
          IF Len(added.statuses) = VectorSize /\ ~added.allSameStatus THEN q ELSE added
    <2>1. closed.allSameStatus \in BOOLEAN => same \in BOOLEAN OBVIOUS
    <2> QED BY DEF FillReceived, WithReceived
  <1>2. l \in Nat /\ Len(p.deltas) \in Nat BY ReportTyped
  <1>3. status \in Statuses \ {NotReceived, None}
    BY DEF StatusOf, Statuses, SmallDelta, LargeDelta, NotReceived, None
  <1> HIDE DEF status
  <1>4. LongRunPending(p) => p.currentStatus # NotReceived /\ p.currentStatus # None
        /\ p.allSameStatus
    <2> HIDE DEF l
    <2>1. LongRunPending(p) => l >= 7 /\ p.allSameStatus
      BY DEF LongRunPending, VectorSize, l
    <2>2. /\ p.currentStatus = None => l = 0
          /\ p.currentStatus = NotReceived => l < 7
      BY DEF Ready, VectorSize, l
    <2> QED BY <1>2, <2>1, <2>2
  <1>5. /\ Filed(closed) /\ Extends(closed, p, 0) /\ Cost(closed) = Cost(p)
        /\ closed.currentStatus = p.currentStatus /\ closed.allSameStatus = p.allSameStatus
    <2>1. CASE closing
      <3>1. closed = CloseRun(p) BY <2>1
      <3> HIDE DEF closed
      <3> QED BY <1>4, <2>1, <3>1, LongRunKeeps
    <2>2. CASE ~closing BY <2>2, ExtendsItself
    <2> QED BY <2>1, <2>2
  <1>6. closed.deltas = p.deltas BY <1>5 DEF Extends
  <1>7. /\ closing => n = 0 /\ ~same
        /\ ~closing => n = l /\ closed.statuses = p.statuses
    <2>1. CASE closing
      <3>1. closed = CloseRun(p) BY <2>1
      <3>2. closed.statuses = <<>>
        <4> HIDE DEF closed
        <4> QED BY <1>4, <2>1, <3>1, LongRunKeeps
      <3> HIDE DEF closed
      <3>3. n = 0 BY <3>2, EmptySeq
      <3>4. ~same BY <1>4, <1>5, <2>1
      <3> QED BY <2>1, <3>3, <3>4
    <2>2. CASE ~closing BY <2>2
    <2> QED BY <2>1, <2>2
  <1>8. ~closing /\ ~same => n < 7
    <2> SUFFICES ASSUME ~closing, ~same PROVE n < 7
      OBVIOUS
    <2>1. n = l BY <1>7
    <2>2. CASE ~p.allSameStatus \/ p.currentStatus = NotReceived
      <3>1. l < 7 BY <2>2 DEF Ready, VectorSize
      <3> HIDE DEF n, l
      <3> QED BY <2>1, <3>1
    <2>3. CASE p.allSameStatus /\ p.currentStatus # NotReceived
      <3>1. p.currentStatus # status BY <1>5, <2>3
      <3>2. ~LongRunPending(p) BY <3>1
      <3>3. ~(l >= 7) BY <2>3, <3>2 DEF LongRunPending, VectorSize
      <3> HIDE DEF n, l
      <3> QED BY <1>2, <2>1, <3>3
    <2> QED BY <2>2, <2>3 DEF Filed
  <1> HIDE DEF closing, closed
  <1>9. same \in BOOLEAN BY <1>5 DEF Filed
  <1>10. same => /\ ~closing
                 /\ \/ p.currentStatus = None /\ l = 0
                    \/ /\ \A k \in 1 .. l : p.statuses[k] = status
                       /\ l <= Len(p.deltas)
    <2> SUFFICES ASSUME same
                 PROVE  /\ ~closing
                        /\ \/ p.currentStatus = None /\ l = 0
                           \/ /\ \A k \in 1 .. l : p.statuses[k] = status
                              /\ l <= Len(p.deltas)
      OBVIOUS
    <2>1. ~closing BY <1>7
    <2>2. p.currentStatus = None \/ (p.allSameStatus /\ p.currentStatus = status) BY <1>5
    <2> QED BY <1>3, <2>1, <2>2 DEF Ready
  <1> HIDE DEF same
  <1>11. /\ Filed(added) /\ Enters(added, closed, delta) /\ Cost(added) <= Cost(closed) + 4
         /\ added.statuses = Append(closed.statuses, status)
         /\ added.allSameStatus = same /\ added.currentStatus = status
    BY <1>5, <1>9, WithReceivedKeeps DEF status
  <1> HIDE DEF added
  <1>12. /\ Len(added.statuses) = n + 1 /\ n \in Nat /\ added.deltas = Append(p.deltas, delta)
         /\ Len(added.deltas) = Len(p.deltas) + 1 /\ added.statuses[n + 1] = status
         /\ \A k \in 1 .. n : added.statuses[k] = closed.statuses[k]
    <2>1. closed.statuses \in Seq(Statuses) /\ p.deltas \in Seq(Deltas) BY <1>5 DEF Filed
    <2>2. n \in Nat BY <2>1, LenProperties
    <2>3. added.deltas = Append(p.deltas, delta) BY <1>6, <1>11 DEF Enters
    <2>4. /\ Len(added.statuses) = n + 1 /\ added.statuses[n + 1] = status
          /\ \A k \in 1 .. n : added.statuses[k] = closed.statuses[k]
      BY <1>3, <1>11, <2>1, AppendProperties
    <2>5. Len(added.deltas) = Len(p.deltas) + 1 BY <2>1, <2>3, AppendProperties
    <2> QED BY <2>2, <2>3, <2>4, <2>5
  <1>13. Enters(added, p, delta) BY <1>5, <1>11, EntersAlike
  <1>14. Cost(added) <= Cost(p) + 4 BY <1>5, <1>11
  <1>15. CASE Len(added.statuses) = VectorSize /\ ~added.allSameStatus
    <2>1. Len(added.statuses) \in 1 .. VectorSize BY <1>15 DEF VectorSize
    <2>2. /\ Filed(emptied) /\ Extends(emptied, added, 0) /\ Cost(emptied) = Cost(added)
          /\ emptied.statuses = <<>>
      BY <1>11, <2>1, CloseVectorKeeps
    <2> HIDE DEF emptied
    <2>3. /\ Filed(q) /\ Extends(q, emptied, 0) /\ Cost(q) = Cost(emptied)
          /\ q.statuses = <<>> /\ q.currentStatus = None
      BY <2>2, StatusSet
    <2>4. FillReceived(p, delta) = q BY <1>1, <1>15
    <2> HIDE DEF q
    <2>5. Enters(emptied, p, delta) BY <1>11, <1>13, <2>2, AlikeEnters
    <2>6. Enters(q, p, delta) BY <2>2, <2>3, <2>5, AlikeEnters
    <2>7. Len(q.statuses) = 0 /\ Len(q.deltas) \in Nat BY <2>3, EmptySeq, ReportTyped
    <2>8. Ready(q) BY <2>3, <2>7 DEF Ready, VectorSize
    <2>9. q.currentStatus # NotReceived BY <2>3 DEF None, NotReceived
    <2>10. Cost(q) <= Cost(p) + 4 BY <1>14, <2>2, <2>3
    <2> QED BY <2>3, <2>4, <2>6, <2>8, <2>9, <2>10
  <1>16. CASE ~(Len(added.statuses) = VectorSize /\ ~added.allSameStatus)
    <2>1. FillReceived(p, delta) = added BY <1>1, <1>16
    <2>2. CASE same
      <3>1. n = l /\ closed.statuses = p.statuses BY <1>7, <1>10, <2>2
      <3>2. \A k \in 1 .. n + 1 : added.statuses[k] = status
        <4> SUFFICES ASSUME NEW k \in 1 .. n + 1 PROVE added.statuses[k] = status
          OBVIOUS
        <4>1. CASE k = n + 1 BY <1>12, <4>1
        <4>2. CASE k # n + 1
          <5> HIDE DEF n, l
          <5>1. k \in 1 .. n /\ l # 0 BY <1>12, <3>1, <4>2
          <5> QED BY <1>10, <1>12, <2>2, <3>1, <5>1
        <4> QED BY <4>1, <4>2
      <3>3. n + 1 <= Len(p.deltas) + 1
        <4> HIDE DEF n, l
        <4> QED BY <1>2, <1>10, <2>2, <3>1
      <3> HIDE DEF n
      <3>4. Ready(added) BY <1>3, <1>11, <1>12, <2>2, <3>2, <3>3 DEF Ready
      <3> QED BY <1>3, <1>11, <1>13, <1>14, <2>1, <3>4
    <2>3. CASE ~same
      <3>1. n + 1 < 7
        <4>1. n + 1 # 7 BY <1>11, <1>12, <1>16, <2>3 DEF VectorSize
        <4>2. n < 7
          <5> HIDE DEF n
          <5> QED BY <1>7, <1>8, <2>3
        <4> HIDE DEF n
        <4> QED BY <1>12, <4>1, <4>2
      <3> HIDE DEF n
      <3>2. Ready(added) BY <1>3, <1>11, <1>12, <2>3, <3>1 DEF Ready, VectorSize
      <3> QED BY <1>3, <1>11, <1>13, <1>14, <2>1, <3>2
    <2> QED BY <2>2, <2>3
  <1> QED BY <1>15, <1>16

\* q has missing packets and then a received one more than p.
EntersAfter(q, p, missing, delta) ==
  /\ SameHead(q, p)
  /\ q.deltas = Append(p.deltas, delta)
  /\ Total(q) = Total(p) + missing + 1
  /\ Report(q) = Append(Report(p),
                        [seq |-> (p.baseSequenceNumber + Total(p) + missing) % SeqSpace,
                         status |-> StatusOf(delta)])

LEMMA TotalTyped ==
  ASSUME NEW p, Filed(p)
  PROVE  Total(p) \in Nat /\ Cost(p) \in Nat
  <1> DEFINE t == TotalCount(p.chunks)
             l == Len(p.statuses)
  <1>1. t \in Nat /\ l \in Nat BY ReportTyped
  <1>2. Total(p) = t + l BY DEF Total
  <1>3. p.deltasAndChunksSize \in Nat BY DEF Filed
  <1>4. Cost(p) \in Nat BY <1>3 DEF Cost
  <1> HIDE DEF t, l
  <1> QED BY <1>1, <1>2, <1>4

LEMMA FillChunkKeeps ==
  ASSUME NEW p, Filed(p), Ready(p), Len(p.deltas) <= maxPacketStatusCount,
         p.currentStatus # NotReceived, NEW previous \in Numbers, NEW number \in Numbers,
         NEW delta \in Deltas
  PROVE  LET q == FillChunk(p, previous, number, delta)
             missing == (number - (previous + 1)) % SeqSpace
         IN /\ Filed(q) /\ Ready(q) /\ q.currentStatus # NotReceived
            /\ EntersAfter(q, p, missing, delta) /\ Cost(q) <= Cost(p) + 8
            /\ missing \in Nat
  <1> DEFINE missing == (number - (previous + 1)) % SeqSpace
             gapped == IF missing > 0 THEN FillMissing(p, missing) ELSE p
             q == FillReceived(gapped, delta)
  <1>1. FillChunk(p, previous, number, delta) = q BY DEF FillChunk
  <1>2. missing \in 0 .. maxPacketStatusCount /\ missing \in Nat
    <2>1. previous \in Int /\ number \in Int BY NumbersNat
    <2>2. \A x \in Int : x % SeqSpace \in Nat /\ x % SeqSpace < SeqSpace BY DEF SeqSpace
    <2>3. number - (previous + 1) \in Int BY <2>1
    <2>4. missing \in Nat /\ missing < SeqSpace BY <2>2, <2>3
    <2>5. SeqSpace = maxPacketStatusCount + 1 /\ maxPacketStatusCount \in Nat
      BY DEF SeqSpace, maxPacketStatusCount
    <2> HIDE DEF missing
    <2> QED BY <2>4, <2>5
  <1> HIDE DEF missing
  <1>3. /\ Filed(gapped) /\ Ready(gapped) /\ Extends(gapped, p, missing)
        /\ Cost(gapped) <= Cost(p) + 4
    <2>1. CASE missing > 0
      <3>1. gapped = FillMissing(p, missing) BY <2>1
      <3> HIDE DEF gapped
      <3>2. missing \in 1 .. maxPacketStatusCount BY <1>2, <2>1
      <3> QED BY <3>1, <3>2, FillMissingKeeps
    <2>2. CASE ~(missing > 0)
      <3>1. gapped = p /\ missing = 0 BY <1>2, <2>2
      <3> HIDE DEF gapped
      <3>2. Cost(p) <= Cost(p) + 4 BY TotalTyped
      <3> QED BY <3>1, <3>2, ExtendsItself
    <2> QED BY <2>1, <2>2
  <1>4. gapped.deltas = p.deltas BY <1>3 DEF Extends
  <1> HIDE DEF gapped
  <1>5. /\ Filed(q) /\ Ready(q) /\ q.currentStatus # NotReceived
        /\ Enters(q, gapped, delta) /\ Cost(q) <= Cost(gapped) + 4
    BY <1>3, <1>4, FillReceivedKeeps
  <1> HIDE DEF q
  <1>6. Total(p) \in Nat /\ Cost(p) \in Nat /\ Cost(gapped) \in Nat /\ Cost(q) \in Nat
    BY <1>3, <1>5, TotalTyped
  <1>7. Cost(q) <= Cost(p) + 8 BY <1>3, <1>5, <1>6
  <1>8. Total(gapped) = Total(p) + missing /\ Report(gapped) = Report(p) BY <1>3 DEF Extends
  <1>9. p.baseSequenceNumber \in Int BY NumbersNat DEF Filed
  <1>10. p.baseSequenceNumber + Total(gapped) = p.baseSequenceNumber + Total(p) + missing
    <2> DEFINE b == p.baseSequenceNumber
    <2>1. b \in Int BY <1>9
    <2> HIDE DEF b
    <2>2. b + Total(gapped) = b + Total(p) + missing BY <1>2, <1>6, <1>8, <2>1
    <2> QED BY <2>2 DEF b
  <1>11. EntersAfter(q, p, missing, delta)
    BY <1>3, <1>5, <1>8, <1>10 DEF EntersAfter, Enters, Extends, SameHead
  <1> QED BY <1>1, <1>2, <1>5, <1>7, <1>11 DEF missing

\* All is in chunks before a packet is serialized, and nothing is added to it.
LEMMA PendingChunksKeep ==
  ASSUME NEW p, Filed(p), Ready(p), Len(p.deltas) <= maxPacketStatusCount,
         p.currentStatus # NotReceived
  PROVE  LET q == AddPendingChunks(p) IN
         Filed(q) /\ Extends(q, p, 0) /\ Cost(q) = Cost(p) /\ q.statuses = <<>>
  <1> DEFINE l == Len(p.statuses)
             d == Len(p.deltas)
  <1>1. l \in Nat /\ d \in Nat BY ReportTyped
  <1>2. p.statuses \in Seq(Statuses) BY DEF Filed
  <1>3. CASE p.statuses = <<>>
    <2>1. AddPendingChunks(p) = p BY <1>3 DEF AddPendingChunks
    <2> QED BY <1>3, <2>1, ExtendsItself
  <1>4. CASE p.statuses # <<>> /\ p.allSameStatus
    <2>1. AddPendingChunks(p) = CloseRun(p) BY <1>4 DEF AddPendingChunks
    <2>2. l # 0 BY <1>2, <1>4, EmptySeq
    <2>3. p.currentStatus \in Statuses \ {NotReceived} BY <2>2 DEF Ready
    <2>4. l <= d /\ \A k \in 1 .. Len(p.statuses) : p.statuses[k] = p.currentStatus
      BY <1>4 DEF Ready
    <2>5. l \in 1 .. maxPacketStatusCount
      <3>1. l <= d /\ d <= maxPacketStatusCount BY <2>4
      <3> HIDE DEF l, d
      <3>2. l <= maxPacketStatusCount /\ maxPacketStatusCount \in Nat
        BY <1>1, <3>1 DEF maxPacketStatusCount
      <3> QED BY <1>1, <2>2, <3>2
    <2> QED BY <2>1, <2>3, <2>4, <2>5, CloseRunKeeps
  <1>5. CASE p.statuses # <<>> /\ ~p.allSameStatus
    <2>1. AddPendingChunks(p) = CloseVector(p) BY <1>5 DEF AddPendingChunks
    <2>2. l # 0 /\ l < 7 BY <1>2, <1>5, EmptySeq DEF Ready, VectorSize
    <2>3. l \in 1 .. VectorSize
      <3> HIDE DEF l
      <3> QED BY <1>1, <2>2 DEF VectorSize
    <2> QED BY <2>1, <2>3, CloseVectorKeeps
  <1> QED BY <1>3, <1>4, <1>5

(***************************************************************************)
(* A feedback under construction                                           *)
(***************************************************************************)
Arrivals == [seq : Numbers, time : Int]

\* A feedback that has its base.  What it takes is bounded, and its numbers are
\* those from its base to the latest.
Based(p, mtu) ==
  /\ Filed(p) /\ Ready(p) /\ p.currentStatus # NotReceived
  /\ p.latestSequenceNumber \in Numbers
  /\ p.latestTimestamp \in Nat /\ p.latestTimestamp >= Epoch
  /\ p.referenceTime \in 0 .. TimeMod \div 64 - 1
  /\ Total(p) % SeqSpace = (p.latestSequenceNumber + 1 - p.baseSequenceNumber) % SeqSpace
  /\ Padded(HeaderSize + fixedHeaderSize + Cost(p)) <= mtu + 8
  /\ Len(p.deltas) <= maxPacketStatusCount
  /\ p.deltas = <<>> => Cost(p) = 0

\* The time that the first k deltas lead to.
TimeAfter(p, k) == (p.referenceTime * 64 + ElapsedAfter(p.deltas)[k]) % TimeMod

\* What it reports are the arrivals entered, with their times.
Recorded(p, arrivals) ==
  /\ arrivals \in Seq(Arrivals)
  /\ Len(arrivals) = Len(p.deltas)
  /\ Len(Report(p)) = Len(p.deltas)
  /\ \A k \in 1 .. Len(p.deltas) :
       /\ Report(p)[k] = [seq |-> arrivals[k].seq, status |-> StatusOf(p.deltas[k])]
       /\ arrivals[k].time = TimeAfter(p, k)
  /\ p.latestTimestamp % TimeMod = TimeAfter(p, Len(p.deltas))

LEMMA NewPacketIs ==
  ASSUME NEW c
  PROVE  LET p == NewPacket(c) IN
         /\ Filed(p) /\ Ready(p) /\ p.currentStatus # NotReceived /\ p.statuses = <<>>
         /\ p.chunks = <<>> /\ p.deltas = <<>> /\ Total(p) = 0 /\ Cost(p) = 0
         /\ p.latestSequenceNumber = 0 /\ p.latestTimestamp = 0 /\ p.referenceTime = 0
         /\ p.baseSequenceNumber = 0 /\ p.feedbackPacketCount = c
         /\ p.packetStatusCount = 0
  <1> DEFINE p == NewPacket(c)
  <1>1. /\ DOMAIN p = PacketFields /\ p.baseSequenceNumber = 0 /\ p.referenceTime = 0
        /\ p.latestSequenceNumber = 0 /\ p.latestTimestamp = 0 /\ p.packetStatusCount = 0
        /\ p.feedbackPacketCount = c /\ p.chunks = <<>> /\ p.deltas = <<>>
        /\ p.deltasAndChunksSize = 0 /\ p.statuses = <<>> /\ p.allSameStatus = TRUE
        /\ p.currentStatus = None
    BY DEF NewPacket, PacketFields
  <1> HIDE DEF p
  <1>2. /\ <<>> \in Seq(Chunks) /\ <<>> \in Seq(Deltas) /\ <<>> \in Seq(Statuses)
        /\ Len(<<>>) = 0
    BY EmptySeq
  <1>3. TotalCount(<<>>) = 0 BY <1>2, CountsStep DEF TotalCount
  <1>4. 0 \in Numbers /\ 0 % SeqSpace = 0
    <2>1. 0 \in Nat /\ 0 < SeqSpace /\ 0 % SeqSpace = 0 BY DEF SeqSpace
    <2> QED BY <2>1, NumbersAre
  <1>5. Filed(p)
    <2>1. p.packetStatusCount = TotalCount(p.chunks) % SeqSpace BY <1>1, <1>3, <1>4
    <2>2. p.deltasAndChunksSize \in Nat /\ Len(p.deltas) <= p.deltasAndChunksSize
      BY <1>1, <1>2
    <2>3. /\ p.chunks \in Seq(Chunks) /\ p.deltas \in Seq(Deltas)
          /\ p.statuses \in Seq(Statuses) /\ p.allSameStatus \in BOOLEAN
          /\ p.baseSequenceNumber \in Numbers
      BY <1>1, <1>2, <1>4
    <2> QED BY <1>1, <2>1, <2>2, <2>3 DEF Filed
  <1>6. Ready(p) BY <1>1, <1>2 DEF Ready, VectorSize, None, NotReceived, Statuses
  <1>7. Total(p) = 0 /\ Cost(p) = 0 BY <1>1, <1>2, <1>3 DEF Total, Cost
  <1>8. p.currentStatus # NotReceived BY <1>1 DEF None, NotReceived
  <1> QED BY <1>1, <1>5, <1>6, <1>7, <1>8 DEF p

\* The arithmetic of numbers, times and sizes.
LEMMA NextNumber ==
  ASSUME NEW n \in Numbers
  PROVE  /\ (n + 1) % SeqSpace \in Numbers
         /\ (n + 1 - ((n + 1) % SeqSpace)) % SeqSpace = 0
  <1>1. n \in Int BY NumbersNat
  <1>2. (n + 1) % SeqSpace \in Numbers BY <1>1, WrapTyped
  <1>3. (n + 1 - ((n + 1) % SeqSpace)) % SeqSpace = 0 BY <1>1 DEF SeqSpace
  <1> QED BY <1>2, <1>3

Wrapped(x) == x % SeqSpace

LEMMA NumberAfter ==
  ASSUME NEW n \in Numbers, NEW latest \in Numbers, NEW base \in Numbers, NEW total \in Int,
         Wrapped(total) = Wrapped(latest + 1 - base)
  PROVE  LET missing == Wrapped(n - (latest + 1)) IN
         /\ Wrapped(base + total + missing) = n
         /\ Wrapped(total + missing + 1) = Wrapped(n + 1 - base)
  <1> USE DEF Wrapped
  <1>3. n \in Int /\ n % SeqSpace = n /\ latest \in Int /\ base \in Int BY NumbersNat
  <1> DEFINE gap == n - (latest + 1)
             missing == gap % SeqSpace
             ahead == latest + 1 - base
  <1>4. gap \in Int /\ ahead \in Int /\ missing \in Int
    <2>1. gap \in Int /\ ahead \in Int BY <1>3
    <2> HIDE DEF gap, ahead
    <2> QED BY <2>1, WrapTyped, NumbersNat
  <1> HIDE DEF missing
  <1>5. \A z \in Int : (total + missing + z) % SeqSpace = (ahead + gap + z) % SeqSpace
    <2> SUFFICES ASSUME NEW z \in Int
                 PROVE  (total + missing + z) % SeqSpace = (ahead + gap + z) % SeqSpace
      OBVIOUS
    <2> HIDE DEF gap, ahead
    <2>0. \A x \in Int : x \div SeqSpace \in Int
                          /\ x = (x \div SeqSpace) * SeqSpace + (x % SeqSpace)
      BY DEF SeqSpace
    <2> DEFINE j == total \div SeqSpace - ahead \div SeqSpace
               k == -(gap \div SeqSpace)
    <2>1. j \in Int /\ total = ahead + j * SeqSpace
      <3> DEFINE a == total \div SeqSpace
                 b == ahead \div SeqSpace
                 d == ahead % SeqSpace
      <3>1. a \in Int /\ b \in Int /\ d \in Int /\ ahead = b * SeqSpace + d
        BY <1>4, <2>0, WrapTyped, NumbersNat
      <3>2. total % SeqSpace = d BY DEF ahead
      <3>3. total = a * SeqSpace + d BY <2>0, <3>2
      <3> HIDE DEF a, b, d
      <3> QED BY <1>4, <3>1, <3>3 DEF SeqSpace, a, b
    <2>2. k \in Int /\ missing = gap + k * SeqSpace
      <3> DEFINE a == gap \div SeqSpace
      <3>1. a \in Int /\ gap = a * SeqSpace + missing BY <1>4, <2>0 DEF missing
      <3> HIDE DEF a
      <3> QED BY <1>4, <3>1 DEF SeqSpace, a
    <2> HIDE DEF j, k
    <2>3. \A x, i \in Int : (x + i * SeqSpace) % SeqSpace = x % SeqSpace BY DEF SeqSpace
    <2> DEFINE c == ahead + gap + z
               i == j + k
    <2>4. total + missing + z = c + i * SeqSpace /\ c \in Int /\ i \in Int
      BY <1>4, <2>1, <2>2 DEF SeqSpace
    <2> HIDE DEF c, i
    <2>5. (c + i * SeqSpace) % SeqSpace = c % SeqSpace BY <2>3, <2>4
    <2>6. (total + missing + z) % SeqSpace = c % SeqSpace BY <2>4, <2>5
    <2> QED BY <2>6 DEF c
  <1>6. ahead + gap + base = n /\ ahead + gap + 1 = n + 1 - base BY <1>3
  <1>7. base + total + missing = total + missing + base BY <1>3, <1>4
  <1>8. (base + total + missing) % SeqSpace = n
    <2> HIDE DEF gap, ahead
    <2> QED BY <1>3, <1>5, <1>6, <1>7
  <1>9. (total + missing + 1) % SeqSpace = (n + 1 - base) % SeqSpace
    <2> HIDE DEF gap, ahead
    <2>1. (total + missing + 1) % SeqSpace = (ahead + gap + 1) % SeqSpace BY <1>5
    <2> QED BY <1>6, <2>1
  <1> QED BY <1>8, <1>9 DEF missing

LEMMA RoundedTime ==
  ASSUME NEW t \in Int, t >= Epoch
  PROVE  LET reference == (t % TimeMod) \div 64
             rounded == (t \div 64) * 64
         IN /\ reference \in 0 .. TimeMod \div 64 - 1
            /\ rounded \in Nat /\ rounded >= Epoch
            /\ rounded % TimeMod = (reference * 64 + 0) % TimeMod
  <1> DEFINE b == t % TimeMod
             a == t \div TimeMod
             reference == b \div 64
             rounded == (t \div 64) * 64
             e == t \div 64
  <1>1. a \in Int /\ b \in Int /\ 0 <= b /\ b < TimeMod /\ t = a * TimeMod + b BY DEF TimeMod
  <1> HIDE DEF a, b
  <1>2. reference \in Int /\ 0 <= reference /\ reference * 64 <= b /\ b < reference * 64 + 64
    BY <1>1
  <1>3. e \in Int /\ e * 64 <= t /\ t < e * 64 + 64 OBVIOUS
  <1> HIDE DEF reference, e
  <1>4. reference < 8388608 BY <1>1, <1>2 DEF TimeMod
  <1>5. e = a * 8388608 + reference BY <1>1, <1>2, <1>3 DEF TimeMod
  <1>6. rounded = a * TimeMod + reference * 64
    BY <1>1, <1>2, <1>5 DEF e, TimeMod
  <1>7. rounded \in Nat /\ rounded >= Epoch BY <1>3 DEF e, Epoch
  <1>8. (a * TimeMod + reference * 64) % TimeMod = (reference * 64 + 0) % TimeMod
    BY <1>1, <1>2 DEF TimeMod
  <1>9. TimeMod \div 64 = 8388608 BY DEF TimeMod
  <1>10. reference \in 0 .. TimeMod \div 64 - 1 BY <1>2, <1>4, <1>9
  <1> QED BY <1>6, <1>7, <1>8, <1>10 DEF reference, b

LEMMA TimeAdds ==
  ASSUME NEW x \in Int, NEW latest \in Int, NEW t \in Int, latest % TimeMod = x % TimeMod
  PROVE  (x + (t - latest)) % TimeMod = t % TimeMod
  BY DEF TimeMod

LEMMA RoomIsEnough ==
  ASSUME NEW size \in Nat, NEW cost \in Nat, NEW mtu \in Int, cost <= size + 10,
         Padded(HeaderSize + fixedHeaderSize + size + 2 + 2) <= mtu
  PROVE  /\ Padded(HeaderSize + fixedHeaderSize + cost) <= mtu + 8
         /\ size + 24 <= mtu
  BY DEF Padded, HeaderSize, fixedHeaderSize

(***************************************************************************)
(* AddPacket                                                               *)
(***************************************************************************)
Mtus == HeaderSize + fixedHeaderSize + 4 .. 65535

LEMMA MtusAre == \A m \in Mtus : m \in Int /\ m >= 24 /\ m <= 65535
  BY DEF Mtus, HeaderSize, fixedHeaderSize

\* A new packet becomes one with a base.
LEMMA BaseSet ==
  ASSUME NEW c, NEW number \in Numbers, NEW t \in Int, t >= Epoch, NEW mtu \in Mtus
  PROVE  LET q == SetBase(NewPacket(c), number, t) IN
         /\ Based(q, mtu) /\ Recorded(q, <<>>)
         /\ q.deltas = <<>> /\ q.feedbackPacketCount = c /\ q.packetStatusCount = 0
         /\ q.baseSequenceNumber = (number + 1) % SeqSpace /\ q.latestSequenceNumber = number
         /\ q.deltasAndChunksSize = 0 /\ q.latestTimestamp = Rounded(t)
  <1> DEFINE p == NewPacket(c)
             q == SetBase(p, number, t)
             reference == (t % TimeMod) \div 64
             rounded == (t \div 64) * 64
  <1>1. /\ Filed(p) /\ Ready(p) /\ p.currentStatus # NotReceived
        /\ p.chunks = <<>> /\ p.deltas = <<>> /\ p.statuses = <<>>
        /\ Total(p) = 0 /\ Cost(p) = 0 /\ p.feedbackPacketCount = c
        /\ p.packetStatusCount = 0
    BY NewPacketIs
  <1>2. DOMAIN p = PacketFields BY <1>1 DEF Filed
  <1>3. p.deltasAndChunksSize = 0
    <2>1. p.deltasAndChunksSize \in Nat BY <1>1 DEF Filed
    <2>2. Len(p.statuses) = 0 BY <1>1, EmptySeq
    <2> HIDE DEF p
    <2> QED BY <1>1, <2>1, <2>2 DEF Cost
  <1> HIDE DEF p
  <1>4. q = [p EXCEPT !.baseSequenceNumber = (number + 1) % SeqSpace,
                      !.referenceTime = reference, !.latestSequenceNumber = number,
                      !.latestTimestamp = rounded]
    BY DEF SetBase, Rounded
  <1> HIDE DEF q, reference, rounded
  <1>5. /\ DOMAIN q = PacketFields
        /\ q.baseSequenceNumber = (number + 1) % SeqSpace /\ q.referenceTime = reference
        /\ q.latestSequenceNumber = number /\ q.latestTimestamp = rounded
        /\ q.chunks = p.chunks /\ q.deltas = p.deltas /\ q.statuses = p.statuses
        /\ q.packetStatusCount = p.packetStatusCount /\ q.allSameStatus = p.allSameStatus
        /\ q.deltasAndChunksSize = p.deltasAndChunksSize
        /\ q.currentStatus = p.currentStatus /\ q.feedbackPacketCount = p.feedbackPacketCount
    BY <1>2, <1>4 DEF PacketFields
  <1>6. /\ reference \in 0 .. TimeMod \div 64 - 1 /\ rounded \in Nat /\ rounded >= Epoch
        /\ rounded % TimeMod = (reference * 64 + 0) % TimeMod
    BY RoundedTime DEF reference, rounded
  <1>7. (number + 1) % SeqSpace \in Numbers
        /\ (number + 1 - ((number + 1) % SeqSpace)) % SeqSpace = 0
    BY NextNumber
  <1>8. Filed(q) BY <1>1, <1>5, <1>7 DEF Filed
  <1>9. Ready(q) BY <1>1, <1>5 DEF Ready
  <1>10. Total(q) = 0 /\ Cost(q) = 0 BY <1>1, <1>5 DEF Total, Cost
  <1>11. Len(<<>>) = 0 /\ <<>> \in Seq(Arrivals) /\ <<>> \in Seq(Int) BY EmptySeq
  <1>12. Based(q, mtu)
    <2>1. Padded(HeaderSize + fixedHeaderSize + Cost(q)) <= mtu + 8
      BY <1>10 DEF Padded, HeaderSize, fixedHeaderSize, Mtus
    <2>2. Len(q.deltas) <= maxPacketStatusCount
      BY <1>1, <1>5, <1>11 DEF maxPacketStatusCount
    <2>3. Total(q) % SeqSpace
            = (q.latestSequenceNumber + 1 - q.baseSequenceNumber) % SeqSpace
      <3>1. 0 % SeqSpace = 0 BY DEF SeqSpace
      <3> QED BY <1>5, <1>7, <1>10, <3>1
    <2> QED BY <1>1, <1>5, <1>6, <1>8, <1>9, <1>10, <2>1, <2>2, <2>3 DEF Based
  <1>13. Recorded(q, <<>>)
    <2>1. Len(Report(q)) = 0
      <3>1. ReportedBy(q.baseSequenceNumber, <<>>) = <<>>
        <4>1. <<>> \in Seq(Chunks) /\ q.baseSequenceNumber \in Int
          BY <1>5, <1>7, EmptySeq, NumbersNat
        <4> QED BY <1>11, <4>1, ReportsStep DEF ReportedBy
      <3>2. q.baseSequenceNumber + TotalCount(<<>>) \in Int BY <1>1, <1>5, <1>8, ReportTyped
      <3>3. Report(q) = <<>> \o <<>>
        <4> DEFINE first == q.baseSequenceNumber + TotalCount(<<>>)
        <4>1. first \in Int BY <3>2
        <4>2. Report(q) = ReportedBy(q.baseSequenceNumber, <<>>)
                            \o ReportOf(first, VectorChunk(<<>>))
          BY <1>1, <1>5 DEF Report
        <4> HIDE DEF first
        <4> QED BY <3>1, <4>1, <4>2, NothingPending
      <3>4. <<>> \in Seq(Result) BY EmptySeq
      <3> QED BY <1>11, <3>3, <3>4, ConcatEmptySeq
    <2>2. TimeAfter(q, 0) = (reference * 64 + 0) % TimeMod
      <3>1. ElapsedAfter(<<>>)[0] = 0 BY <1>11, ElapsedStep
      <3> QED BY <1>1, <1>5, <3>1 DEF TimeAfter
    <2>3. Len(q.deltas) = 0 BY <1>1, <1>5, <1>11
    <2>4. \A k : ~(k \in 1 .. 0) OBVIOUS
    <2> QED BY <1>5, <1>6, <1>11, <2>1, <2>2, <2>3, <2>4 DEF Recorded
  <1>14. q.latestTimestamp = Rounded(t) BY <1>5 DEF rounded, Rounded
  <1> QED BY <1>1, <1>3, <1>5, <1>12, <1>13, <1>14 DEF q, p

LEMMA DeltasAre ==
  \A d : d \in Deltas <=> d \in Int /\ -maxPacketDelta <= d /\ d <= maxPacketDelta
  <1>1. \A m \in Nat : \A d : d \in -m .. m <=> d \in Int /\ -m <= d /\ d <= m OBVIOUS
  <1>2. maxPacketDelta \in Nat BY DEF maxPacketDelta
  <1> QED BY <1>1, <1>2 DEF Deltas

LEMMA DeltasInt ==
  ASSUME NEW deltas \in Seq(Deltas)
  PROVE  deltas \in Seq(Int)
  <1> DEFINE n == Len(deltas)
  <1>1. n \in Nat /\ deltas \in [1 .. n -> Deltas] BY LenProperties
  <1>2. deltas = [k \in 1 .. n |-> deltas[k]] BY <1>1
  <1>3. \A k \in 1 .. n : deltas[k] \in Int BY <1>1, DeltasAre
  <1> HIDE DEF n
  <1>4. [k \in 1 .. n |-> deltas[k]] \in Seq(Int) BY <1>1, <1>3
  <1> QED BY <1>2, <1>4

\* What is recorded of a packet with one arrival more.
LEMMA RecordedAppended ==
  ASSUME NEW p, NEW q, NEW arrivals, NEW number \in Numbers, NEW t \in Int, NEW delta \in Deltas,
         p.deltas \in Seq(Deltas), p.referenceTime \in Int, p.latestTimestamp \in Int,
         Recorded(p, arrivals),
         delta = DeltaTo(p, t),
         q.referenceTime = p.referenceTime, q.latestTimestamp = t,
         q.deltas = Append(p.deltas, delta),
         Report(p) \in Seq(Result),
         Report(q) = Append(Report(p), [seq |-> number, status |-> StatusOf(delta)])
  PROVE  Recorded(q, Append(arrivals, Arrival(number, t)))
  <1> DEFINE n == Len(p.deltas)
             more == Append(arrivals, Arrival(number, t))
             new == [seq |-> number, status |-> StatusOf(delta)]
             reference == p.referenceTime * 64
             elapsed == ElapsedAfter(p.deltas)
             later == ElapsedAfter(q.deltas)
  <1>1. n \in Nat /\ p.deltas \in Seq(Int) /\ delta \in Int
    <2>1. delta \in Int BY DeltasAre
    <2>2. n \in Nat BY LenProperties
    <2>3. p.deltas \in Seq(Int) BY DeltasInt
    <2> QED BY <2>1, <2>2, <2>3
  <1>2. Arrival(number, t) \in Arrivals
    <2>1. t % TimeMod \in Int BY DEF TimeMod
    <2> QED BY <2>1 DEF Arrival, Arrivals
  <1>3. /\ arrivals \in Seq(Arrivals) /\ Len(arrivals) = n /\ Len(Report(p)) = n
        /\ \A k \in 1 .. n : /\ Report(p)[k] = [seq |-> arrivals[k].seq,
                                               status |-> StatusOf(p.deltas[k])]
                             /\ arrivals[k].time = TimeAfter(p, k)
        /\ p.latestTimestamp % TimeMod = TimeAfter(p, n)
    BY DEF Recorded
  <1>4. /\ more \in Seq(Arrivals) /\ Len(more) = n + 1 /\ more[n + 1] = Arrival(number, t)
        /\ \A k \in 1 .. n : more[k] = arrivals[k]
    BY <1>2, <1>3, AppendProperties
  <1>5. new \in Result
    BY DEF Result, StatusOf, Statuses
  <1>6. /\ Len(Report(q)) = n + 1 /\ Report(q)[n + 1] = new
        /\ \A k \in 1 .. n : Report(q)[k] = Report(p)[k]
    <2> HIDE DEF new
    <2>1. Report(q) = Append(Report(p), new) BY DEF new
    <2> QED BY <1>3, <1>5, <2>1, AppendProperties
  <1>7. /\ Len(q.deltas) = n + 1 /\ q.deltas[n + 1] = delta
        /\ \A k \in 1 .. n : q.deltas[k] = p.deltas[k]
    BY AppendProperties
  <1>8. /\ \A k \in 0 .. n : later[k] = elapsed[k] /\ elapsed[k] \in Int
        /\ later[n + 1] = elapsed[n] + delta \div 4
    <2>1. \A k \in 0 .. n : elapsed[k] \in Int BY <1>1, ElapsedStep
    <2>2. \A k \in 0 .. n : later[k] = elapsed[k] BY <1>1, ElapsedAppended
    <2>3. later[Len(q.deltas)] = elapsed[n] + delta \div 4 BY <1>1, ElapsedAppended
    <2> QED BY <1>7, <2>1, <2>2, <2>3
  <1>9. delta \div 4 = t - p.latestTimestamp
    <2> DEFINE l == p.latestTimestamp
    <2>1. l \in Int /\ delta = (t - l) * 4 BY DEF DeltaTo
    <2> HIDE DEF l
    <2>2. delta \div 4 = t - l BY <2>1
    <2> QED BY <2>2 DEF l
  <1> DEFINE a == elapsed[n]
  <1>10. TimeAfter(q, n + 1) = t % TimeMod
    <2> DEFINE x == reference + a
               l == p.latestTimestamp
    <2>1. n \in 0 .. n BY <1>1
    <2>2. a \in Int BY <1>8, <2>1
    <2>3. reference \in Int OBVIOUS
    <2>4. TimeAfter(q, n + 1) = (reference + later[n + 1]) % TimeMod BY DEF TimeAfter
    <2>5. TimeAfter(p, n) = x % TimeMod BY DEF TimeAfter
    <2>6. l \in Int OBVIOUS
    <2>7. later[n + 1] = a + (t - l) BY <1>8, <1>9
    <2> HIDE DEF a, l, reference
    <2>8. reference + later[n + 1] = x + (t - l) BY <2>2, <2>3, <2>6, <2>7
    <2>9. x \in Int BY <2>2, <2>3
    <2> HIDE DEF x
    <2>10. l % TimeMod = x % TimeMod BY <1>3, <2>5 DEF l
    <2>11. (x + (t - l)) % TimeMod = t % TimeMod BY <2>6, <2>9, <2>10, TimeAdds
    <2> QED BY <2>4, <2>8, <2>11
  <1>11. \A k \in 1 .. n : TimeAfter(q, k) = TimeAfter(p, k)
    <2>1. \A k \in 1 .. n : k \in 0 .. n BY <1>1
    <2> QED BY <1>8, <2>1 DEF TimeAfter
  <1>12. Arrival(number, t).seq = number /\ Arrival(number, t).time = t % TimeMod
    BY DEF Arrival
  <1> HIDE DEF n, more, new
  <1>13. \A k \in 1 .. n + 1 :
           /\ Report(q)[k] = [seq |-> more[k].seq, status |-> StatusOf(q.deltas[k])]
           /\ more[k].time = TimeAfter(q, k)
    <2> SUFFICES ASSUME NEW k \in 1 .. n + 1
                 PROVE  /\ Report(q)[k] = [seq |-> more[k].seq, status |-> StatusOf(q.deltas[k])]
                        /\ more[k].time = TimeAfter(q, k)
      OBVIOUS
    <2>1. CASE k = n + 1 BY <1>4, <1>6, <1>7, <1>10, <1>12, <2>1 DEF new
    <2>2. CASE k # n + 1
      <3>1. k \in 1 .. n BY <1>1, <2>2
      <3> QED BY <1>3, <1>4, <1>6, <1>7, <1>11, <3>1
    <2> QED BY <2>1, <2>2
  <1>14. q.latestTimestamp % TimeMod = TimeAfter(q, n + 1) BY <1>10
  <1> QED BY <1>4, <1>6, <1>7, <1>13, <1>14 DEF Recorded, more

\* A packet that AddPacket enters.
WithArrival(p, number, t) ==
  [FillChunk(p, p.latestSequenceNumber, number, DeltaTo(p, t)) EXCEPT
     !.latestSequenceNumber = number, !.latestTimestamp = t]

LEMMA Entered ==
  ASSUME NEW mtu \in Mtus, NEW p, Based(p, mtu), NEW arrivals, Recorded(p, arrivals),
         NEW number \in Numbers, NEW t \in Int, t >= Epoch,
         ~DeltaTooLarge(DeltaTo(p, t)), RoomFor(p, mtu)
  PROVE  LET q == WithArrival(p, number, t) IN
         /\ Based(q, mtu) /\ Recorded(q, Append(arrivals, Arrival(number, t)))
         /\ q.baseSequenceNumber = p.baseSequenceNumber
         /\ q.feedbackPacketCount = p.feedbackPacketCount
         /\ q.latestSequenceNumber = number
  <1> DEFINE delta == DeltaTo(p, t)
             latest == p.latestSequenceNumber
             base == p.baseSequenceNumber
             missing == (number - (latest + 1)) % SeqSpace
             r == FillChunk(p, latest, number, delta)
             q == [r EXCEPT !.latestSequenceNumber = number, !.latestTimestamp = t]
             size == p.deltasAndChunksSize
             n == Len(p.deltas)
  <1>1. /\ Filed(p) /\ Ready(p) /\ p.currentStatus # NotReceived /\ latest \in Numbers
        /\ p.latestTimestamp \in Nat /\ p.referenceTime \in 0 .. TimeMod \div 64 - 1
        /\ Total(p) % SeqSpace = (latest + 1 - base) % SeqSpace
        /\ n <= maxPacketStatusCount
    BY DEF Based
  <1>2. delta \in Deltas
    <2>1. delta \in Int BY <1>1 DEF DeltaTo
    <2>2. ~(delta > maxPacketDelta) /\ ~(delta < -maxPacketDelta) BY DEF DeltaTooLarge
    <2> HIDE DEF delta
    <2>3. maxPacketDelta \in Int BY DEF maxPacketDelta
    <2>4. -maxPacketDelta <= delta /\ delta <= maxPacketDelta BY <2>1, <2>2, <2>3
    <2> QED BY <2>1, <2>4, DeltasAre
  <1>3. size \in Nat /\ n <= size /\ n \in Nat /\ Total(p) \in Nat /\ Cost(p) \in Nat
        /\ Report(p) \in Seq(Result) /\ Cost(p) <= size + 2
    <2>1. size \in Nat BY <1>1 DEF Filed
    <2>2. Cost(p) <= size + 2 BY <2>1 DEF Cost
    <2> QED BY <1>1, <2>1, <2>2, TotalTyped, ReportTyped DEF Filed
  <1> HIDE DEF delta
  <1>4. /\ Filed(r) /\ Ready(r) /\ r.currentStatus # NotReceived
        /\ EntersAfter(r, p, missing, delta) /\ Cost(r) <= Cost(p) + 8 /\ missing \in Nat
    BY <1>1, <1>2, FillChunkKeeps
  <1>5. DOMAIN r = PacketFields BY <1>4 DEF Filed
  <1> HIDE DEF r, missing
  <1>6. /\ DOMAIN q = PacketFields
        /\ q.baseSequenceNumber = r.baseSequenceNumber /\ q.referenceTime = r.referenceTime
        /\ q.latestSequenceNumber = number /\ q.latestTimestamp = t
        /\ q.chunks = r.chunks /\ q.deltas = r.deltas /\ q.statuses = r.statuses
        /\ q.packetStatusCount = r.packetStatusCount /\ q.allSameStatus = r.allSameStatus
        /\ q.deltasAndChunksSize = r.deltasAndChunksSize
        /\ q.currentStatus = r.currentStatus /\ q.feedbackPacketCount = r.feedbackPacketCount
    BY <1>5 DEF PacketFields
  <1> HIDE DEF q
  <1>7. /\ r.baseSequenceNumber = base /\ r.referenceTime = p.referenceTime
        /\ r.feedbackPacketCount = p.feedbackPacketCount
        /\ r.deltas = Append(p.deltas, delta) /\ Total(r) = Total(p) + missing + 1
        /\ Report(r) = Append(Report(p), [seq |-> (base + Total(p) + missing) % SeqSpace,
                                          status |-> StatusOf(delta)])
    BY <1>4 DEF EntersAfter, SameHead
  <1>8. /\ (base + Total(p) + missing) % SeqSpace = number
        /\ (Total(p) + missing + 1) % SeqSpace = (number + 1 - base) % SeqSpace
    <2>1. base \in Numbers BY <1>1 DEF Filed
    <2>2. base \in Numbers /\ latest \in Numbers BY <1>1, <2>1
    <2> DEFINE total == Total(p)
    <2>3. total \in Int /\ Wrapped(total) = Wrapped(latest + 1 - base)
      BY <1>1, <1>3 DEF Wrapped
    <2> HIDE DEF base, latest, total
    <2>4. LET m == Wrapped(number - (latest + 1)) IN
          /\ Wrapped(base + total + m) = number
          /\ Wrapped(total + m + 1) = Wrapped(number + 1 - base)
      BY <2>2, <2>3, NumberAfter
    <2>5. /\ (base + total + missing) % SeqSpace = number
          /\ (total + missing + 1) % SeqSpace = (number + 1 - base) % SeqSpace
      BY <2>4 DEF missing, Wrapped
    <2> QED BY <2>5 DEF total
  <1>9. Filed(q) /\ Ready(q) BY <1>4, <1>6 DEF Filed, Ready
  <1>10. Total(q) = Total(r) /\ Cost(q) = Cost(r) /\ Report(q) = Report(r)
    BY <1>6 DEF Total, Cost, Report
  <1>11. Padded(HeaderSize + fixedHeaderSize + Cost(q)) <= mtu + 8 /\ size + 24 <= mtu
         /\ mtu \in Int /\ mtu <= 65535
    <2>1. mtu \in Int /\ mtu <= 65535 BY MtusAre
    <2>2. Cost(q) \in Nat BY <1>9, TotalTyped
    <2> DEFINE cost == Cost(q)
    <2>3. cost <= size + 10
      <3>1. Cost(r) \in Nat BY <1>4, TotalTyped
      <3> HIDE DEF size
      <3> QED BY <1>3, <1>4, <1>10, <3>1
    <2>4. Padded(HeaderSize + fixedHeaderSize + size + 2 + 2) <= mtu BY DEF RoomFor
    <2> HIDE DEF cost, size
    <2>5. cost \in Nat /\ size \in Nat BY <1>3, <2>2 DEF cost
    <2> QED BY <2>1, <2>3, <2>4, <2>5, RoomIsEnough DEF cost
  <1>12. q.deltas = Append(p.deltas, delta) /\ Len(q.deltas) = n + 1
    <2>1. p.deltas \in Seq(Deltas) BY <1>1 DEF Filed
    <2> QED BY <1>2, <1>6, <1>7, <2>1, AppendProperties
  <1>13. Based(q, mtu)
    <2>1. n + 1 <= maxPacketStatusCount
      <3> HIDE DEF n, size
      <3> QED BY <1>3, <1>11 DEF maxPacketStatusCount
    <2>2. Len(q.deltas) # 0
      <3> HIDE DEF n
      <3> QED BY <1>3, <1>12
    <2>3. q.deltas # <<>> BY <2>2, EmptySeq
    <2>4. Total(q) % SeqSpace = (number + 1 - base) % SeqSpace BY <1>7, <1>8, <1>10
    <2>5. t \in Nat BY DEF Epoch
    <2> HIDE DEF n
    <2> QED BY <1>1, <1>4, <1>6, <1>7, <1>9, <1>11, <1>12, <2>1, <2>3, <2>4, <2>5 DEF Based
  <1>14. Recorded(q, Append(arrivals, Arrival(number, t)))
    <2>1. p.deltas \in Seq(Deltas) /\ p.latestTimestamp \in Int BY <1>1 DEF Filed
    <2>2. p.referenceTime \in Int
      <3> DEFINE top == TimeMod \div 64 - 1
      <3>1. p.referenceTime \in 0 .. top BY <1>1
      <3> HIDE DEF top
      <3> QED BY <3>1
    <2>3. delta = DeltaTo(p, t) BY DEF delta
    <2>4. Report(q) = Append(Report(p), [seq |-> number, status |-> StatusOf(delta)])
      BY <1>7, <1>8, <1>10
    <2>5. q.referenceTime = p.referenceTime /\ q.latestTimestamp = t BY <1>6, <1>7
    <2> QED BY <1>2, <1>3, <1>12, <2>1, <2>2, <2>3, <2>4, <2>5, RecordedAppended
  <1>15. WithArrival(p, number, t) = q BY DEF WithArrival, q, r, delta
  <1> QED BY <1>6, <1>7, <1>13, <1>14, <1>15

LEMMA AddPacketIs ==
  ASSUME NEW mtu \in Mtus, NEW p, Based(p, mtu), NEW arrivals, Recorded(p, arrivals),
         NEW number \in Numbers, NEW t \in Int, t >= Epoch
  PROVE  LET a == AddPacket(p, number, t, mtu)
             higher == IsSeqHigherThan(number, p.latestSequenceNumber)
         IN /\ a.result \in {"SUCCESS", "FATAL", "MAX_SIZE_EXCEEDED"}
            /\ a.result = "SUCCESS" =>
                 /\ Based(a.pkt, mtu)
                 /\ Recorded(a.pkt, IF higher THEN Append(arrivals, Arrival(number, t))
                                    ELSE arrivals)
                 /\ a.pkt.baseSequenceNumber = p.baseSequenceNumber
                 /\ a.pkt.feedbackPacketCount = p.feedbackPacketCount
                 /\ higher => a.pkt.latestSequenceNumber = number
            /\ a.result # "SUCCESS" => a.pkt = p /\ higher
            /\ a.result = "MAX_SIZE_EXCEEDED" => p.deltas # <<>>
            /\ a.result = "FATAL" => \/ TooManyMissing(p, number)
                                     \/ DeltaTooLarge(DeltaTo(p, t))
  <1> DEFINE a == AddPacket(p, number, t, mtu)
             higher == IsSeqHigherThan(number, p.latestSequenceNumber)
             fatal == TooManyMissing(p, number) \/ DeltaTooLarge(DeltaTo(p, t))
             q == WithArrival(p, number, t)
             Returns(result, r) == [result |-> result, pkt |-> r]
  <1>1. p.latestTimestamp # 0 BY DEF Based, Epoch
  <1>2. a = IF ~higher THEN Returns("SUCCESS", p)
            ELSE IF fatal THEN Returns("FATAL", p)
            ELSE IF ~RoomFor(p, mtu) THEN Returns("MAX_SIZE_EXCEEDED", p)
            ELSE Returns("SUCCESS", q)
    BY <1>1 DEF AddPacket, WithArrival
  <1> HIDE DEF a, q
  <1>3. CASE ~higher
    <2>1. a = Returns("SUCCESS", p) BY <1>2, <1>3
    <2>2. a.result = "SUCCESS" /\ a.pkt = p BY <2>1
    <2> QED BY <1>3, <2>2 DEF a
  <1>4. CASE higher /\ fatal
    <2>1. a = Returns("FATAL", p) BY <1>2, <1>4
    <2>2. a.result = "FATAL" /\ a.pkt = p BY <2>1
    <2> QED BY <1>4, <2>2 DEF a
  <1>5. CASE higher /\ ~fatal /\ ~RoomFor(p, mtu)
    <2>1. p.deltas # <<>>
      <3> SUFFICES ASSUME p.deltas = <<>> PROVE RoomFor(p, mtu)
        BY <1>5
      <3>1. Cost(p) = 0 /\ p.deltasAndChunksSize \in Nat BY DEF Based, Filed
      <3>2. p.deltasAndChunksSize = 0 BY <3>1 DEF Cost
      <3>3. mtu \in Int /\ mtu >= 24 BY MtusAre
      <3> QED BY <3>2, <3>3 DEF RoomFor, Padded, HeaderSize, fixedHeaderSize
    <2>2. a = Returns("MAX_SIZE_EXCEEDED", p) BY <1>2, <1>5
    <2>3. a.result = "MAX_SIZE_EXCEEDED" /\ a.pkt = p BY <2>2
    <2> QED BY <1>5, <2>1, <2>3 DEF a
  <1>6. CASE higher /\ ~fatal /\ RoomFor(p, mtu)
    <2>1. a = Returns("SUCCESS", q) BY <1>2, <1>6
    <2>2. a.result = "SUCCESS" /\ a.pkt = q BY <2>1
    <2>3. /\ Based(q, mtu) /\ Recorded(q, Append(arrivals, Arrival(number, t)))
          /\ q.baseSequenceNumber = p.baseSequenceNumber
          /\ q.feedbackPacketCount = p.feedbackPacketCount /\ q.latestSequenceNumber = number
      BY <1>6, Entered DEF q
    <2> QED BY <1>6, <2>2, <2>3 DEF a
  <1> QED BY <1>3, <1>4, <1>5, <1>6

(***************************************************************************)
(* Serialize, and what the sender reads                                    *)
(***************************************************************************)
LEMMA Serialized ==
  ASSUME NEW mtu \in Mtus, NEW p, Based(p, mtu), NEW arrivals, Recorded(p, arrivals)
  PROVE  LET w == Serialize(p) IN
         /\ w.base = p.baseSequenceNumber /\ w.feedbackPacketCount = p.feedbackPacketCount
         /\ w.statusCount = (p.latestSequenceNumber + 1 - p.baseSequenceNumber) % SeqSpace
         /\ w.size \in Int /\ w.size <= mtu + 8
         /\ FitsFormat(AddPendingChunks(p).chunks) =>
              ParsesAsWritten(w, w.size) /\ GetPacketResults(w) = arrivals
  <1> DEFINE q == AddPendingChunks(p)
             w == Serialize(p)
             n == Len(p.deltas)
             base == p.baseSequenceNumber
  <1>1. /\ Filed(p) /\ Ready(p) /\ p.currentStatus # NotReceived
        /\ n <= maxPacketStatusCount
        /\ Total(p) % SeqSpace = (p.latestSequenceNumber + 1 - base) % SeqSpace
        /\ Padded(HeaderSize + fixedHeaderSize + Cost(p)) <= mtu + 8
    BY DEF Based
  <1>2. Filed(q) /\ Extends(q, p, 0) /\ Cost(q) = Cost(p) /\ q.statuses = <<>>
    BY <1>1, PendingChunksKeep
  <1> HIDE DEF q
  <1>3. /\ w.base = q.baseSequenceNumber /\ w.statusCount = q.packetStatusCount
        /\ w.referenceTime = q.referenceTime /\ w.feedbackPacketCount = q.feedbackPacketCount
        /\ w.chunks = [k \in DOMAIN q.chunks |-> SerializeChunk(q.chunks[k])]
        /\ w.deltas = q.deltas /\ w.size = GetSize(q)
    BY DEF Serialize, q
  <1> HIDE DEF w
  <1>4. /\ q.baseSequenceNumber = base /\ q.referenceTime = p.referenceTime
        /\ q.feedbackPacketCount = p.feedbackPacketCount
        /\ q.deltas = p.deltas /\ Total(q) = Total(p) + 0 /\ Report(q) = Report(p)
    BY <1>2 DEF Extends, SameHead
  <1>5. /\ q.chunks \in Seq(Chunks) /\ q.packetStatusCount = TotalCount(q.chunks) % SeqSpace
        /\ q.deltasAndChunksSize \in Nat /\ p.deltas \in Seq(Deltas) /\ base \in Numbers
    BY <1>1, <1>2 DEF Filed
  <1>6. Len(q.statuses) = 0 BY <1>2, EmptySeq
  <1>7. TotalCount(q.chunks) \in Nat /\ Total(p) \in Nat /\ n \in Nat
    BY <1>1, <1>2, TotalTyped, ReportTyped
  <1>8. TotalCount(q.chunks) = Total(p)
    <2>1. Total(q) = TotalCount(q.chunks) + 0 BY <1>6 DEF Total
    <2> QED BY <1>4, <1>7, <2>1
  <1>9. w.statusCount = (p.latestSequenceNumber + 1 - base) % SeqSpace
    BY <1>1, <1>3, <1>5, <1>8
  <1>10. w.size \in Int /\ w.size <= mtu + 8
    <2>1. Cost(q) = q.deltasAndChunksSize BY <1>5, <1>6 DEF Cost
    <2>2. w.size = Padded(HeaderSize + fixedHeaderSize + Cost(p))
      BY <1>2, <1>3, <2>1 DEF GetSize
    <2>3. Cost(p) \in Nat BY <1>1, TotalTyped
    <2>4. Padded(HeaderSize + fixedHeaderSize + Cost(p)) \in Int
      BY <2>3 DEF Padded, HeaderSize, fixedHeaderSize
    <2> QED BY <1>1, <2>2, <2>4
  <1>11. ASSUME FitsFormat(q.chunks)
         PROVE  ParsesAsWritten(w, w.size) /\ GetPacketResults(w) = arrivals
    <2> DEFINE m == Len(q.chunks)
               reported == ReportedBy(base, q.chunks)
    <2>1. m \in Nat /\ q.chunks \in [1 .. m -> Chunks] BY <1>5, LenProperties
    <2>2. w.chunks = q.chunks
      <3>1. \A k \in DOMAIN q.chunks : SerializeChunk(q.chunks[k]) = q.chunks[k]
        BY <1>11 DEF FitsFormat
      <3>2. w.chunks = [k \in DOMAIN q.chunks |-> q.chunks[k]] BY <1>3, <3>1
      <3> QED BY <2>1, <3>2
    <2>3. w.statusCount = TotalCount(w.chunks)
      <3> DEFINE total == TotalCount(q.chunks)
      <3>1. total \in Nat /\ total <= maxPacketStatusCount BY <1>7, <1>11 DEF FitsFormat
      <3> HIDE DEF total
      <3>2. total % SeqSpace = total BY <3>1 DEF SeqSpace, maxPacketStatusCount
      <3> QED BY <1>3, <1>5, <2>2, <3>2 DEF total
    <2>4. ReportedBy(w.base, w.chunks) = reported BY <1>3, <1>4, <2>2
    <2>5. reported = Report(p)
      <3> DEFINE first == base + TotalCount(q.chunks)
      <3>1. first \in Int
        <4> HIDE DEF base
        <4> QED BY <1>5, <1>7, NumbersNat
      <3>2. reported \in Seq(Result) BY <1>2, <1>4, ReportTyped
      <3>3. Report(q) = reported \o ReportOf(first, VectorChunk(<<>>))
        BY <1>2, <1>4 DEF Report
      <3> HIDE DEF first, reported
      <3>4. Report(q) = reported BY <3>1, <3>2, <3>3, NothingPending, ConcatEmptySeq
      <3> QED BY <1>4, <3>4
    <2> HIDE DEF reported
    <2>6. /\ arrivals \in Seq(Arrivals) /\ Len(arrivals) = n /\ Len(reported) = n
          /\ \A k \in 1 .. n :
               /\ reported[k] = [seq |-> arrivals[k].seq, status |-> StatusOf(p.deltas[k])]
               /\ arrivals[k].time = TimeAfter(p, k)
      BY <2>5 DEF Recorded
    <2>7. DOMAIN reported = 1 .. n
      <3>1. reported \in Seq(Result) BY <1>1, <2>5, ReportTyped
      <3> QED BY <2>6, <3>1, LenProperties
    <2>8. w.deltas = p.deltas BY <1>3, <1>4
    <2>9. ParsesAsWritten(w, w.size)
      <3>1. ASSUME NEW k \in 1 .. n PROVE reported[k].status = StatusOf(p.deltas[k])
        <4> DEFINE result == reported[k]
                   status == StatusOf(p.deltas[k])
        <4>1. result = [seq |-> arrivals[k].seq, status |-> status] BY <2>6
        <4> HIDE DEF result, status
        <4>2. result.status = status BY <4>1
        <4> QED BY <4>2 DEF result, status
      <3> QED BY <1>10, <2>3, <2>4, <2>6, <2>7, <2>8, <3>1 DEF ParsesAsWritten
    <2>10. GetPacketResults(w) = arrivals
      <3>1. arrivals = [k \in 1 .. n |-> arrivals[k]] BY <2>6, LenProperties
      <3>2. \A k \in 1 .. n : arrivals[k] = [seq |-> arrivals[k].seq, time |-> arrivals[k].time]
        <4>1. \A k \in 1 .. n : arrivals[k] \in Arrivals BY <2>6, ElementOfSeq
        <4>2. \A x \in Arrivals : x = [seq |-> x.seq, time |-> x.time] BY DEF Arrivals
        <4> QED BY <4>1, <4>2
      <3>3. \A k \in 1 .. n : TimeAfter(p, k)
                                = (w.referenceTime * 64 + ElapsedAfter(w.deltas)[k]) % TimeMod
        BY <1>3, <1>4, <2>8 DEF TimeAfter
      <3> DEFINE Read(k) == [seq |-> reported[k].seq,
                             time |-> (w.referenceTime * 64 + ElapsedAfter(w.deltas)[k]) % TimeMod]
      <3>4. \A k \in 1 .. n : Read(k) = arrivals[k]
        <4> SUFFICES ASSUME NEW k \in 1 .. n PROVE Read(k) = arrivals[k]
          OBVIOUS
        <4> DEFINE result == reported[k]
                   status == StatusOf(p.deltas[k])
        <4>0. result = [seq |-> arrivals[k].seq, status |-> status] BY <2>6
        <4> HIDE DEF result, status
        <4>1. result.seq = arrivals[k].seq BY <4>0
        <4>2. arrivals[k].time = (w.referenceTime * 64 + ElapsedAfter(w.deltas)[k]) % TimeMod
          BY <2>6, <3>3
        <4> QED BY <3>2, <4>1, <4>2 DEF result
      <3>5. GetPacketResults(w) = [k \in 1 .. n |-> Read(k)]
        BY <2>4, <2>7 DEF GetPacketResults
      <3> HIDE DEF Read
      <3> QED BY <3>1, <3>4, <3>5
    <2> QED BY <2>9, <2>10
  <1> QED BY <1>3, <1>4, <1>9, <1>10, <1>11 DEF q, w

(***************************************************************************)
(* The server                                                              *)
(***************************************************************************)
Counts == 0 .. 255

\* The feedback under construction has no base yet, or reports what is owed.
FeedbackInv ==
  /\ network \in Networks
  /\ count \in Counts
  /\ now \in Int /\ now >= Epoch
  /\ last \in Numbers
  /\ packets \in 0 .. network.maxPackets
  /\ chained \in BOOLEAN
  /\ \/ pkt = NewPacket(count) /\ log = <<>>
     \/ Based(pkt, network.mtuSize) /\ Recorded(pkt, log)
  /\ pkt.feedbackPacketCount = count
  /\ out # NoFeedback =>
       /\ out.feedbackPacketCount \in Counts
       /\ count = (out.feedbackPacketCount + 1) % 256
  /\ chained => /\ Based(pkt, network.mtuSize)
                /\ pkt.baseSequenceNumber = (out.base + out.statusCount) % SeqSpace

LEMMA NetworksAre ==
  \A n \in Networks : /\ n.mtuSize \in Mtus /\ n.firstSeq \in Numbers
                      /\ n.jumps \subseteq Int /\ n.elapsed \subseteq Int
                      /\ n.maxPackets \in Nat
  BY FeedbackConstants DEF Mtus, Numbers

LEMMA CountsNext ==
  \A c \in Counts : (c + 1) % 256 \in Counts /\ (c + 1) % 256 # c
  BY DEF Counts

LEMMA NotBased == \A p, c, mtu : p = NewPacket(c) => ~Based(p, mtu)
  BY NewPacketIs DEF Based, Epoch

LEMMA InitFeedback == Init => FeedbackInv
  <1> SUFFICES ASSUME Init PROVE FeedbackInv
    OBVIOUS
  <1>1. network \in Networks /\ count = 0 /\ now = FirstTime /\ last = network.firstSeq
        /\ packets = 0 /\ chained = FALSE /\ pkt = NewPacket(0) /\ log = <<>>
        /\ out = NoFeedback
    BY DEF Init
  <1>2. now \in Int /\ now >= Epoch BY <1>1, FeedbackConstants
  <1>3. last \in Numbers /\ network.maxPackets \in Nat BY <1>1, NetworksAre
  <1>4. 0 \in Counts BY DEF Counts
  <1>5. packets \in 0 .. network.maxPackets
    <2> DEFINE m == network.maxPackets
    <2>1. m \in Nat BY <1>3
    <2> HIDE DEF m
    <2>2. packets \in 0 .. m BY <1>1, <2>1
    <2> QED BY <2>2 DEF m
  <1>6. pkt.feedbackPacketCount = count BY <1>1, NewPacketIs
  <1> QED BY <1>1, <1>2, <1>3, <1>4, <1>5, <1>6 DEF FeedbackInv

\* What is sent, and what it leaves in its place.
Sent(full) ==
  LET next == (count + 1) % 256
      base == (full.latestSequenceNumber + 1) % SeqSpace
      q == Regenerated(full)
      w == Serialize(full)
  IN /\ Based(q, network.mtuSize) /\ Recorded(q, <<>>)
     /\ q.feedbackPacketCount = next /\ q.baseSequenceNumber = base
     /\ q.latestSequenceNumber = full.latestSequenceNumber
     /\ q.latestTimestamp = Rounded(full.latestTimestamp)
     /\ w.feedbackPacketCount = full.feedbackPacketCount
     /\ w.base = full.baseSequenceNumber
     /\ base = (w.base + w.statusCount) % SeqSpace

LEMMA FeedbackSent ==
  ASSUME network \in Networks, NEW full, Based(full, network.mtuSize), full.deltas # <<>>,
         NEW arrivals, Recorded(full, arrivals)
  PROVE  Sent(full)
  <1> DEFINE mtu == network.mtuSize
             next == (count + 1) % 256
             latest == full.latestSequenceNumber
             fresh == NewPacket(next)
             q == SetBase(fresh, latest, full.latestTimestamp)
             w == Serialize(full)
  <1>1. mtu \in Mtus BY NetworksAre
  <1>2. latest \in Numbers /\ full.latestTimestamp \in Nat /\ full.latestTimestamp >= Epoch
        /\ full.baseSequenceNumber \in Numbers
    BY DEF Based, Filed
  <1>3. full.latestTimestamp > 0 BY <1>2 DEF Epoch
  <1>4. fresh.latestTimestamp = 0 BY NewPacketIs
  <1> HIDE DEF next, mtu
  <1>5. Regenerated(full) = q
    <2>1. Regenerated(full) = AddPacket(fresh, latest, full.latestTimestamp, mtu).pkt
      BY <1>3 DEF Regenerated, IsSerializable, mtu, next
    <2> HIDE DEF fresh
    <2>2. AddPacket(fresh, latest, full.latestTimestamp, mtu) = [result |-> "SUCCESS", pkt |-> q]
      BY <1>4 DEF AddPacket
    <2> HIDE DEF q
    <2> QED BY <2>1, <2>2
  <1>6. /\ Based(q, mtu) /\ Recorded(q, <<>>) /\ q.feedbackPacketCount = next
        /\ q.baseSequenceNumber = (latest + 1) % SeqSpace /\ q.latestSequenceNumber = latest
        /\ q.latestTimestamp = Rounded(full.latestTimestamp)
    <2>1. full.latestTimestamp \in Int BY <1>2
    <2> QED BY <1>1, <1>2, <2>1, BaseSet
  <1> HIDE DEF q, w
  <1>7. /\ w.base = full.baseSequenceNumber
        /\ w.feedbackPacketCount = full.feedbackPacketCount
        /\ w.statusCount = (latest + 1 - full.baseSequenceNumber) % SeqSpace
    BY <1>1, Serialized DEF w, mtu
  <1>8. (latest + 1) % SeqSpace = (w.base + w.statusCount) % SeqSpace
    <2> DEFINE b == full.baseSequenceNumber
    <2>1. b \in Int /\ latest \in Int BY <1>2, NumbersNat
    <2> HIDE DEF b, latest
    <2>2. (b + ((latest + 1 - b) % SeqSpace)) % SeqSpace = (latest + 1) % SeqSpace
      BY <2>1 DEF SeqSpace
    <2> QED BY <1>7, <2>2 DEF b
  <1> QED BY <1>5, <1>6, <1>7, <1>8 DEF Sent, next, mtu, latest, w

\* What the handler does with an arrival, by the state of the feedback.
Entering(seq, t) == AddPacket(pkt, seq, t, network.mtuSize)

LEMMA FirstIsBase ==
  ASSUME network \in Networks, pkt = NewPacket(count), NEW seq \in Numbers, NEW t \in Int,
         t >= Epoch, RtpHandler(seq, t), log = <<>>
  PROVE  /\ pkt' = SetBase(NewPacket(count), seq, t)
         /\ log' = <<>> /\ UNCHANGED <<count, out, chained>>
         /\ Based(pkt', network.mtuSize) /\ Recorded(pkt', <<>>)
         /\ pkt'.feedbackPacketCount = count
  <1> DEFINE q == SetBase(NewPacket(count), seq, t)
  <1>1. pkt.latestTimestamp = 0 BY NewPacketIs
  <1>2. Entering(seq, t) = [result |-> "SUCCESS", pkt |-> q] BY <1>1 DEF Entering, AddPacket
  <1>3. network.mtuSize \in Mtus BY NetworksAre
  <1>4. /\ Based(q, network.mtuSize) /\ Recorded(q, <<>>)
        /\ q.feedbackPacketCount = count /\ q.packetStatusCount = 0
    BY <1>3, BaseSet
  <1> HIDE DEF q
  <1>5. Entering(seq, t).result = "SUCCESS" /\ Entering(seq, t).pkt = q BY <1>2
  <1>6. HandleSuccess(seq, t, q) \/ HandleFull(seq, t, q) BY <1>5 DEF RtpHandler, Entering
  <1>7. ~IsFull(q) BY <1>4 DEF IsFull, maxPacketStatusCount
  <1>8. HandleSuccess(seq, t, q) BY <1>6, <1>7 DEF HandleFull
  <1>9. pkt' = q /\ log' = Owed(seq, t) /\ UNCHANGED <<count, out, chained>>
    BY <1>8 DEF HandleSuccess
  <1>10. log' = <<>> BY <1>1, <1>9 DEF Owed
  <1> QED BY <1>4, <1>9, <1>10 DEF q

LEMMA Handled ==
  ASSUME network \in Networks, Based(pkt, network.mtuSize), Recorded(pkt, log),
         NEW seq \in Numbers, NEW t \in Int, t >= Epoch, RtpHandler(seq, t)
  PROVE  LET a == Entering(seq, t)
             higher == IsSeqHigherThan(seq, pkt.latestSequenceNumber)
             owed == IF higher THEN Append(log, Arrival(seq, t)) ELSE log
         IN \/ /\ HandleSuccess(seq, t, a.pkt) \/ HandleFull(seq, t, a.pkt)
               /\ Based(a.pkt, network.mtuSize) /\ Recorded(a.pkt, owed)
               /\ a.pkt.baseSequenceNumber = pkt.baseSequenceNumber
               /\ a.pkt.feedbackPacketCount = pkt.feedbackPacketCount
               /\ Owed(seq, t) = owed
               /\ higher => a.pkt.latestSequenceNumber = seq
            \/ HandleMaxSizeExceeded(seq, t) /\ pkt.deltas # <<>> /\ higher /\ a.pkt = pkt
            \/ /\ HandleFatal
               /\ TooManyMissing(pkt, seq) \/ DeltaTooLarge(DeltaTo(pkt, t))
  <1> DEFINE a == Entering(seq, t)
             higher == IsSeqHigherThan(seq, pkt.latestSequenceNumber)
             owed == IF higher THEN Append(log, Arrival(seq, t)) ELSE log
  <1>1. network.mtuSize \in Mtus BY NetworksAre
  <1>2. /\ a.result \in {"SUCCESS", "FATAL", "MAX_SIZE_EXCEEDED"}
        /\ a.result = "SUCCESS" => /\ Based(a.pkt, network.mtuSize) /\ Recorded(a.pkt, owed)
                                   /\ a.pkt.baseSequenceNumber = pkt.baseSequenceNumber
                                   /\ a.pkt.feedbackPacketCount = pkt.feedbackPacketCount
                                   /\ higher => a.pkt.latestSequenceNumber = seq
        /\ a.result # "SUCCESS" => a.pkt = pkt /\ higher
        /\ a.result = "MAX_SIZE_EXCEEDED" => pkt.deltas # <<>>
        /\ a.result = "FATAL" => TooManyMissing(pkt, seq) \/ DeltaTooLarge(DeltaTo(pkt, t))
    BY <1>1, AddPacketIs DEF Entering
  <1>3. pkt.latestTimestamp # 0 BY DEF Based, Epoch
  <1>4. Owed(seq, t) = owed BY <1>3 DEF Owed
  <1>5. /\ a.result = "SUCCESS" => HandleSuccess(seq, t, a.pkt) \/ HandleFull(seq, t, a.pkt)
        /\ a.result = "MAX_SIZE_EXCEEDED" => HandleMaxSizeExceeded(seq, t)
        /\ a.result = "FATAL" => HandleFatal
    BY DEF RtpHandler, Entering
  <1> HIDE DEF a, higher, owed
  <1>6. CASE a.result = "SUCCESS" BY <1>2, <1>4, <1>5, <1>6 DEF a, higher, owed
  <1>7. CASE a.result = "MAX_SIZE_EXCEEDED" BY <1>2, <1>5, <1>7 DEF a, higher
  <1>8. CASE a.result = "FATAL" BY <1>2, <1>5, <1>8
  <1> QED BY <1>2, <1>6, <1>7, <1>8

\* The part of the invariant that the handler may disturb, after it.
Kept ==
  /\ count' \in Counts /\ chained' \in BOOLEAN
  /\ \/ pkt' = NewPacket(count') /\ log' = <<>>
     \/ Based(pkt', network.mtuSize) /\ Recorded(pkt', log')
  /\ pkt'.feedbackPacketCount = count'
  /\ out' # NoFeedback =>
       /\ out'.feedbackPacketCount \in Counts
       /\ count' = (out'.feedbackPacketCount + 1) % 256
  /\ chained' => /\ Based(pkt', network.mtuSize)
                 /\ pkt'.baseSequenceNumber = (out'.base + out'.statusCount) % SeqSpace

LEMMA SuccessKeeps ==
  ASSUME FeedbackInv, NEW seq, NEW t, NEW entered, HandleSuccess(seq, t, entered),
         Based(entered, network.mtuSize), Recorded(entered, Owed(seq, t)),
         entered.baseSequenceNumber = pkt.baseSequenceNumber,
         entered.feedbackPacketCount = pkt.feedbackPacketCount
  PROVE  Kept
  BY DEF FeedbackInv, Kept, HandleSuccess

\* After a feedback is sent, with what is in its place or what is entered in that.
LEMMA SentKeeps ==
  ASSUME FeedbackInv, NEW full, full.deltas # <<>>, SendTransportCcFeedback(full), Sent(full),
         full.feedbackPacketCount = count,
         Based(pkt', network.mtuSize), Recorded(pkt', log'),
         pkt'.feedbackPacketCount = Regenerated(full).feedbackPacketCount,
         pkt'.baseSequenceNumber = Regenerated(full).baseSequenceNumber
  PROVE  Kept /\ out' = Serialize(full) /\ out'.feedbackPacketCount = count
  <1> DEFINE w == Serialize(full)
             q == Regenerated(full)
  <1>1. out' = w /\ count' = (count + 1) % 256 /\ chained' = TRUE
    BY DEF SendTransportCcFeedback, IsSerializable
  <1>2. /\ q.feedbackPacketCount = (count + 1) % 256
        /\ w.feedbackPacketCount = full.feedbackPacketCount
        /\ q.baseSequenceNumber = (w.base + w.statusCount) % SeqSpace
    BY DEF Sent
  <1> HIDE DEF w, q
  <1>3. count \in Counts BY DEF FeedbackInv
  <1>4. count' \in Counts BY <1>1, <1>3, CountsNext
  <1>5. pkt'.feedbackPacketCount = count' BY <1>1, <1>2 DEF q
  <1>6. out'.feedbackPacketCount = count BY <1>1, <1>2
  <1>7. pkt'.baseSequenceNumber = (out'.base + out'.statusCount) % SeqSpace
    BY <1>1, <1>2 DEF q
  <1> QED BY <1>1, <1>3, <1>4, <1>5, <1>6, <1>7 DEF Kept, w

LEMMA FullKeeps ==
  ASSUME FeedbackInv, NEW seq, NEW t, NEW entered, HandleFull(seq, t, entered),
         Based(entered, network.mtuSize), NEW arrivals, Recorded(entered, arrivals),
         entered.baseSequenceNumber = pkt.baseSequenceNumber,
         entered.feedbackPacketCount = pkt.feedbackPacketCount
  PROVE  /\ Kept
         /\ \/ out' = out /\ arrivals = <<>>
            \/ /\ out' = Serialize(entered) /\ out'.feedbackPacketCount = count
               /\ out'.base = pkt.baseSequenceNumber
  <1>1. SendTransportCcFeedback(entered) /\ pkt' = Regenerated(entered) /\ log' = <<>>
    BY DEF HandleFull
  <1>2. network \in Networks /\ pkt.feedbackPacketCount = count BY DEF FeedbackInv
  <1>3. CASE entered.deltas = <<>>
    <2>1. pkt' = entered /\ UNCHANGED <<out, count, chained>>
      BY <1>1, <1>3 DEF Regenerated, SendTransportCcFeedback, IsSerializable
    <2>2. arrivals = <<>>
      <3>1. Len(arrivals) = 0 BY <1>3, EmptySeq DEF Recorded
      <3> QED BY <3>1, EmptySeq DEF Recorded
    <2> QED BY <1>1, <2>1, <2>2 DEF FeedbackInv, Kept
  <1>4. CASE entered.deltas # <<>>
    <2>1. Sent(entered) BY <1>2, <1>4, FeedbackSent
    <2>2. Based(pkt', network.mtuSize) /\ Recorded(pkt', log') BY <1>1, <2>1 DEF Sent
    <2>3. Kept /\ out' = Serialize(entered) /\ out'.feedbackPacketCount = count
      BY <1>1, <1>2, <1>4, <2>1, <2>2, SentKeeps
    <2>4. out'.base = pkt.baseSequenceNumber BY <2>1, <2>3 DEF Sent
    <2> QED BY <2>3, <2>4
  <1> QED BY <1>3, <1>4

LEMMA MaxSizeKeeps ==
  ASSUME FeedbackInv, Based(pkt, network.mtuSize), Recorded(pkt, log),
         NEW seq \in Numbers, NEW t \in Int, t >= Epoch,
         HandleMaxSizeExceeded(seq, t), pkt.deltas # <<>>,
         IsSeqHigherThan(seq, pkt.latestSequenceNumber)
  PROVE  /\ Kept
         /\ out' = Serialize(pkt) /\ out'.feedbackPacketCount = count
         /\ out'.base = pkt.baseSequenceNumber
  <1> DEFINE mtu == network.mtuSize
             q == Regenerated(pkt)
             a == AddPacket(q, seq, t, mtu)
  <1>1. /\ SendTransportCcFeedback(pkt) /\ pkt' = a.pkt
        /\ log' = IF a.result = "SUCCESS" THEN <<Arrival(seq, t)>> ELSE <<>>
    BY DEF HandleMaxSizeExceeded
  <1>2. network \in Networks /\ pkt.feedbackPacketCount = count BY DEF FeedbackInv
  <1>3. mtu \in Mtus BY <1>2, NetworksAre
  <1>4. Sent(pkt) BY <1>2, FeedbackSent
  <1>5. /\ Based(q, mtu) /\ Recorded(q, <<>>)
        /\ q.latestSequenceNumber = pkt.latestSequenceNumber
    BY <1>4 DEF Sent
  <1> HIDE DEF q, mtu
  <1>6. Append(<<>>, Arrival(seq, t)) = <<Arrival(seq, t)>> OBVIOUS
  <1> DEFINE none == <<>>
             entry == Arrival(seq, t)
             higher == IsSeqHigherThan(seq, q.latestSequenceNumber)
  <1>11. Recorded(q, none) /\ higher BY <1>5
  <1> HIDE DEF none
  <1>12. /\ a.result = "SUCCESS" =>
              /\ Based(a.pkt, mtu)
              /\ Recorded(a.pkt, IF higher THEN Append(none, entry) ELSE none)
              /\ a.pkt.baseSequenceNumber = q.baseSequenceNumber
              /\ a.pkt.feedbackPacketCount = q.feedbackPacketCount
         /\ a.result # "SUCCESS" => a.pkt = q
    BY <1>3, <1>5, <1>11, AddPacketIs
  <1> HIDE DEF a, entry, higher
  <1>7. /\ a.result = "SUCCESS" =>
             /\ Based(a.pkt, mtu) /\ Recorded(a.pkt, <<entry>>)
             /\ a.pkt.baseSequenceNumber = q.baseSequenceNumber
             /\ a.pkt.feedbackPacketCount = q.feedbackPacketCount
        /\ a.result # "SUCCESS" => a.pkt = q
    <2>1. Append(none, entry) = <<entry>> BY <1>6 DEF none, entry
    <2> QED BY <1>11, <1>12, <2>1
  <1>8. /\ Based(pkt', mtu) /\ Recorded(pkt', log')
        /\ pkt'.baseSequenceNumber = q.baseSequenceNumber
        /\ pkt'.feedbackPacketCount = q.feedbackPacketCount
    BY <1>1, <1>5, <1>7 DEF entry, none
  <1>9. Kept /\ out' = Serialize(pkt) /\ out'.feedbackPacketCount = count
    BY <1>1, <1>2, <1>4, <1>8, SentKeeps DEF mtu, q
  <1>10. out'.base = pkt.baseSequenceNumber BY <1>4, <1>9 DEF Sent
  <1> QED BY <1>9, <1>10

LEMMA FatalKeeps ==
  ASSUME FeedbackInv, HandleFatal
  PROVE  Kept
  <1>1. NewPacket(count).feedbackPacketCount = count BY NewPacketIs
  <1> QED BY <1>1 DEF FeedbackInv, Kept, HandleFatal

\* The arrival of a step.
LEMMA ReceiveIs ==
  ASSUME FeedbackInv, Receive
  PROVE  /\ last' \in Numbers /\ now' \in Int /\ now' >= Epoch
         /\ RtpHandler(last', now')
         /\ packets' \in 0 .. network.maxPackets /\ network' = network
  <1>1. PICK jump \in network.jumps, ms \in network.elapsed :
          /\ packets < network.maxPackets /\ now + ms >= Epoch
          /\ RtpHandler((last + jump) % SeqSpace, now + ms)
          /\ last' = (last + jump) % SeqSpace /\ now' = now + ms
          /\ packets' = packets + 1 /\ network' = network
    BY DEF Receive
  <1>2. jump \in Int /\ ms \in Int /\ now \in Int /\ last \in Int
        /\ network.maxPackets \in Nat /\ packets \in 0 .. network.maxPackets
    BY NetworksAre, NumbersNat DEF FeedbackInv
  <1>3. last' \in Numbers
    <2> DEFINE n == last + jump
    <2>1. n \in Int BY <1>2
    <2> HIDE DEF n
    <2> QED BY <1>1, <2>1, WrapTyped DEF n
  <1>4. packets' \in 0 .. network.maxPackets
    <2> DEFINE m == network.maxPackets
    <2>1. m \in Nat /\ packets \in 0 .. m /\ packets < m BY <1>1, <1>2
    <2> HIDE DEF m
    <2>2. packets + 1 \in 0 .. m BY <2>1
    <2> QED BY <1>1, <2>2 DEF m
  <1> QED BY <1>1, <1>2, <1>3, <1>4

LEMMA StepFeedback == FeedbackInv /\ [Next]_vars => FeedbackInv'
  <1> SUFFICES ASSUME FeedbackInv, [Next]_vars PROVE FeedbackInv'
    OBVIOUS
  <1>1. CASE UNCHANGED vars BY <1>1 DEF FeedbackInv, vars
  <1>2. CASE Receive
    <2>1. /\ last' \in Numbers /\ now' \in Int /\ now' >= Epoch
          /\ RtpHandler(last', now')
          /\ packets' \in 0 .. network.maxPackets /\ network' = network
      BY <1>2, ReceiveIs
    <2>2. network \in Networks /\ pkt.feedbackPacketCount = count BY DEF FeedbackInv
    <2>3. Kept
      <3>1. CASE pkt = NewPacket(count) /\ log = <<>>
        <4>1. /\ log' = <<>> /\ UNCHANGED <<count, out, chained>>
              /\ Based(pkt', network.mtuSize) /\ Recorded(pkt', <<>>)
              /\ pkt'.feedbackPacketCount = count
          BY <2>1, <2>2, <3>1, FirstIsBase
        <4>2. ~chained BY <3>1, NotBased DEF FeedbackInv
        <4> QED BY <4>1, <4>2 DEF FeedbackInv, Kept
      <3>2. CASE Based(pkt, network.mtuSize) /\ Recorded(pkt, log)
        <4> DEFINE a == Entering(last', now')
        <4>1. \/ /\ HandleSuccess(last', now', a.pkt) \/ HandleFull(last', now', a.pkt)
                 /\ Based(a.pkt, network.mtuSize) /\ Recorded(a.pkt, Owed(last', now'))
                 /\ a.pkt.baseSequenceNumber = pkt.baseSequenceNumber
                 /\ a.pkt.feedbackPacketCount = pkt.feedbackPacketCount
              \/ /\ HandleMaxSizeExceeded(last', now') /\ pkt.deltas # <<>>
                 /\ IsSeqHigherThan(last', pkt.latestSequenceNumber)
              \/ HandleFatal
          BY <2>1, <2>2, <3>2, Handled
        <4> HIDE DEF a
        <4> QED BY <2>1, <3>2, <4>1, SuccessKeeps, FullKeeps, MaxSizeKeeps, FatalKeeps
      <3> QED BY <3>1, <3>2 DEF FeedbackInv
    <2> QED BY <2>1, <2>2, <2>3 DEF FeedbackInv, Kept
  <1> QED BY <1>1, <1>2 DEF Next

LEMMA FeedbackInvariant == Spec => []FeedbackInv
  BY InitFeedback, StepFeedback, PTL DEF Spec

--------------------------------------------------------------------------------
(* Theorems *)

\* Every field of the feedback under construction has the width of its type, its
\* chunks have at least one status each and its deltas are those AddPacket allows.
THEOREM FeedbackTypeCorrect == Spec => []TypeOK
  <1>1. FeedbackInv => TypeOK
    <2> SUFFICES ASSUME FeedbackInv PROVE TypeOK
      OBVIOUS
    <2>1. /\ Filed(pkt) /\ pkt.latestSequenceNumber \in Numbers
          /\ pkt.referenceTime \in 0 .. TimeMod \div 64 - 1
      <3>1. CASE pkt = NewPacket(count)
        <4>1. 0 \in Numbers
          <5>1. 0 \in Nat /\ 0 < SeqSpace BY DEF SeqSpace
          <5> QED BY <5>1, NumbersAre
        <4>2. 0 \in 0 .. TimeMod \div 64 - 1
          <5> DEFINE m == TimeMod \div 64 - 1
          <5>1. m \in Nat BY DEF TimeMod
          <5> HIDE DEF m
          <5>2. 0 \in 0 .. m BY <5>1
          <5> QED BY <5>2 DEF m
        <4> QED BY <3>1, <4>1, <4>2, NewPacketIs
      <3>2. CASE Based(pkt, network.mtuSize) BY <3>2 DEF Based
      <3> QED BY <3>1, <3>2 DEF FeedbackInv
    <2>2. pkt.packetStatusCount \in 0 .. maxPacketStatusCount
      <3> DEFINE total == TotalCount(pkt.chunks)
      <3>1. total \in Int BY <2>1, ReportTyped
      <3>2. pkt.packetStatusCount = total % SeqSpace BY <2>1 DEF Filed
      <3> HIDE DEF total
      <3>3. pkt.packetStatusCount \in Numbers BY <3>1, <3>2, WrapTyped
      <3>4. SeqSpace - 1 = maxPacketStatusCount BY DEF SeqSpace, maxPacketStatusCount
      <3> QED BY <3>3, <3>4 DEF Numbers
    <2>3. \A k \in DOMAIN pkt.chunks : ChunkCount(pkt.chunks[k]) \in 1 .. maxPacketStatusCount
      <3> SUFFICES ASSUME NEW k \in DOMAIN pkt.chunks
                   PROVE  ChunkCount(pkt.chunks[k]) \in 1 .. maxPacketStatusCount
        OBVIOUS
      <3>1. pkt.chunks[k] \in Chunks BY <2>1 DEF Filed
      <3> QED BY <3>1, ChunksCount
    <2>4. \A k \in DOMAIN pkt.deltas : pkt.deltas[k] \in -maxPacketDelta .. maxPacketDelta
      <3> SUFFICES ASSUME NEW k \in DOMAIN pkt.deltas
                   PROVE  pkt.deltas[k] \in Deltas
        BY DEF Deltas
      <3> QED BY <2>1 DEF Filed
    <2>5. pkt.baseSequenceNumber \in Numbers /\ pkt.statuses \in Seq(Statuses)
      BY <2>1 DEF Filed
    <2> QED BY <2>1, <2>2, <2>3, <2>4, <2>5 DEF TypeOK, FeedbackInv, Numbers, Counts
  <1> QED BY <1>1, FeedbackInvariant, PTL

\* The feedback under construction, sent at any moment, reads back at the sender as
\* exactly the arrivals since its base: the round trip of AddPacket, Serialize,
\* Parse and GetPacketResults, for every pattern of gaps, delays and reorderings.
THEOREM FeedbackIsFaithful == Spec => []FaithfulFeedback
  <1>1. FeedbackInv => FaithfulFeedback
    <2> SUFFICES ASSUME FeedbackInv, pkt.latestTimestamp # 0,
                        FitsFormat(AddPendingChunks(pkt).chunks)
                 PROVE  LET w == Serialize(pkt)
                        IN /\ ParsesAsWritten(w, w.size)
                           /\ w.statusCount = (pkt.latestSequenceNumber + 1 - w.base) % SeqSpace
                           /\ GetPacketResults(w) = log
      BY DEF FaithfulFeedback
    <2>1. Based(pkt, network.mtuSize) /\ Recorded(pkt, log)
      BY NewPacketIs DEF FeedbackInv
    <2>2. network.mtuSize \in Mtus BY NetworksAre DEF FeedbackInv
    <2> QED BY <2>1, <2>2, Serialized
  <1> QED BY <1>1, FeedbackInvariant, PTL

\* No feedback exceeds the limit of its datagram by more than two words, whatever
\* the limit.
THEOREM OvershootIsBounded == Spec => []OvershootBounded
  <1>1. FeedbackInv => OvershootBounded
    <2> SUFFICES ASSUME FeedbackInv, IsSerializable(pkt)
                 PROVE  Serialize(pkt).size <= network.mtuSize + 8
      BY DEF OvershootBounded
    <2>1. Based(pkt, network.mtuSize) /\ Recorded(pkt, log)
      BY NewPacketIs DEF FeedbackInv, IsSerializable
    <2>2. network.mtuSize \in Mtus BY NetworksAre DEF FeedbackInv
    <2> QED BY <2>1, <2>2, Serialized
  <1> QED BY <1>1, FeedbackInvariant, PTL

\* What one arrival may do to the last feedback sent and to the arrivals owed.
LEMMA ReceiveGives ==
  ASSUME FeedbackInv, Receive
  PROVE  \/ out' = out /\ \/ log' = log
                          \/ \E entry : log' = Append(log, entry)
                          \/ log = <<>>
         \/ HandleFatal /\ (TooManyMissing(pkt, last') \/ DeltaTooLarge(DeltaTo(pkt, now')))
         \/ /\ out'.feedbackPacketCount = count /\ out'.base = pkt.baseSequenceNumber
            /\ \E arrivals :
                 LET sent == AddPacket(pkt, last', now', network.mtuSize).pkt
                 IN /\ out' = Serialize(sent)
                    /\ Based(sent, network.mtuSize) /\ Recorded(sent, arrivals)
                    /\ arrivals = log \/ \E entry : arrivals = Append(log, entry)
  <1> DEFINE a == Entering(last', now')
             higher == IsSeqHigherThan(last', pkt.latestSequenceNumber)
             entry == Arrival(last', now')
             owed == IF higher THEN Append(log, entry) ELSE log
  <1>1. /\ last' \in Numbers /\ now' \in Int /\ now' >= Epoch
        /\ RtpHandler(last', now')
    BY ReceiveIs
  <1>2. network \in Networks BY DEF FeedbackInv
  <1>3. CASE pkt = NewPacket(count) /\ log = <<>>
    BY <1>1, <1>2, <1>3, FirstIsBase
  <1>4. CASE Based(pkt, network.mtuSize) /\ Recorded(pkt, log)
    <2>1. \/ /\ HandleSuccess(last', now', a.pkt) \/ HandleFull(last', now', a.pkt)
             /\ Based(a.pkt, network.mtuSize) /\ Recorded(a.pkt, owed)
             /\ a.pkt.baseSequenceNumber = pkt.baseSequenceNumber
             /\ a.pkt.feedbackPacketCount = pkt.feedbackPacketCount
             /\ Owed(last', now') = owed
          \/ /\ HandleMaxSizeExceeded(last', now') /\ pkt.deltas # <<>> /\ higher
             /\ a.pkt = pkt
          \/ /\ HandleFatal
             /\ TooManyMissing(pkt, last') \/ DeltaTooLarge(DeltaTo(pkt, now'))
      BY <1>1, <1>2, <1>4, Handled
    <2>2. a.pkt = AddPacket(pkt, last', now', network.mtuSize).pkt BY DEF Entering
    <2>3. owed = log \/ \E e : owed = Append(log, e) OBVIOUS
    <2> HIDE DEF a, owed
    <2>4. CASE HandleSuccess(last', now', a.pkt) /\ Owed(last', now') = owed
      <3>1. out' = out /\ log' = owed BY <2>4 DEF HandleSuccess
      <3> QED BY <2>3, <3>1
    <2>5. CASE /\ HandleFull(last', now', a.pkt)
               /\ Based(a.pkt, network.mtuSize) /\ Recorded(a.pkt, owed)
               /\ a.pkt.baseSequenceNumber = pkt.baseSequenceNumber
               /\ a.pkt.feedbackPacketCount = pkt.feedbackPacketCount
      <3>1. \/ out' = out /\ owed = <<>>
            \/ /\ out' = Serialize(a.pkt) /\ out'.feedbackPacketCount = count
               /\ out'.base = pkt.baseSequenceNumber
        BY <2>5, FullKeeps
      <3>2. CASE out' = out /\ owed = <<>>
        <4>1. log = <<>>
          <5>1. log \in Seq(Arrivals) BY <1>4 DEF Recorded
          <5>2. \A e : Append(log, e) # <<>> BY <5>1, EmptySeq
          <5> QED BY <2>3, <3>2, <5>2
        <4> QED BY <3>2, <4>1
      <3>3. CASE /\ out' = Serialize(a.pkt) /\ out'.feedbackPacketCount = count
                 /\ out'.base = pkt.baseSequenceNumber
        BY <2>2, <2>3, <2>5, <3>3
      <3> QED BY <3>1, <3>2, <3>3
    <2>6. CASE /\ HandleMaxSizeExceeded(last', now') /\ pkt.deltas # <<>> /\ higher
               /\ a.pkt = pkt
      <3>1. /\ out' = Serialize(pkt) /\ out'.feedbackPacketCount = count
            /\ out'.base = pkt.baseSequenceNumber
        BY <1>1, <1>4, <2>6, MaxSizeKeeps
      <3> QED BY <1>4, <2>2, <2>6, <3>1
    <2> QED BY <2>1, <2>4, <2>5, <2>6
  <1> QED BY <1>3, <1>4 DEF FeedbackInv

\* Feedbacks are numbered consecutively, a reset uses no number, and each starts
\* right after the last packet of the one before unless a reset came in between.
THEOREM FeedbacksAreConsecutive == Spec => ConsecutiveFeedback
  <1> DEFINE Consecutive ==
        out' # out /\ out # NoFeedback =>
          /\ out'.feedbackPacketCount = (out.feedbackPacketCount + 1) % 256
          /\ chained => out'.base = (out.base + out.statusCount) % SeqSpace
  <1>1. FeedbackInv /\ [Next]_vars => [Consecutive]_vars
    <2> SUFFICES ASSUME FeedbackInv, Receive, out' # out, out # NoFeedback
                 PROVE  /\ out'.feedbackPacketCount = (out.feedbackPacketCount + 1) % 256
                        /\ chained => out'.base = (out.base + out.statusCount) % SeqSpace
      BY DEF Next
    <2>1. out'.feedbackPacketCount = count /\ out'.base = pkt.baseSequenceNumber
      BY ReceiveGives DEF HandleFatal
    <2> QED BY <2>1 DEF FeedbackInv
  <1> QED BY <1>1, FeedbackInvariant, PTL DEF Spec, ConsecutiveFeedback

\* A feedback is never the one sent before it.
LEMMA SerializedIsNew ==
  ASSUME FeedbackInv, NEW full, NEW w, w = Serialize(full), w.feedbackPacketCount = count
  PROVE  w # out
  <1>1. CASE out = NoFeedback
    <2>1. "none" \in DOMAIN out BY <1>1 DEF NoFeedback
    <2>2. "none" \notin DOMAIN w BY DEF Serialize
    <2> QED BY <2>1, <2>2
  <1>2. CASE out # NoFeedback BY <1>2, CountsNext DEF FeedbackInv
  <1> QED BY <1>1, <1>2

LEMMA PrefixItself ==
  ASSUME NEW S, NEW s \in Seq(S)
  PROVE  IsPrefix(s, s)
  BY DEF IsPrefix

LEMMA PrefixAppended ==
  ASSUME NEW S, NEW s \in Seq(S), NEW e
  PROVE  IsPrefix(s, Append(s, e))
  <1>1. Len(s) <= Len(Append(s, e)) OBVIOUS
  <1>2. SubSeq(s, 1, Len(s)) = SubSeq(Append(s, e), 1, Len(s)) OBVIOUS
  <1> QED BY <1>1, <1>2 DEF IsPrefix

LEMMA PrefixEmpty ==
  ASSUME NEW S, NEW s \in Seq(S)
  PROVE  IsPrefix(<<>>, s)
  BY DEF IsPrefix

\* An arrival that was entered stays owed until the feedback that reports it; only
\* a gap or a time step too large for the format makes the server forget any.
THEOREM ArrivalsStayOwed == Spec => ReportedUnlessFatal
  <1> DEFINE Reported ==
        LET sent == AddPacket(pkt, last', now', network.mtuSize).pkt
        IN \/ IsPrefix(log, log')
           \/ /\ out' # out
              /\ FitsFormat(AddPendingChunks(sent).chunks) =>
                   IsPrefix(log, GetPacketResults(out'))
           \/ TooManyMissing(pkt, last') \/ DeltaTooLarge(DeltaTo(pkt, now'))
  <1>1. FeedbackInv /\ [Next]_vars => [Reported]_vars
    <2> SUFFICES ASSUME FeedbackInv, Receive, FeedbackInv' PROVE Reported
      BY StepFeedback DEF Next
    <2> DEFINE sent == AddPacket(pkt, last', now', network.mtuSize).pkt
    <2>1. log \in Seq(Arrivals) /\ log' \in Seq(Arrivals)
      <3>1. <<>> \in Seq(Arrivals) OBVIOUS
      <3>2. \A p, arrivals : Recorded(p, arrivals) => arrivals \in Seq(Arrivals)
        BY DEF Recorded
      <3>3. log = <<>> \/ Recorded(pkt, log) BY DEF FeedbackInv
      <3>4. log' = <<>> \/ Recorded(pkt', log') BY DEF FeedbackInv
      <3> QED BY <3>1, <3>2, <3>3, <3>4
    <2>2. CASE out' = out /\ \/ log' = log
                             \/ \E entry : log' = Append(log, entry)
                             \/ log = <<>>
      BY <2>1, <2>2, PrefixItself, PrefixAppended, PrefixEmpty
    <2>3. CASE TooManyMissing(pkt, last') \/ DeltaTooLarge(DeltaTo(pkt, now')) BY <2>3
    <2>4. CASE /\ out'.feedbackPacketCount = count
               /\ \E arrivals :
                    /\ out' = Serialize(sent)
                    /\ Based(sent, network.mtuSize) /\ Recorded(sent, arrivals)
                    /\ arrivals = log \/ \E entry : arrivals = Append(log, entry)
      <3>1. PICK arrivals :
              /\ out' = Serialize(sent)
              /\ Based(sent, network.mtuSize) /\ Recorded(sent, arrivals)
              /\ arrivals = log \/ \E entry : arrivals = Append(log, entry)
        BY <2>4
      <3>2. out' # out BY <2>4, <3>1, SerializedIsNew
      <3>3. network.mtuSize \in Mtus BY NetworksAre DEF FeedbackInv
      <3>4. FitsFormat(AddPendingChunks(sent).chunks) => GetPacketResults(out') = arrivals
        <4> HIDE DEF sent
        <4> QED BY <3>1, <3>3, Serialized
      <3>5. IsPrefix(log, arrivals) BY <2>1, <3>1, PrefixItself, PrefixAppended
      <3> QED BY <3>2, <3>4, <3>5
    <2> QED BY <2>2, <2>3, <2>4, ReceiveGives
  <1> QED BY <1>1, FeedbackInvariant, PTL DEF Spec, ReportedUnlessFatal

\* A packet for which there was no room is added to the regenerated feedback, or
\* refused for its delay from the rounded time of that.
LEMMA AddedOrTooLate ==
  ASSUME FeedbackInv, Based(pkt, network.mtuSize), Recorded(pkt, log),
         NEW seq \in Numbers, NEW t \in Int, t >= Epoch,
         HandleMaxSizeExceeded(seq, t), pkt.deltas # <<>>,
         IsSeqHigherThan(seq, pkt.latestSequenceNumber)
  PROVE  \/ pkt'.latestSequenceNumber = seq
         \/ TooManyMissing(pkt, seq)
         \/ DeltaTooLarge((t - Rounded(pkt.latestTimestamp)) * 4)
  <1> DEFINE mtu == network.mtuSize
             q == Regenerated(pkt)
             a == AddPacket(q, seq, t, mtu)
  <1>1. network \in Networks /\ mtu \in Mtus BY NetworksAre DEF FeedbackInv
  <1>2. Sent(pkt) BY <1>1, FeedbackSent
  <1>3. /\ Based(q, mtu) /\ Recorded(q, <<>>)
        /\ q.latestSequenceNumber = pkt.latestSequenceNumber
        /\ q.latestTimestamp = Rounded(pkt.latestTimestamp)
    BY <1>2 DEF Sent
  <1>4. pkt' = a.pkt BY DEF HandleMaxSizeExceeded
  <1>5. q.deltas = <<>>
    <2>1. Len(q.deltas) = 0 BY <1>3, EmptySeq DEF Recorded
    <2>2. q.deltas \in Seq(Deltas) BY <1>3 DEF Based, Filed
    <2> QED BY <2>1, <2>2, EmptySeq
  <1> HIDE DEF q, mtu
  <1> DEFINE none == <<>>
             higher == IsSeqHigherThan(seq, q.latestSequenceNumber)
  <1>6. Recorded(q, none) /\ higher BY <1>3
  <1> HIDE DEF none
  <1>7. /\ a.result \in {"SUCCESS", "FATAL", "MAX_SIZE_EXCEEDED"}
        /\ a.result = "SUCCESS" => (higher => a.pkt.latestSequenceNumber = seq)
        /\ a.result = "MAX_SIZE_EXCEEDED" => q.deltas # <<>>
        /\ a.result = "FATAL" => TooManyMissing(q, seq) \/ DeltaTooLarge(DeltaTo(q, t))
    BY <1>1, <1>3, <1>6, AddPacketIs
  <1> HIDE DEF a
  <1>8. CASE a.result = "SUCCESS" BY <1>4, <1>6, <1>7, <1>8
  <1>9. CASE a.result = "FATAL"
    <2>1. TooManyMissing(q, seq) <=> TooManyMissing(pkt, seq) BY <1>3 DEF TooManyMissing
    <2>2. DeltaTo(q, t) = (t - Rounded(pkt.latestTimestamp)) * 4 BY <1>3 DEF DeltaTo
    <2> QED BY <1>7, <1>9, <2>1, <2>2
  <1> QED BY <1>5, <1>7, <1>8, <1>9

\* A packet newer than all before is entered in a feedback, unless the format cannot
\* carry its gap or its delay, which after a feedback sent for want of room is
\* counted from the rounded time of the new base.
THEOREM ArrivalsAreEntered == Spec => EnteredUnlessRefused
  <1> DEFINE EnteredOrNot ==
        pkt.latestTimestamp # 0 /\ IsSeqHigherThan(last', pkt.latestSequenceNumber) =>
          \/ pkt'.latestSequenceNumber = last'
          \/ TooManyMissing(pkt, last') \/ DeltaTooLarge(DeltaTo(pkt, now'))
          \/ out' # out /\ DeltaTooLarge((now' - Rounded(pkt.latestTimestamp)) * 4)
  <1>1. FeedbackInv /\ [Next]_vars => [EnteredOrNot]_vars
    <2> SUFFICES ASSUME FeedbackInv, Receive, pkt.latestTimestamp # 0,
                        IsSeqHigherThan(last', pkt.latestSequenceNumber)
                 PROVE  EnteredOrNot
      BY DEF Next
    <2> DEFINE a == Entering(last', now')
               higher == IsSeqHigherThan(last', pkt.latestSequenceNumber)
               owed == IF higher THEN Append(log, Arrival(last', now')) ELSE log
    <2>1. /\ last' \in Numbers /\ now' \in Int /\ now' >= Epoch
          /\ RtpHandler(last', now')
      BY ReceiveIs
    <2>2. network \in Networks BY DEF FeedbackInv
    <2>3. Based(pkt, network.mtuSize) /\ Recorded(pkt, log)
      BY NewPacketIs DEF FeedbackInv
    <2>4. \/ /\ HandleSuccess(last', now', a.pkt) \/ HandleFull(last', now', a.pkt)
             /\ Based(a.pkt, network.mtuSize) /\ Recorded(a.pkt, owed)
             /\ higher => a.pkt.latestSequenceNumber = last'
          \/ HandleMaxSizeExceeded(last', now') /\ pkt.deltas # <<>>
          \/ TooManyMissing(pkt, last') \/ DeltaTooLarge(DeltaTo(pkt, now'))
      BY <2>1, <2>2, <2>3, Handled
    <2> HIDE DEF a, owed
    <2>5. CASE HandleSuccess(last', now', a.pkt) /\ a.pkt.latestSequenceNumber = last'
      BY <2>5 DEF HandleSuccess
    <2>6. CASE /\ HandleFull(last', now', a.pkt) /\ a.pkt.latestSequenceNumber = last'
               /\ Based(a.pkt, network.mtuSize) /\ Recorded(a.pkt, owed)
      <3>1. pkt' = Regenerated(a.pkt) BY <2>6 DEF HandleFull
      <3>2. CASE a.pkt.deltas = <<>> BY <2>6, <3>1, <3>2 DEF Regenerated, IsSerializable
      <3>3. CASE a.pkt.deltas # <<>>
        <4>1. Sent(a.pkt) BY <2>2, <2>6, <3>3, FeedbackSent
        <4> QED BY <2>6, <3>1, <4>1 DEF Sent
      <3> QED BY <3>2, <3>3
    <2>7. CASE HandleMaxSizeExceeded(last', now') /\ pkt.deltas # <<>>
      <3>1. \/ pkt'.latestSequenceNumber = last'
            \/ TooManyMissing(pkt, last')
            \/ DeltaTooLarge((now' - Rounded(pkt.latestTimestamp)) * 4)
        BY <2>1, <2>3, <2>7, AddedOrTooLate
      <3>2. out' = Serialize(pkt) /\ out'.feedbackPacketCount = count
        BY <2>1, <2>3, <2>7, MaxSizeKeeps
      <3>3. out' # out BY <3>2, SerializedIsNew
      <3> QED BY <3>1, <3>3
    <2>8. CASE TooManyMissing(pkt, last') \/ DeltaTooLarge(DeltaTo(pkt, now')) BY <2>8
    <2> QED BY <2>4, <2>5, <2>6, <2>7, <2>8
  <1> QED BY <1>1, FeedbackInvariant, PTL DEF Spec, EnteredUnlessRefused
================================================================================
