------------------------ MODULE TransportFeedbackProofs ------------------------
(* Proofs about TransportFeedback, for all values of its constants. *)
EXTENDS TransportFeedback, Induction

(***************************************************************************)
(* The unwrapper                                                           *)
(***************************************************************************)
LEMMA HalfIsHalf ==
  /\ Half \in Nat \ {0} /\ Half > 1
  /\ SeqSpace = 2 * Half /\ SeqSpace \in Nat \ {0}
  BY HistoryConstants DEF Half

\* Division, for a divisor that is not a numeral.
LEMMA Divided ==
  ASSUME NEW v \in Int
  PROVE  \E k \in Int : v = (k * SeqSpace) + (v % SeqSpace) /\ v % SeqSpace \in 0 .. SeqSpace - 1
  <1>1. SeqSpace \in Nat \ {0} BY HalfIsHalf
  <1>2. v % SeqSpace \in 0 .. SeqSpace - 1 /\ v = ((v \div SeqSpace) * SeqSpace) + (v % SeqSpace)
    BY <1>1
  <1>3. v \div SeqSpace \in Int BY <1>1
  <1> QED BY <1>2, <1>3

\* The remainder of the difference of two numbers on the wire.
LEMMA RemainderOfDelta ==
  ASSUME NEW d \in -SeqSpace + 1 .. SeqSpace - 1
  PROVE  d % SeqSpace = IF d < 0 THEN d + SeqSpace ELSE d
  <1>1. SeqSpace \in Nat \ {0} BY HalfIsHalf
  <1> DEFINE r == IF d < 0 THEN d + SeqSpace ELSE d
  <1>2. r \in 0 .. SeqSpace - 1 BY <1>1
  <1>3. CASE d < 0
    <2>1. d = ((-1) * SeqSpace) + r BY <1>1, <1>3
    <2> QED BY <1>1, <1>2, <2>1
  <1>4. CASE ~(d < 0) BY <1>1, <1>2, <1>4
  <1> QED BY <1>3, <1>4

LEMMA UnwrappedNat ==
  ASSUME NEW g, g.lastUnwrapped \in {Unset} \cup Nat, NEW value \in 0 .. SeqSpace - 1
  PROVE  Unwrapped(g, value) \in Nat
  <1> DEFINE L == g.lastUnwrapped
             c == L % SeqSpace
  <1>1. CASE L = Unset BY <1>1 DEF Unwrapped
  <1>2. CASE L # Unset
    <2>1. L \in Nat /\ SeqSpace \in Nat \ {0} BY <1>2, HalfIsHalf
    <2>2. c \in 0 .. SeqSpace - 1 /\ c <= L
      <3>1. PICK k \in Int : L = (k * SeqSpace) + c /\ c \in 0 .. SeqSpace - 1
        <4>1. L \in Int BY <2>1
        <4> HIDE DEF L
        <4> QED BY <4>1, Divided
      <3>2. k >= 0
        <4>1. ASSUME k <= -1 PROVE FALSE
          <5>1. k * SeqSpace <= (-1) * SeqSpace /\ k * SeqSpace \in Int BY <2>1, <4>1
          <5> HIDE DEF c, L
          <5> QED BY <2>1, <3>1, <5>1
        <4> QED BY <4>1
      <3>3. k * SeqSpace >= 0 /\ k * SeqSpace \in Int BY <2>1, <3>2
      <3> HIDE DEF c, L
      <3> QED BY <2>1, <3>1, <3>3
    <2>3. Unwrapped(g, value) \in
            {L + (IF value - c < 0 THEN (value - c) + SeqSpace ELSE value - c),
             L + (value - c)}
          \/ (Unwrapped(g, value) = L + (value - c) - SeqSpace /\ Unwrapped(g, value) >= 0)
      BY <1>2, <2>1 DEF Unwrapped
    <2> HIDE DEF c, L
    <2> QED BY <2>1, <2>2, <2>3
  <1> QED BY <1>1, <1>2

\* A number less than half the sequence space from the one before is found again.
LEMMA UnwrappedNear ==
  ASSUME NEW g, g.lastUnwrapped \in Nat, NEW v \in Nat,
         v - g.lastUnwrapped < Half, g.lastUnwrapped - v < Half
  PROVE  Unwrapped(g, v % SeqSpace) = v
  <1> DEFINE L == g.lastUnwrapped
             c == L % SeqSpace
             d == v % SeqSpace
             M == SeqSpace
  <1>1. L \in Nat /\ M = 2 * Half /\ Half \in Nat \ {0} BY HalfIsHalf
  <1>2. PICK k \in Int : L = (k * M) + c /\ c \in 0 .. M - 1 BY Divided
  <1>3. PICK j \in Int : v = (j * M) + d /\ d \in 0 .. M - 1 BY Divided
  <1>4. L # Unset BY <1>1 DEF Unset
  <1>5. (d - c) % M = IF d - c < 0 THEN (d - c) + M ELSE d - c
    <2>1. d - c \in -M + 1 .. M - 1 BY <1>1, <1>2, <1>3
    <2> HIDE DEF c, d
    <2> QED BY <2>1, RemainderOfDelta
  <1>6. Unwrapped(g, d) =
          IF IsNewer(d, c) THEN L + (IF d - c < 0 THEN (d - c) + M ELSE d - c)
          ELSE IF d - c > 0 /\ L + (d - c) - M >= 0 THEN L + (d - c) - M
          ELSE L + (d - c)
    BY <1>4 DEF Unwrapped
  <1>7. IsNewer(d, c) <=> IF d - c = Half THEN d > c ELSE d # c /\ (d - c) % M < Half
    BY DEF IsNewer
  <1>8. v - L < Half /\ L - v < Half OBVIOUS
  <1> HIDE DEF c, d, L, M
  <1>9. v - L = ((j - k) * M) + (d - c) BY <1>1, <1>2, <1>3
  <1>10. j - k \in {-1, 0, 1}
    <2> DEFINE e == j - k
    <2>1. e \in Int OBVIOUS
    <2>2. v - L = (e * M) + (d - c) BY <1>9
    <2> HIDE DEF e
    <2>3. ASSUME e >= 2 PROVE FALSE
      <3>1. e * M >= 2 * M BY <1>1, <2>1, <2>3
      <3>2. e * M \in Int BY <1>1, <2>1
      <3> QED BY <1>1, <1>2, <1>3, <1>8, <2>2, <3>1, <3>2
    <2>4. ASSUME e <= -2 PROVE FALSE
      <3>1. e * M <= (-2) * M BY <1>1, <2>1, <2>4
      <3>2. e * M \in Int BY <1>1, <2>1
      <3> QED BY <1>1, <1>2, <1>3, <1>8, <2>2, <3>1, <3>2
    <2>5. e \in {-1, 0, 1} BY <2>1, <2>3, <2>4
    <2> QED BY <2>5 DEF e
  <1>11. CASE j - k = 0
    <2>1. v - L = d - c BY <1>1, <1>2, <1>3, <1>9, <1>11
    <2> QED BY <1>1, <1>2, <1>3, <1>5, <1>6, <1>7, <1>8, <2>1 DEF d
  <1>12. CASE j - k = 1
    <2>1. v - L = M + (d - c) BY <1>1, <1>2, <1>3, <1>9, <1>12
    <2> QED BY <1>1, <1>2, <1>3, <1>5, <1>6, <1>7, <1>8, <2>1 DEF d
  <1>13. CASE j - k = -1
    <2>1. v - L = (d - c) - M BY <1>1, <1>2, <1>3, <1>9, <1>13
    <2> QED BY <1>1, <1>2, <1>3, <1>5, <1>6, <1>7, <1>8, <2>1 DEF d
  <1> QED BY <1>10, <1>11, <1>12, <1>13

\* The first number is taken as it comes.
LEMMA UnwrappedFirst ==
  ASSUME NEW g, g.lastUnwrapped = Unset, NEW v \in 0 .. SeqSpace - 1
  PROVE  Unwrapped(g, v % SeqSpace) = v
  <1>1. v % SeqSpace = v BY HalfIsHalf
  <1> QED BY <1>1 DEF Unwrapped

(***************************************************************************)
(* Histories                                                               *)
(***************************************************************************)
Entries == [packet : Nat, size : PacketSizes, sent : {kNoSendTime} \cup Nat, created : Nat]

History(f, b, a, u) ==
  [history |-> f, inFlight |-> b, lastAck |-> a, lastUnwrapped |-> u]

IsHistory(g) ==
  /\ g = History(g.history, g.inFlight, g.lastAck, g.lastUnwrapped)
  /\ g.history \in [DOMAIN g.history -> Entries]
  /\ DOMAIN g.history \subseteq Nat /\ IsFiniteSet(DOMAIN g.history)
  /\ g.inFlight \in Int
  /\ g.lastAck \in {Unset} \cup Nat /\ g.lastUnwrapped \in {Unset} \cup Nat

Counted(g) == {l \in DOMAIN g.history : Counts(g, l)}

\* The running total is the sum over the packets in flight.
Exact(g) == g.inFlight = SumFunctionOnSet(Sizes(g), Counted(g))

LEMMA HistoryFields ==
  ASSUME NEW f, NEW b, NEW a, NEW u
  PROVE  /\ History(f, b, a, u).history = f
         /\ History(f, b, a, u).inFlight = b
         /\ History(f, b, a, u).lastAck = a
         /\ History(f, b, a, u).lastUnwrapped = u
  BY DEF History

LEMMA MakesHistory ==
  ASSUME NEW f, f \in [DOMAIN f -> Entries], DOMAIN f \subseteq Nat, IsFiniteSet(DOMAIN f),
         NEW b, b \in Int,
         NEW a, a \in {Unset} \cup Nat, NEW u, u \in {Unset} \cup Nat
  PROVE  IsHistory(History(f, b, a, u))
  <1> DEFINE g == History(f, b, a, u)
  <1>1. g.history = f /\ g.inFlight = b /\ g.lastAck = a /\ g.lastUnwrapped = u
    BY HistoryFields
  <1>2. g = History(g.history, g.inFlight, g.lastAck, g.lastUnwrapped) BY <1>1
  <1> HIDE DEF g
  <1>3. IsHistory(g) BY <1>1, <1>2 DEF IsHistory
  <1> QED BY <1>3 DEF g

\* What the sums over a history's entries need.
LEMMA CountedFinite ==
  ASSUME NEW g, IsHistory(g), NEW S, S \subseteq DOMAIN g.history
  PROVE  /\ IsFiniteSet(S)
         /\ \A l \in S : /\ Sizes(g)[l] = g.history[l].size
                         /\ Sizes(g)[l] \in Nat
                         /\ Sizes(g)[l] \in Int
  <1>1. IsFiniteSet(S) BY FS_Subset DEF IsHistory
  <1>2. ASSUME NEW l \in S
        PROVE  Sizes(g)[l] = g.history[l].size /\ Sizes(g)[l] \in Nat
    <2>1. Sizes(g)[l] = g.history[l].size BY DEF Sizes
    <2>2. g.history[l] \in Entries BY DEF IsHistory
    <2>3. g.history[l].size \in PacketSizes BY <2>2 DEF Entries
    <2> QED BY <2>1, <2>3, FeedbackConstants
  <1> QED BY <1>1, <1>2

LEMMA EmptyIsHistory ==
  IsHistory(EmptyHistory) /\ Exact(EmptyHistory) /\ DOMAIN EmptyHistory.history = {}
  <1>1. EmptyHistory = History(<<>>, 0, Unset, Unset) BY DEF EmptyHistory, History
  <1>2. <<>> \in [{} -> Entries] /\ DOMAIN <<>> = {} OBVIOUS
  <1>3. IsFiniteSet({}) BY FS_EmptySet
  <1>4. IsHistory(EmptyHistory)
    <2> DEFINE f == <<>>
    <2>1. f \in [DOMAIN f -> Entries] /\ DOMAIN f \subseteq Nat /\ IsFiniteSet(DOMAIN f)
      BY <1>2, <1>3
    <2>2. 0 \in Int /\ Unset \in {Unset} \cup Nat OBVIOUS
    <2> HIDE DEF f
    <2>3. IsHistory(History(f, 0, Unset, Unset)) BY <2>1, <2>2, MakesHistory
    <2> QED BY <1>1, <2>3 DEF f
  <1>5. EmptyHistory.history = <<>> /\ EmptyHistory.inFlight = 0 BY <1>1, HistoryFields
  <1>6. Counted(EmptyHistory) = {} BY <1>2, <1>5 DEF Counted
  <1> QED BY <1>2, <1>4, <1>5, <1>6, SumEmpty DEF Exact

LEMMA InFlightNat ==
  ASSUME NEW g, IsHistory(g), Exact(g)
  PROVE  g.inFlight \in Nat
  <1>1. Counted(g) \subseteq DOMAIN g.history BY DEF Counted
  <1>2. IsFiniteSet(Counted(g)) /\ \A l \in Counted(g) : Sizes(g)[l] \in Nat
    BY <1>1, CountedFinite
  <1> QED BY <1>2, SumNat DEF Exact

\* A history of as many bytes as another, and as many counted, has the same total.
LEMMA SameTotal ==
  ASSUME NEW g, IsHistory(g), Exact(g), NEW e, e.inFlight = g.inFlight,
         Counted(e) = Counted(g),
         \A l \in Counted(g) : l \in DOMAIN e.history /\ e.history[l].size = g.history[l].size
  PROVE  Exact(e)
  <1>1. Counted(g) \subseteq DOMAIN g.history BY DEF Counted
  <1>2. IsFiniteSet(Counted(g)) /\ \A l \in Counted(g) : Sizes(g)[l] \in Int
    BY <1>1, CountedFinite
  <1>3. \A l \in Counted(g) : Sizes(g)[l] = Sizes(e)[l] BY <1>1 DEF Sizes
  <1>4. SumFunctionOnSet(Sizes(g), Counted(g)) = SumFunctionOnSet(Sizes(e), Counted(g))
    BY <1>2, <1>3, SumSame
  <1> QED BY <1>4 DEF Exact

(***************************************************************************)
(* The operations on a history                                             *)
(***************************************************************************)
LEMMA ForgetIs ==
  ASSUME NEW g, IsHistory(g), NEW S
  PROVE  /\ IsHistory(Forget(g, S))
         /\ DOMAIN Forget(g, S).history = DOMAIN g.history \ S
         /\ \A l \in DOMAIN g.history \ S : Forget(g, S).history[l] = g.history[l]
         /\ Forget(g, S).history = Restrict(g.history, DOMAIN g.history \ S)
         /\ Forget(g, S).inFlight = g.inFlight
         /\ Forget(g, S).lastAck = g.lastAck
         /\ Forget(g, S).lastUnwrapped = g.lastUnwrapped
  <1> DEFINE D == DOMAIN g.history \ S
             r == Restrict(g.history, D)
  <1>1. g = History(g.history, g.inFlight, g.lastAck, g.lastUnwrapped) BY DEF IsHistory
  <1>2. Forget(g, S) = History(r, g.inFlight, g.lastAck, g.lastUnwrapped)
    BY <1>1 DEF Forget, History
  <1>3. D \subseteq Nat /\ IsFiniteSet(D) BY FS_Subset DEF IsHistory
  <1>4. r \in [D -> Entries] /\ \A l \in D : r[l] = g.history[l] BY DEF Restrict, IsHistory
  <1>5. DOMAIN r = D BY <1>4
  <1> HIDE DEF r, D
  <1>6. IsHistory(Forget(g, S))
    <2>1. r \in [DOMAIN r -> Entries] /\ DOMAIN r \subseteq Nat /\ IsFiniteSet(DOMAIN r)
      BY <1>3, <1>4, <1>5
    <2>2. /\ g.inFlight \in Int
          /\ g.lastAck \in {Unset} \cup Nat /\ g.lastUnwrapped \in {Unset} \cup Nat
      BY DEF IsHistory
    <2> QED BY <1>2, <2>1, <2>2, MakesHistory
  <1>7. Forget(g, S).history = r BY <1>2, HistoryFields
  <1>8. /\ Forget(g, S).inFlight = g.inFlight
        /\ Forget(g, S).lastAck = g.lastAck
        /\ Forget(g, S).lastUnwrapped = g.lastUnwrapped
    BY <1>2, HistoryFields
  <1> QED BY <1>4, <1>5, <1>6, <1>7, <1>8 DEF D, r

\* What is not in flight may go.
LEMMA ForgetExact ==
  ASSUME NEW g, IsHistory(g), Exact(g), NEW S, S \cap Counted(g) = {}
  PROVE  Exact(Forget(g, S))
  <1> DEFINE e == Forget(g, S)
  <1>1. /\ DOMAIN e.history = DOMAIN g.history \ S
        /\ \A l \in DOMAIN g.history \ S : e.history[l] = g.history[l]
        /\ e.inFlight = g.inFlight
        /\ e.lastAck = g.lastAck
    BY ForgetIs
  <1> HIDE DEF e
  <1>2. Counted(e) = Counted(g) BY <1>1 DEF Counted, Counts
  <1>3. \A l \in Counted(g) : l \in DOMAIN e.history /\ e.history[l].size = g.history[l].size
    BY <1>1 DEF Counted
  <1>4. Exact(e) BY <1>1, <1>2, <1>3, SameTotal
  <1> QED BY <1>4 DEF e

LEMMA RemoveBytesIs ==
  ASSUME NEW g, IsHistory(g), NEW S
  PROVE  RemoveBytes(g, S) =
           History(g.history,
                   g.inFlight - SumFunctionOnSet(Sizes(g), {l \in S : Counts(g, l)}),
                   g.lastAck, g.lastUnwrapped)
  <1>1. g = History(g.history, g.inFlight, g.lastAck, g.lastUnwrapped) BY DEF IsHistory
  <1> DEFINE s == SumFunctionOnSet(Sizes(g), {l \in S : Counts(g, l)})
  <1>2. RemoveBytes(g, S) = [g EXCEPT !.inFlight = @ - s] BY DEF RemoveBytes
  <1> HIDE DEF s
  <1>3. RemoveBytes(g, S) = History(g.history, g.inFlight - s, g.lastAck, g.lastUnwrapped)
    BY <1>1, <1>2 DEF History
  <1> QED BY <1>3 DEF s

\* The bytes taken off leave the sum over the packets that stay in flight.
LEMMA BytesRemoved ==
  ASSUME NEW g, IsHistory(g), Exact(g), NEW S, S \subseteq DOMAIN g.history
  PROVE  /\ IsHistory(RemoveBytes(g, S))
         /\ RemoveBytes(g, S).history = g.history
         /\ RemoveBytes(g, S).lastAck = g.lastAck
         /\ RemoveBytes(g, S).lastUnwrapped = g.lastUnwrapped
         /\ RemoveBytes(g, S).inFlight = SumFunctionOnSet(Sizes(g), Counted(g) \ S)
  <1> DEFINE P == {l \in S : Counts(g, l)}
             C == Counted(g)
  <1>1. P \in SUBSET C /\ C \ P = C \ S /\ C \subseteq DOMAIN g.history BY DEF Counted
  <1>2. RemoveBytes(g, S) =
          History(g.history, g.inFlight - SumFunctionOnSet(Sizes(g), P),
                  g.lastAck, g.lastUnwrapped)
    BY RemoveBytesIs
  <1> HIDE DEF P, C
  <1>3. IsFiniteSet(C) /\ \A l \in C : Sizes(g)[l] \in Int BY <1>1, CountedFinite
  <1>4. SumFunctionOnSet(Sizes(g), C)
          = SumFunctionOnSet(Sizes(g), P) + SumFunctionOnSet(Sizes(g), C \ P)
    BY <1>1, <1>3, SumSplit
  <1>5. IsFiniteSet(P) /\ IsFiniteSet(C \ P) /\ \A l \in P : Sizes(g)[l] \in Int
    BY <1>1, <1>3, FS_Subset
  <1>6. /\ SumFunctionOnSet(Sizes(g), P) \in Int
        /\ SumFunctionOnSet(Sizes(g), C \ P) \in Int
    BY <1>3, <1>5, SumTyped
  <1>7. g.inFlight - SumFunctionOnSet(Sizes(g), P) = SumFunctionOnSet(Sizes(g), C \ S)
    <2> DEFINE p == SumFunctionOnSet(Sizes(g), P)
               q == SumFunctionOnSet(Sizes(g), C \ P)
    <2>1. g.inFlight = p + q BY <1>4 DEF Exact, C
    <2>2. p \in Int /\ q \in Int BY <1>6
    <2>3. q = SumFunctionOnSet(Sizes(g), C \ S) BY <1>1
    <2> HIDE DEF p, q
    <2>4. g.inFlight - p = q BY <2>1, <2>2
    <2> QED BY <2>3, <2>4 DEF p
  <1>8. IsHistory(RemoveBytes(g, S))
    <2> DEFINE b == g.inFlight - SumFunctionOnSet(Sizes(g), P)
    <2>1. b \in Int BY <1>1, <1>6, <1>7
    <2>2. RemoveBytes(g, S) = History(g.history, b, g.lastAck, g.lastUnwrapped) BY <1>2
    <2> HIDE DEF b
    <2>3. /\ g.history \in [DOMAIN g.history -> Entries]
          /\ DOMAIN g.history \subseteq Nat /\ IsFiniteSet(DOMAIN g.history)
          /\ g.lastAck \in {Unset} \cup Nat /\ g.lastUnwrapped \in {Unset} \cup Nat
      BY DEF IsHistory
    <2> QED BY <2>1, <2>2, <2>3, MakesHistory
  <1> QED BY <1>2, <1>7, <1>8, HistoryFields DEF C

\* RemoveOld: what is left is the history from its first young entry on.
OldOnes(g, t) ==
  {l \in DOMAIN g.history :
     \A y \in {k \in DOMAIN g.history : t - g.history[k].created <= AgeLimit} : l < y}

LEMMA RemoveOldIs ==
  ASSUME NEW g, IsHistory(g), Exact(g), NEW t, t \in Nat
  PROVE  /\ IsHistory(RemoveOld(g, t)) /\ Exact(RemoveOld(g, t))
         /\ DOMAIN RemoveOld(g, t).history = DOMAIN g.history \ OldOnes(g, t)
         /\ \A l \in DOMAIN g.history \ OldOnes(g, t) :
              RemoveOld(g, t).history[l] = g.history[l]
         /\ RemoveOld(g, t).lastAck = g.lastAck
         /\ RemoveOld(g, t).lastUnwrapped = g.lastUnwrapped
  <1> DEFINE O == OldOnes(g, t)
             r == RemoveBytes(g, O)
             e == Forget(r, O)
  <1>1. RemoveOld(g, t) = e BY DEF RemoveOld, OldOnes
  <1>2. O \subseteq DOMAIN g.history BY DEF OldOnes
  <1> HIDE DEF O
  <1>3. /\ IsHistory(r) /\ r.history = g.history
        /\ r.lastAck = g.lastAck /\ r.lastUnwrapped = g.lastUnwrapped
        /\ r.inFlight = SumFunctionOnSet(Sizes(g), Counted(g) \ O)
    BY <1>2, BytesRemoved
  <1> HIDE DEF r
  <1>4. /\ IsHistory(e) /\ DOMAIN e.history = DOMAIN r.history \ O
        /\ \A l \in DOMAIN r.history \ O : e.history[l] = r.history[l]
        /\ e.lastAck = r.lastAck /\ e.lastUnwrapped = r.lastUnwrapped
        /\ e.inFlight = r.inFlight
    <2>1. IsHistory(e) BY <1>3, ForgetIs
    <2>2. DOMAIN e.history = DOMAIN r.history \ O BY <1>3, ForgetIs
    <2>3. \A l \in DOMAIN r.history \ O : e.history[l] = r.history[l] BY <1>3, ForgetIs
    <2>4. /\ e.lastAck = r.lastAck /\ e.lastUnwrapped = r.lastUnwrapped
          /\ e.inFlight = r.inFlight
      BY <1>3, ForgetIs
    <2> HIDE DEF e
    <2> QED BY <2>1, <2>2, <2>3, <2>4
  <1> HIDE DEF e
  <1>5. Counted(e) = Counted(g) \ O BY <1>3, <1>4 DEF Counted, Counts
  <1>6. Exact(e)
    <2> DEFINE C == Counted(g) \ O
    <2>1. C \subseteq DOMAIN g.history BY DEF Counted
    <2>2. \A l \in C : Sizes(g)[l] = Sizes(e)[l] BY <1>3, <1>4 DEF Sizes, Counted
    <2>3. Counted(e) = C /\ e.inFlight = SumFunctionOnSet(Sizes(g), C)
      BY <1>3, <1>4, <1>5
    <2> HIDE DEF C
    <2>4. IsFiniteSet(C) /\ \A l \in C : Sizes(g)[l] \in Int BY <2>1, CountedFinite
    <2>5. SumFunctionOnSet(Sizes(g), C) = SumFunctionOnSet(Sizes(e), C)
      BY <2>2, <2>4, SumSame
    <2> QED BY <2>3, <2>5 DEF Exact
  <1> QED BY <1>1, <1>3, <1>4, <1>6 DEF O

LEMMA UpdateAckedIs ==
  ASSUME NEW g, IsHistory(g), Exact(g), NEW acked, acked \in Nat
  PROVE  LET e == UpdateAckedSeqNum(g, acked) IN
         /\ IsHistory(e) /\ Exact(e)
         /\ e.history = g.history
         /\ e.lastAck = IF g.lastAck >= acked THEN g.lastAck ELSE acked
         /\ e.lastUnwrapped = g.lastUnwrapped
  <1>1. CASE g.lastAck >= acked BY <1>1 DEF UpdateAckedSeqNum
  <1>2. CASE ~(g.lastAck >= acked)
    <2> DEFINE S == {l \in DOMAIN g.history : g.lastAck <= l /\ l <= acked}
               r == RemoveBytes(g, S)
               e == History(r.history, r.inFlight, acked, r.lastUnwrapped)
    <2>1. S \subseteq DOMAIN g.history OBVIOUS
    <2>2. UpdateAckedSeqNum(g, acked) = [r EXCEPT !.lastAck = acked]
      BY <1>2 DEF UpdateAckedSeqNum
    <2> HIDE DEF S
    <2>3. /\ IsHistory(r) /\ r.history = g.history
          /\ r.lastAck = g.lastAck /\ r.lastUnwrapped = g.lastUnwrapped
          /\ r.inFlight = SumFunctionOnSet(Sizes(g), Counted(g) \ S)
      BY <2>1, BytesRemoved
    <2> HIDE DEF r
    <2>4. [r EXCEPT !.lastAck = acked] = e BY <2>3 DEF IsHistory, History
    <2>5. /\ e.history = g.history /\ e.lastAck = acked
          /\ e.lastUnwrapped = g.lastUnwrapped
          /\ e.inFlight = SumFunctionOnSet(Sizes(g), Counted(g) \ S)
      BY <2>3, HistoryFields
    <2>6. IsHistory(e)
      <3>1. /\ r.history \in [DOMAIN r.history -> Entries]
            /\ DOMAIN r.history \subseteq Nat /\ IsFiniteSet(DOMAIN r.history)
            /\ r.inFlight \in Int /\ r.lastUnwrapped \in {Unset} \cup Nat
        BY <2>3 DEF IsHistory
      <3>2. acked \in {Unset} \cup Nat OBVIOUS
      <3> QED BY <3>1, <3>2, MakesHistory
    <2> HIDE DEF e
    <2>7. Counted(e) = Counted(g) \ S
      <3>1. \A l \in DOMAIN g.history : l \in Nat BY DEF IsHistory
      <3>2. g.lastAck \in {-1} \cup Nat BY DEF IsHistory, Unset
      <3> QED BY <1>2, <2>5, <3>1, <3>2 DEF Counted, Counts, S
    <2>8. Sizes(e) = Sizes(g) BY <2>5 DEF Sizes
    <2>9. Exact(e) BY <2>5, <2>7, <2>8 DEF Exact
    <2> QED BY <1>2, <2>2, <2>4, <2>5, <2>6, <2>9
  <1> QED BY <1>1, <1>2

LEMMA GetFeedbackIs ==
  ASSUME NEW g, IsHistory(g), Exact(g), NEW seq, seq \in 0 .. SeqSpace - 1,
         NEW remove, remove \in BOOLEAN
  PROVE  LET e == GetFeedback(g, seq, remove)
             long == Unwrapped(g, seq)
             D == IF remove THEN DOMAIN g.history \ {long} ELSE DOMAIN g.history
         IN /\ IsHistory(e) /\ Exact(e)
            /\ e.history = Restrict(g.history, D)
            /\ e.lastAck = IF g.lastAck >= long THEN g.lastAck ELSE long
            /\ e.lastUnwrapped = long
  <1> DEFINE long == Unwrapped(g, seq)
             D == IF remove THEN DOMAIN g.history \ {long} ELSE DOMAIN g.history
             u == UpdateAckedSeqNum(g, long)
             c == History(u.history, u.inFlight, u.lastAck, long)
             e == GetFeedback(g, seq, remove)
  <1>1. long \in Nat BY UnwrappedNat DEF IsHistory
  <1>2. e = IF remove THEN Forget([u EXCEPT !.lastUnwrapped = long], {long})
            ELSE [u EXCEPT !.lastUnwrapped = long]
    BY DEF GetFeedback
  <1> HIDE DEF long
  <1>3. /\ IsHistory(u) /\ Exact(u) /\ u.history = g.history
        /\ u.lastAck = IF g.lastAck >= long THEN g.lastAck ELSE long
    BY <1>1, UpdateAckedIs
  <1> HIDE DEF u
  <1>4. [u EXCEPT !.lastUnwrapped = long] = c BY <1>3 DEF IsHistory, History
  <1>5. c.history = u.history /\ c.inFlight = u.inFlight /\ c.lastAck = u.lastAck
        /\ c.lastUnwrapped = long
    BY HistoryFields
  <1>6. IsHistory(c)
    <2>1. /\ u.history \in [DOMAIN u.history -> Entries]
          /\ DOMAIN u.history \subseteq Nat /\ IsFiniteSet(DOMAIN u.history)
          /\ u.inFlight \in Int /\ u.lastAck \in {Unset} \cup Nat
      BY <1>3 DEF IsHistory
    <2>2. long \in {Unset} \cup Nat BY <1>1
    <2> QED BY <2>1, <2>2, MakesHistory
  <1> HIDE DEF c
  <1>7. Exact(c)
    <2>1. Counted(c) = Counted(u) BY <1>5 DEF Counted, Counts
    <2>2. \A l \in Counted(u) : l \in DOMAIN c.history /\ c.history[l].size = u.history[l].size
      BY <1>5 DEF Counted
    <2> QED BY <1>3, <1>5, <2>1, <2>2, SameTotal
  <1>8. CASE ~remove
    <2>1. e = c BY <1>2, <1>4, <1>8
    <2>2. D = DOMAIN g.history BY <1>8
    <2>3. Restrict(g.history, DOMAIN g.history) = g.history BY DEF Restrict, IsHistory
    <2> HIDE DEF e, D
    <2>4. e.history = Restrict(g.history, D) BY <1>3, <1>5, <2>1, <2>2, <2>3
    <2> QED BY <1>3, <1>5, <1>6, <1>7, <2>1, <2>4 DEF e, D, long
  <1>9. CASE remove
    <2>1. e = Forget(c, {long}) BY <1>2, <1>4, <1>9
    <2>2. D = DOMAIN c.history \ {long} BY <1>3, <1>5, <1>9
    <2>3. {long} \cap Counted(c) = {}
      <3>1. u.lastAck >= long BY <1>1, <1>3 DEF IsHistory, Unset
      <3> QED BY <1>1, <1>3, <1>5, <3>1 DEF Counted, Counts, IsHistory, Unset
    <2> HIDE DEF e, D
    <2>4. Exact(e) BY <1>6, <1>7, <2>1, <2>3, ForgetExact
    <2>5. /\ IsHistory(e) /\ e.history = Restrict(c.history, D)
          /\ e.lastAck = c.lastAck /\ e.lastUnwrapped = c.lastUnwrapped
      <3>1. IsHistory(e) BY <1>6, <2>1, ForgetIs
      <3>2. e.history = Restrict(c.history, D)
        <4>1. Forget(c, {long}).history = Restrict(c.history, DOMAIN c.history \ {long})
          BY <1>6, ForgetIs
        <4> QED BY <2>1, <2>2, <4>1
      <3>3. e.lastAck = c.lastAck /\ e.lastUnwrapped = c.lastUnwrapped
        BY <1>6, <2>1, ForgetIs
      <3> QED BY <3>1, <3>2, <3>3
    <2>6. e.history = Restrict(g.history, D) BY <1>3, <1>5, <2>5
    <2> QED BY <1>3, <1>5, <2>4, <2>5, <2>6 DEF e, D, long
  <1> QED BY <1>8, <1>9

LEMMA AddNewPacketIs ==
  ASSUME NEW g, IsHistory(g), Exact(g), NEW seq, seq \in 0 .. SeqSpace - 1,
         NEW entry, entry \in Entries, entry.sent = kNoSendTime
  PROVE  LET e == AddNewPacket(g, seq, entry)
             long == Unwrapped(g, seq)
         IN /\ IsHistory(e) /\ Exact(e)
            /\ DOMAIN e.history = DOMAIN g.history \cup {long}
            /\ \A l \in DOMAIN g.history \cup {long} :
                 e.history[l] = IF l \in DOMAIN g.history THEN g.history[l] ELSE entry
            /\ e.lastAck = g.lastAck
            /\ e.lastUnwrapped = long
  <1> DEFINE long == Unwrapped(g, seq)
             D == DOMAIN g.history \cup {long}
             f == [l \in D |-> IF l \in DOMAIN g.history THEN g.history[l] ELSE entry]
             e == History(f, g.inFlight, g.lastAck, long)
  <1>1. long \in Nat BY UnwrappedNat DEF IsHistory
  <1>2. AddNewPacket(g, seq, entry) = e
    <2>1. g = History(g.history, g.inFlight, g.lastAck, g.lastUnwrapped) BY DEF IsHistory
    <2>2. AddNewPacket(g, seq, entry) = [g EXCEPT !.lastUnwrapped = long, !.history = f]
      BY DEF AddNewPacket
    <2> HIDE DEF f, long
    <2> QED BY <2>1, <2>2 DEF History
  <1>3. e.history = f /\ e.inFlight = g.inFlight /\ e.lastAck = g.lastAck
        /\ e.lastUnwrapped = long
    BY HistoryFields
  <1>4. DOMAIN f = D OBVIOUS
  <1>5. \A l \in D : f[l] = IF l \in DOMAIN g.history THEN g.history[l] ELSE entry OBVIOUS
  <1>6. f \in [D -> Entries]
    <2>1. \A l \in DOMAIN g.history : g.history[l] \in Entries BY DEF IsHistory
    <2> QED BY <2>1
  <1> HIDE DEF f, long
  <1>7. IsHistory(e)
    <2>1. D \subseteq Nat /\ IsFiniteSet(D) BY <1>1, FS_AddElement DEF IsHistory
    <2>2. f \in [DOMAIN f -> Entries] /\ DOMAIN f \subseteq Nat /\ IsFiniteSet(DOMAIN f)
      BY <1>4, <1>6, <2>1
    <2>3. /\ g.inFlight \in Int /\ g.lastAck \in {Unset} \cup Nat
          /\ long \in {Unset} \cup Nat
      BY <1>1 DEF IsHistory
    <2> QED BY <2>2, <2>3, MakesHistory
  <1> HIDE DEF e
  <1>8. Exact(e)
    <2>1. Counted(e) = Counted(g)
      <3>1. ~(entry.sent >= 0) BY DEF kNoSendTime
      <3> QED BY <1>3, <1>4, <1>5, <3>1 DEF Counted, Counts
    <2>2. \A l \in Counted(g) : l \in DOMAIN e.history /\ e.history[l].size = g.history[l].size
      BY <1>3, <1>4, <1>5 DEF Counted
    <2> QED BY <1>3, <2>1, <2>2, SameTotal
  <1> QED BY <1>2, <1>3, <1>4, <1>5, <1>7, <1>8 DEF long

\* The entry of a packet sent at time t.
Stamped(entry, t) == [entry EXCEPT !.sent = t]

LEMMA StampedIs ==
  ASSUME NEW entry, entry \in Entries, NEW t, t \in Nat
  PROVE  /\ Stamped(entry, t) \in Entries
         /\ Stamped(entry, t).packet = entry.packet
         /\ Stamped(entry, t).size = entry.size
         /\ Stamped(entry, t).created = entry.created
         /\ Stamped(entry, t).sent = t
  BY DEF Stamped, Entries

LEMMA OnSentPacketIs ==
  ASSUME NEW g, IsHistory(g), Exact(g), NEW seq, seq \in 0 .. SeqSpace - 1,
         NEW t, t \in Nat
  PROVE  LET e == OnSentPacket(g, seq, t)
             long == Unwrapped(g, seq)
         IN /\ IsHistory(e) /\ Exact(e)
            /\ DOMAIN e.history = DOMAIN g.history
            /\ \A l \in DOMAIN g.history :
                 e.history[l] = IF l = long THEN Stamped(g.history[l], t) ELSE g.history[l]
            /\ e.lastAck = g.lastAck
            /\ e.lastUnwrapped = long
  <1> DEFINE long == Unwrapped(g, seq)
             D == DOMAIN g.history
             f == [l \in D |-> IF l = long THEN Stamped(g.history[l], t) ELSE g.history[l]]
             e == OnSentPacket(g, seq, t)
             unwrapped == [g EXCEPT !.lastUnwrapped = long]
             stamped == [unwrapped EXCEPT !.history[long].sent = t]
             retransmit == g.history[long].sent >= 0
  <1>1. long \in Nat BY UnwrappedNat DEF IsHistory
  <1>2. g = History(g.history, g.inFlight, g.lastAck, g.lastUnwrapped) BY DEF IsHistory
  <1>3. e = IF long \notin D THEN unwrapped
            ELSE IF retransmit \/ ~Counts(stamped, long) THEN stamped
            ELSE [stamped EXCEPT !.inFlight = @ + g.history[long].size]
    BY DEF OnSentPacket
  <1>4. \A l \in D : g.history[l] \in Entries /\ Stamped(g.history[l], t) \in Entries
    BY StampedIs DEF IsHistory
  <1>5. f \in [D -> Entries] /\ DOMAIN f = D BY <1>4
  <1>6. \A l \in D : f[l] = IF l = long THEN Stamped(g.history[l], t) ELSE g.history[l]
    OBVIOUS
  <1> HIDE DEF long, e
  <1>7. unwrapped = History(g.history, g.inFlight, g.lastAck, long) BY <1>2 DEF History
  <1>8. ASSUME long \in D PROVE stamped = History(f, g.inFlight, g.lastAck, long)
    <2>1. stamped = [unwrapped EXCEPT !.history = [unwrapped.history EXCEPT ![long] =
                       [unwrapped.history[long] EXCEPT !.sent = t]]]
      OBVIOUS
    <2>2. unwrapped.history = g.history BY <1>7, HistoryFields
    <2>3. [g.history EXCEPT ![long] = Stamped(g.history[long], t)] = f
      BY <1>8 DEF IsHistory
    <2>4. stamped = [unwrapped EXCEPT !.history = f] BY <2>1, <2>2, <2>3 DEF Stamped
    <2> HIDE DEF unwrapped, stamped, f
    <2> QED BY <1>7, <2>4 DEF History
  <1> HIDE DEF f, unwrapped, stamped
  <1>9. CASE long \notin D
    <2>1. e = History(g.history, g.inFlight, g.lastAck, long) BY <1>3, <1>7, <1>9
    <2>2. /\ e.history = g.history /\ e.inFlight = g.inFlight /\ e.lastAck = g.lastAck
          /\ e.lastUnwrapped = long
      BY <2>1, HistoryFields
    <2>3. IsHistory(e)
      <3>1. /\ g.history \in [DOMAIN g.history -> Entries]
            /\ DOMAIN g.history \subseteq Nat /\ IsFiniteSet(DOMAIN g.history)
            /\ g.inFlight \in Int /\ g.lastAck \in {Unset} \cup Nat
            /\ long \in {Unset} \cup Nat
        BY <1>1 DEF IsHistory
      <3> QED BY <2>1, <3>1, MakesHistory
    <2>4. Exact(e)
      <3>1. Counted(e) = Counted(g) BY <2>2 DEF Counted, Counts
      <3>2. \A l \in Counted(g) :
              l \in DOMAIN e.history /\ e.history[l].size = g.history[l].size
        BY <2>2 DEF Counted
      <3> QED BY <2>2, <3>1, <3>2, SameTotal
    <2> QED BY <1>9, <2>2, <2>3, <2>4 DEF e, long
  <1>10. CASE long \in D
    <2> DEFINE size == g.history[long].size
               more == ~retransmit /\ Counts(stamped, long)
               b == IF more THEN g.inFlight + size ELSE g.inFlight
    <2>1. stamped = History(f, g.inFlight, g.lastAck, long) BY <1>8, <1>10
    <2>2. e = History(f, b, g.lastAck, long)
      <3>1. CASE more
        <4>1. e = [stamped EXCEPT !.inFlight = @ + size] BY <1>3, <1>10, <3>1
        <4> QED BY <2>1, <3>1, <4>1 DEF History
      <3>2. CASE ~more BY <1>3, <1>10, <2>1, <3>2
      <3> QED BY <3>1, <3>2
    <2>3. /\ e.history = f /\ e.inFlight = b /\ e.lastAck = g.lastAck
          /\ e.lastUnwrapped = long
      BY <2>2, HistoryFields
    <2>4. size \in Nat
      <3>1. size \in PacketSizes BY <1>4, <1>10 DEF Entries
      <3> QED BY <3>1, FeedbackConstants
    <2>5. IsHistory(e)
      <3>1. b \in Int BY <2>4 DEF IsHistory
      <3>2. /\ f \in [DOMAIN f -> Entries] /\ DOMAIN f \subseteq Nat
            /\ IsFiniteSet(DOMAIN f)
        BY <1>5 DEF IsHistory
      <3>3. g.lastAck \in {Unset} \cup Nat /\ long \in {Unset} \cup Nat
        BY <1>1 DEF IsHistory
      <3> HIDE DEF b
      <3> QED BY <2>2, <3>1, <3>2, <3>3, MakesHistory
    <2>6. \A l \in D : f[l].size = g.history[l].size BY <1>4, <1>6, StampedIs
    <2>7. f[long].sent >= 0 BY <1>4, <1>6, <1>10, StampedIs
    <2>8. Counts(stamped, long) <=> long > g.lastAck
      <3>1. stamped.history = f /\ stamped.lastAck = g.lastAck BY <2>1, HistoryFields
      <3> QED BY <2>7, <3>1 DEF Counts
    <2>9. Exact(e)
      <3>1. CASE ~more
        <4>1. Counted(e) = Counted(g)
          <5>1. \A l \in D : f[l].sent >= 0 /\ l > g.lastAck <=> Counts(g, l)
            BY <1>6, <2>7, <2>8, <3>1 DEF Counts
          <5> QED BY <1>5, <2>3, <5>1 DEF Counted, Counts
        <4>2. \A l \in Counted(g) :
                l \in DOMAIN e.history /\ e.history[l].size = g.history[l].size
          BY <1>5, <2>3, <2>6 DEF Counted
        <4>3. e.inFlight = g.inFlight BY <2>3, <3>1
        <4> QED BY <4>1, <4>2, <4>3, SameTotal
      <3>2. CASE more
        <4>1. Counted(e) = Counted(g) \cup {long} /\ long \notin Counted(g)
          <5>1. \A l \in D : f[l].sent >= 0 /\ l > g.lastAck <=> Counts(g, l) \/ l = long
            BY <1>6, <2>7, <2>8, <3>2 DEF Counts
          <5>2. ~Counts(g, long) BY <3>2 DEF Counts
          <5> QED BY <1>5, <1>10, <2>3, <5>1, <5>2 DEF Counted, Counts
        <4> DEFINE C == Counted(e)
        <4>2. C \subseteq DOMAIN e.history /\ long \in C /\ C \ {long} = Counted(g)
          BY <4>1 DEF Counted
        <4> HIDE DEF C
        <4>3. IsFiniteSet(C) /\ \A l \in C : Sizes(e)[l] \in Int
          BY <2>5, <4>2, CountedFinite
        <4>4. SumFunctionOnSet(Sizes(e), C)
                = Sizes(e)[long] + SumFunctionOnSet(Sizes(e), Counted(g))
          BY <4>2, <4>3, SumAdd
        <4>5. Counted(g) \subseteq D BY DEF Counted
        <4>6. \A l \in D : Sizes(g)[l] = Sizes(e)[l] BY <1>5, <2>3, <2>6 DEF Sizes
        <4>7. IsFiniteSet(Counted(g)) /\ \A l \in Counted(g) : Sizes(g)[l] \in Int
          BY <4>5, CountedFinite
        <4>8. SumFunctionOnSet(Sizes(g), Counted(g)) = SumFunctionOnSet(Sizes(e), Counted(g))
          BY <4>5, <4>6, <4>7, SumSame
        <4>9. Sizes(e)[long] = size BY <1>10, <4>6 DEF Sizes
        <4>10. e.inFlight = g.inFlight + size BY <2>3, <3>2
        <4>11. g.inFlight = SumFunctionOnSet(Sizes(e), Counted(g)) BY <4>8 DEF Exact
        <4>12. g.inFlight \in Int BY DEF IsHistory
        <4>13. SumFunctionOnSet(Sizes(e), C) = size + g.inFlight
          BY <4>4, <4>9, <4>11
        <4> HIDE DEF size
        <4>14. e.inFlight = SumFunctionOnSet(Sizes(e), C)
          BY <2>4, <4>10, <4>12, <4>13
        <4> QED BY <4>14 DEF Exact, C
      <3> QED BY <3>1, <3>2
    <2> QED BY <1>5, <1>6, <2>3, <2>5, <2>9 DEF e, long
  <1> QED BY <1>9, <1>10

\* A non-empty set of numbers between two others has a greatest one.
LEMMA GreatestElement ==
  ASSUME NEW a, a \in Int, NEW b, b \in Int, NEW S, S \subseteq a .. b, S # {}
  PROVE  Max(S) \in S /\ \A x \in S : Max(S) >= x
  <1> DEFINE T == {b - x : x \in S}
  <1>1. T \subseteq Nat /\ T # {} OBVIOUS
  <1> HIDE DEF T
  <1>2. PICK t \in T : \A u \in T : t <= u BY <1>1, LeastElement
  <1>3. PICK x \in S : t = b - x BY <1>2 DEF T
  <1>4. ASSUME NEW y \in S PROVE x >= y
    <2>1. b - y \in T BY DEF T
    <2>2. t <= b - y BY <1>2, <2>1
    <2>3. x \in Int /\ y \in Int OBVIOUS
    <2> QED BY <1>3, <2>2, <2>3
  <1> QED BY <1>4 DEF Max

(***************************************************************************)
(* The inductive invariant.                                                *)
(***************************************************************************)
SenderTyped ==
  /\ first \in 0 .. SeqSpace - 1 /\ next \in Nat /\ next >= first
  /\ now \in Nat /\ time \in Nat /\ highest \in Nat /\ behind \in Nat
  /\ now <= highest /\ highest - now <= behind /\ behind <= highest
  /\ network \in Networks
  /\ pacer \in Nat
  /\ phase \in {"idle", "inserted", "added"} /\ length \in PacketSizes
  /\ phase = "added" => next > first
  /\ offset \in Int /\ lastRef \in {Unset} \cup 0 .. RefSpan - 1

HistoryKept ==
  /\ IsHistory(h) /\ Exact(h)
  /\ h.lastUnwrapped \in IF next = first THEN {Unset} ELSE Nat
  /\ \A l \in DOMAIN h.history :
       /\ h.history[l].packet \in Recorded
       /\ h.history[l].created <= highest

\* A feedback is about packets sent before it, from its base on.
Feedback(f) ==
  /\ f.base \in Nat /\ f.base > first
  /\ f.received # {} /\ f.received \subseteq f.base .. next - 1
  /\ f.received \subseteq Sent
  /\ f.refTime \in Nat /\ f.ref = f.refTime % RefSpan
  /\ f.time \in Nat

ReceiverKept ==
  /\ rbase \in Nat /\ rbase > first
  /\ rtime \in Nat
  /\ \A f \in net : Feedback(f)

\* A packet that the history still knows was not given to the controller, and the
\* history knows it only once.
DeliveredOnce ==
  /\ delivered \in [Recorded -> Nat]
  /\ ReceivedOnce
  /\ \A l \in DOMAIN h.history : delivered[h.history[l].packet] = 0
  /\ \A l, m \in DOMAIN h.history : h.history[l].packet = h.history[m].packet => l = m

\* The unwrapper's last number is the newest packet's, or one a feedback may be about.
UnwrapperNear(u) ==
  next > first => u = next - 1 \/ u \in next - network.maxLag .. next - 1

\* The order of the numbers is the order of creation, but for what the clock was set
\* back: an old packet is not held back by younger ones any longer than that.
Aligned ==
  /\ \A l \in DOMAIN h.history : h.history[l].packet = l
  /\ \A r \in msg : r.found = r.reported
  /\ h.lastAck < next
  /\ UnwrapperNear(h.lastUnwrapped)
  /\ \A l \in DOMAIN h.history : l \in Sent => h.history[l].sent >= 0
  /\ \A l, m \in DOMAIN h.history :
       l < m => h.history[l].created <= h.history[m].created + behind
  /\ \A l \in DOMAIN h.history : now - h.history[l].created <= AgeLimit + behind

FeedbackInv ==
  /\ SenderTyped
  /\ HistoryKept
  /\ ReceiverKept
  /\ DeliveredOnce
  /\ InTime => Aligned
  /\ PacerInStep

LEMMA InvImplies ==
  ASSUME FeedbackInv
  PROVE  TypeOK /\ InFlightExact /\ NoAliasing /\ ReceivedOnce /\ HistoryInWindow /\ PacerInStep
  <1> USE DEF FeedbackInv
  <1>1. TypeOK
    <2>1. \A l \in DOMAIN h.history : h.history[l] \in Entries BY DEF HistoryKept, IsHistory
    <2>2. /\ DOMAIN h.history \subseteq Nat
          /\ h.lastAck \in {Unset} \cup Nat
      BY DEF HistoryKept, IsHistory
    <2>3. ASSUME NEW l \in DOMAIN h.history
          PROVE  /\ h.history[l].packet \in Recorded
                 /\ h.history[l].size \in PacketSizes
                 /\ h.history[l].sent \in {kNoSendTime} \cup Nat
                 /\ h.history[l].created \in 0 .. highest
      BY <2>1 DEF HistoryKept, Entries, SenderTyped
    <2>4. h.inFlight \in Nat BY InFlightNat DEF HistoryKept
    <2>5. \A f \in net : f.received # {} /\ f.received \subseteq Recorded
      BY DEF ReceiverKept, Feedback, Recorded, SenderTyped
    <2>6. /\ h.lastUnwrapped \in IF next = first THEN {Unset} ELSE Nat
          /\ delivered \in [Recorded -> Nat]
      BY DEF HistoryKept, DeliveredOnce
    <2> QED BY <2>2, <2>3, <2>4, <2>5, <2>6 DEF TypeOK, SenderTyped
  <1>2. InFlightExact BY DEF InFlightExact, HistoryKept, Exact, Counted
  <1>3. NoAliasing BY DEF NoAliasing, Aligned
  <1>4. ReceivedOnce BY DEF DeliveredOnce
  <1>5. HistoryInWindow BY DEF HistoryInWindow, Aligned
  <1> QED BY <1>1, <1>2, <1>3, <1>4, <1>5

LEMMA InvInit == Init => FeedbackInv
  <1> SUFFICES ASSUME Init PROVE FeedbackInv
    OBVIOUS
  <1> USE DEF Init
  <1>1. first \in 0 .. SeqSpace - 1 /\ SeqSpace \in Nat \ {0} BY FeedbackConstants, HalfIsHalf
  <1>2. SenderTyped BY <1>1 DEF SenderTyped, Unset
  <1>3. /\ IsHistory(h) /\ Exact(h) /\ DOMAIN h.history = {}
        /\ h.lastUnwrapped = Unset /\ h.lastAck = Unset /\ h.inFlight = 0
    BY EmptyIsHistory DEF EmptyHistory
  <1>4. HistoryKept BY <1>3 DEF HistoryKept
  <1>5. ReceiverKept BY <1>1 DEF ReceiverKept
  <1>6. DeliveredOnce
    <2>1. Recorded = {} BY <1>1 DEF Recorded
    <2>2. delivered \in [{} -> Nat] /\ DOMAIN delivered = {} OBVIOUS
    <2> QED BY <1>3, <2>1, <2>2 DEF DeliveredOnce, ReceivedOnce
  <1>7. Aligned BY <1>1, <1>3 DEF Aligned, UnwrapperNear, Unset
  <1>8. PacerInStep BY <1>3 DEF PacerInStep
  <1> QED BY <1>2, <1>4, <1>5, <1>6, <1>7, <1>8 DEF FeedbackInv

LEMMA LagOfNetwork ==
  ASSUME SenderTyped
  PROVE  /\ network.maxLag \in Nat
         /\ network.elapsed \subseteq [sender : Int, receiver : Int]
         /\ InTime => network.maxLag < Half
  <1>1. network.maxLag \in Nat /\ network.elapsed \subseteq [sender : Int, receiver : Int]
    BY FeedbackConstants DEF SenderTyped
  <1> DEFINE lag == network.maxLag
  <1> HIDE DEF lag
  <1>2. lag \in Nat BY <1>1 DEF lag
  <1>3. 2 * lag < SeqSpace => lag < Half BY <1>2, HalfIsHalf
  <1> QED BY <1>1, <1>3 DEF InTime, lag

\* The clock after a step, its highest and how far it was behind.
LEMMA ClocksAreSet ==
  ASSUME SenderTyped, NEW here \in Int, NEW there \in Int, SetClocks(here, there)
  PROVE  /\ now' = here /\ now' \in Nat /\ time' = there /\ time' \in Nat
         /\ highest' \in Nat /\ now' <= highest' /\ highest <= highest'
         /\ behind' \in Nat /\ highest' - now' <= behind' /\ behind <= behind'
         /\ behind' <= highest'
  <1>1. /\ here >= 0 /\ there >= 0 /\ now' = here /\ time' = there
        /\ highest' = IF highest < here THEN here ELSE highest
        /\ behind' = IF behind < highest' - here THEN highest' - here ELSE behind
    BY DEF SetClocks, Larger
  <1>2. highest \in Nat /\ behind \in Nat /\ behind <= highest BY DEF SenderTyped
  <1>3. highest' \in Nat /\ here <= highest' /\ highest <= highest' BY <1>1, <1>2
  <1> QED BY <1>1, <1>2, <1>3

LEMMA InsertKeeps ==
  ASSUME FeedbackInv, InsertPacket
  PROVE  FeedbackInv'
  <1> USE DEF FeedbackInv, InsertPacket, receiverVars, clocks
  <1>1. length' \in PacketSizes /\ pacer' = pacer + length'
        /\ UNCHANGED <<h, offset, lastRef, msg, first, next, clocks, delivered, receiverVars>>
        /\ phase' = "inserted"
    OBVIOUS
  <1>2. SenderTyped'
    <2>1. length' \in Nat BY <1>1, FeedbackConstants
    <2>2. pacer \in Nat BY DEF SenderTyped
    <2>3. pacer' \in Nat
      <3>1. pacer' = pacer + length' BY <1>1
      <3>2. \A a, b \in Nat : a + b \in Nat OBVIOUS
      <3> QED BY <2>1, <2>2, <3>1, <3>2
    <2> QED BY <1>1, <2>3 DEF SenderTyped
  <1>3. HistoryKept' BY DEF HistoryKept, Recorded, IsHistory, Exact, Counted
  <1>4. Sent' = Sent BY DEF Sent
  <1>5. ReceiverKept' BY <1>4 DEF ReceiverKept, Feedback
  <1>6. DeliveredOnce' BY DEF DeliveredOnce, Recorded, ReceivedOnce
  <1>7. InTime' => Aligned' BY <1>4 DEF InTime, Aligned, UnwrapperNear
  <1>8. PacerInStep' BY DEF PacerInStep
  <1> QED BY <1>2, <1>3, <1>5, <1>6, <1>7, <1>8

LEMMA AddKeeps ==
  ASSUME FeedbackInv, OnAddPacket
  PROVE  FeedbackInv'
  <1> USE DEF FeedbackInv
  <1>1. h' = AddNewPacket(RemoveOld(h, now'), next % SeqSpace,
                          [packet |-> next, size |-> length, sent |-> kNoSendTime,
                           created |-> now'])
    BY DEF OnAddPacket
  <1>2. /\ phase = "inserted" /\ phase' = "added"
        /\ next' = next + 1
        /\ delivered' = [p \in first .. next |-> IF p = next THEN 0 ELSE delivered[p]]
        /\ UNCHANGED <<offset, lastRef, msg, pacer, length, first>>
        /\ UNCHANGED <<net, rbase, rtime, network>>
    BY DEF OnAddPacket, receiverVars
  <1> DEFINE t == now'
             entry == [packet |-> next, size |-> length, sent |-> kNoSendTime, created |-> t]
             o == RemoveOld(h, t)
             O == OldOnes(h, t)
             long == Unwrapped(o, next % SeqSpace)
  <1>3. first \in Nat /\ next \in Nat /\ next >= first /\ first < SeqSpace
    BY HalfIsHalf DEF SenderTyped
  <1>4. /\ t \in Nat /\ time' \in Nat
        /\ highest' \in Nat /\ t <= highest' /\ highest <= highest'
        /\ behind' \in Nat /\ highest' - t <= behind' /\ behind <= behind'
        /\ behind' <= highest' /\ highest \in Nat /\ behind \in Nat
    <2>1. PICK ms \in network.elapsed : SetClocks(now + ms.sender, time + ms.receiver)
      BY DEF OnAddPacket
    <2>2. ms.sender \in Int /\ ms.receiver \in Int BY <2>1, LagOfNetwork
    <2>3. /\ now \in Nat /\ time \in Nat /\ highest \in Nat /\ behind \in Nat
      BY DEF SenderTyped
    <2>4. now + ms.sender \in Int /\ time + ms.receiver \in Int BY <2>2, <2>3
    <2> QED BY <2>1, <2>3, <2>4, ClocksAreSet
  <1>5. entry \in Entries /\ entry.packet = next /\ entry.sent = kNoSendTime
        /\ entry.created = t
    <2>1. length \in PacketSizes BY DEF SenderTyped
    <2> HIDE DEF t
    <2> QED BY <1>3, <1>4, <2>1 DEF Entries
  <1>6. now' = t /\ h' = AddNewPacket(o, next % SeqSpace, entry) BY <1>1
  <1> HIDE DEF t, entry
  <1>7. /\ IsHistory(o) /\ Exact(o)
        /\ DOMAIN o.history = DOMAIN h.history \ O
        /\ \A l \in DOMAIN h.history \ O : o.history[l] = h.history[l]
        /\ o.lastAck = h.lastAck /\ o.lastUnwrapped = h.lastUnwrapped
    BY <1>4, RemoveOldIs DEF HistoryKept
  <1> HIDE DEF o
  <1>8. next % SeqSpace \in 0 .. SeqSpace - 1 BY <1>3, Divided
  <1>9. /\ IsHistory(h') /\ Exact(h')
        /\ DOMAIN h'.history = DOMAIN o.history \cup {long}
        /\ \A l \in DOMAIN o.history \cup {long} :
             h'.history[l] = IF l \in DOMAIN o.history THEN o.history[l] ELSE entry
        /\ h'.lastAck = o.lastAck
        /\ h'.lastUnwrapped = long
    BY <1>5, <1>6, <1>7, <1>8, AddNewPacketIs
  <1>10. long \in Nat BY <1>7, <1>8, UnwrappedNat DEF IsHistory
  <1>11. long = next \/ ~InTime
    <2>1. SUFFICES ASSUME InTime PROVE long = next
      OBVIOUS
    <2>2. CASE next = first
      <3>1. o.lastUnwrapped = Unset BY <1>7, <2>2 DEF HistoryKept
      <3>2. next \in 0 .. SeqSpace - 1 BY <1>3, <2>2, HalfIsHalf
      <3> QED BY <3>1, <3>2, UnwrappedFirst
    <2>3. CASE next # first
      <3> DEFINE u == o.lastUnwrapped
      <3>1. u \in Nat BY <1>7, <2>3 DEF HistoryKept
      <3>2. u = next - 1 \/ u \in next - network.maxLag .. next - 1
        BY <1>3, <1>7, <2>1, <2>3 DEF Aligned, UnwrapperNear
      <3>3. network.maxLag \in Nat /\ network.maxLag < Half BY <2>1, LagOfNetwork
      <3>4. next - u < Half /\ u - next < Half
        <4> DEFINE lag == network.maxLag
        <4>1. lag \in Nat /\ lag < Half /\ (u = next - 1 \/ u \in next - lag .. next - 1)
          BY <3>2, <3>3
        <4> HIDE DEF lag, u
        <4> QED BY <1>3, <3>1, <4>1, HalfIsHalf
      <3> QED BY <1>3, <3>1, <3>4, UnwrappedNear
    <2> QED BY <2>2, <2>3
  <1> HIDE DEF long, O
  \* Every entry of the new history is the new packet's or one of the old.
  <1>12. \A l \in DOMAIN h'.history :
           \/ l \in DOMAIN h.history /\ l \notin O /\ h'.history[l] = h.history[l]
           \/ l = long /\ h'.history[l] = entry /\ l \notin DOMAIN o.history
    BY <1>7, <1>9
  <1>13. SenderTyped'
    <2>1. next + 1 \in Nat /\ next + 1 > first BY <1>3
    <2>2. SenderTyped OBVIOUS
    <2>3. now' \in Nat /\ now' <= highest' /\ highest' - now' <= behind' BY <1>4, <1>6
    <2> HIDE DEF FeedbackInv
    <2>4. now' \in Nat /\ time' \in Nat /\ highest' \in Nat /\ behind' \in Nat
          /\ behind' <= highest'
      BY <1>4, <2>3
    <2>5. /\ first' \in 0 .. SeqSpace - 1 /\ next' \in Nat /\ next' > first'
      BY <1>2, <2>1, <2>2 DEF SenderTyped
    <2>6. /\ network' \in Networks /\ pacer' \in Nat /\ length' \in PacketSizes
          /\ offset' \in Int /\ lastRef' \in {Unset} \cup 0 .. RefSpan - 1
      BY <1>2, <2>2 DEF SenderTyped
    <2>7. next' >= first' BY <1>2, <1>3, <2>1
    <2> QED BY <1>2, <2>3, <2>4, <2>5, <2>6, <2>7 DEF SenderTyped
  <1>14. HistoryKept'
    <2>1. \A p \in Recorded \cup {next} : p \in Recorded' BY <1>2, <1>3 DEF Recorded
    <2>2. ASSUME NEW l \in DOMAIN h'.history
          PROVE  /\ h'.history[l].packet \in Recorded'
                 /\ h'.history[l].created <= highest'
      <3>1. CASE l \in DOMAIN h.history /\ h'.history[l] = h.history[l]
        <4>1. h.history[l].packet \in Recorded /\ h.history[l].created <= highest
          BY <3>1 DEF HistoryKept
        <4>2. h.history[l] \in Entries BY <3>1 DEF HistoryKept, IsHistory
        <4>3. h.history[l].created \in Int BY <4>2 DEF Entries
        <4> QED BY <1>4, <2>1, <3>1, <4>1, <4>3
      <3>2. CASE h'.history[l] = entry
        BY <1>4, <1>5, <2>1, <3>2
      <3> QED BY <1>12, <3>1, <3>2
    <2>3. next' # first' BY <1>2, <1>3
    <2> QED BY <1>9, <1>10, <2>2, <2>3 DEF HistoryKept
  <1>15. Sent' = Sent
    <2>1. Sent = first .. next - 1 BY <1>2 DEF Sent
    <2>2. Sent' = first .. (next + 1) - 2 BY <1>2 DEF Sent
    <2>3. (next + 1) - 2 = next - 1 BY <1>3
    <2> QED BY <2>1, <2>2, <2>3
  <1>16. ReceiverKept'
    <2>1. rbase' \in Nat /\ rbase' > first' /\ rtime' \in Nat
      BY <1>2 DEF ReceiverKept
    <2>2. ASSUME NEW f \in net PROVE Feedback(f)'
      <3>1. Feedback(f) BY DEF ReceiverKept
      <3>2. f.received \subseteq f.base .. next' - 1 BY <1>2, <1>3, <3>1 DEF Feedback
      <3> QED BY <1>2, <1>15, <3>1, <3>2 DEF Feedback
    <2> QED BY <1>2, <2>1, <2>2 DEF ReceiverKept
  <1>17. DeliveredOnce'
    <2>1. Recorded' = first .. next /\ DOMAIN delivered = Recorded /\ next \notin Recorded
          /\ \A p \in first .. next : p = next \/ p \in Recorded
      BY <1>2, <1>3 DEF Recorded, DeliveredOnce
    <2>2. \A p \in first .. next : delivered'[p] = IF p = next THEN 0 ELSE delivered[p]
      BY <1>2
    <2>3. DOMAIN delivered' = Recorded' BY <1>2, <2>1
    <2>4. delivered' \in [Recorded' -> Nat] BY <1>2, <2>1 DEF DeliveredOnce
    <2>5. ReceivedOnce' BY <2>1, <2>2, <2>3 DEF ReceivedOnce, DeliveredOnce
    <2>6. \A l \in DOMAIN h'.history :
            \/ l \in DOMAIN h.history /\ h'.history[l] = h.history[l]
               /\ h.history[l].packet \in Recorded
            \/ l = long /\ h'.history[l].packet = next
      BY <1>5, <1>12 DEF HistoryKept
    <2>7. \A l \in DOMAIN h'.history : delivered'[h'.history[l].packet] = 0
      <3> SUFFICES ASSUME NEW l \in DOMAIN h'.history
                   PROVE  delivered'[h'.history[l].packet] = 0
        OBVIOUS
      <3>1. CASE l \in DOMAIN h.history /\ h'.history[l] = h.history[l]
                 /\ h.history[l].packet \in Recorded
        <4>1. h.history[l].packet \in first .. next BY <1>3, <3>1 DEF Recorded
        <4> QED BY <2>1, <2>2, <3>1, <4>1 DEF DeliveredOnce
      <3>2. CASE h'.history[l].packet = next
        <4>1. next \in first .. next BY <1>3
        <4> QED BY <2>2, <3>2, <4>1
      <3> QED BY <2>6, <3>1, <3>2
    <2>8. \A l, m \in DOMAIN h'.history :
            h'.history[l].packet = h'.history[m].packet => l = m
      BY <2>1, <2>6 DEF DeliveredOnce
    <2> QED BY <2>4, <2>5, <2>7, <2>8 DEF DeliveredOnce
  <1>18. InTime' => Aligned'
    <2> SUFFICES ASSUME InTime' PROVE Aligned'
      OBVIOUS
    <2>1. InTime /\ Aligned BY <1>2 DEF InTime
    <2>2. long = next BY <1>11, <2>1
    <2>3. \A l \in DOMAIN h'.history :
            \/ l \in DOMAIN h.history /\ l \notin O /\ h'.history[l] = h.history[l]
               /\ l \in Recorded
            \/ l = next /\ h'.history[l] = entry
      <3>1. \A l \in DOMAIN h.history : l \in Recorded BY <2>1 DEF Aligned, HistoryKept
      <3> QED BY <1>12, <2>2, <3>1
    <2>4. \A l \in DOMAIN h'.history : h'.history[l].packet = l
      BY <1>5, <2>1, <2>3 DEF Aligned
    <2>5. \A r \in msg' : r.found = r.reported BY <1>2, <2>1 DEF Aligned
    <2>6. h'.lastAck < next'
      <3>1. h'.lastAck = h.lastAck /\ h.lastAck < next BY <1>7, <1>9, <2>1 DEF Aligned
      <3>2. h.lastAck \in Int BY DEF HistoryKept, IsHistory, Unset
      <3> HIDE DEF FeedbackInv
      <3> QED BY <1>2, <1>3, <3>1, <3>2
    <2>7. UnwrapperNear(h.lastUnwrapped)'
      <3>1. h'.lastUnwrapped = next' - 1 BY <1>2, <1>3, <1>9, <2>2
      <3> QED BY <3>1 DEF UnwrapperNear
    <2>8. \A l \in DOMAIN h'.history : l \in Sent' => h'.history[l].sent >= 0
      <3>1. next \notin Sent' BY <1>2, <1>3, <1>15 DEF Sent
      <3> QED BY <1>15, <2>1, <2>3, <3>1 DEF Aligned
    <2>9. \A l \in DOMAIN h.history : h.history[l].created \in Nat /\ h.history[l].created <= highest
      <3>1. \A l \in DOMAIN h.history : h.history[l] \in Entries
        BY DEF HistoryKept, IsHistory
      <3> QED BY <3>1 DEF HistoryKept, Entries
    <2>10. \A l, m \in DOMAIN h'.history :
             l < m => h'.history[l].created <= h'.history[m].created + behind'
      <3> SUFFICES ASSUME NEW l \in DOMAIN h'.history, NEW m \in DOMAIN h'.history, l < m
                   PROVE  h'.history[l].created <= h'.history[m].created + behind'
        OBVIOUS
      <3>1. CASE l \in DOMAIN h.history /\ h'.history[l] = h.history[l]
                 /\ m \in DOMAIN h.history /\ h'.history[m] = h.history[m]
        <4>1. h.history[l].created <= h.history[m].created + behind BY <2>1, <3>1 DEF Aligned
        <4>2. h.history[l].created \in Nat /\ h.history[m].created \in Nat BY <2>9, <3>1
        <4> HIDE DEF FeedbackInv
        <4> QED BY <1>4, <3>1, <4>1, <4>2
      <3>2. CASE l \in DOMAIN h.history /\ h'.history[l] = h.history[l]
                 /\ h'.history[m] = entry
        <4>1. h.history[l].created \in Nat /\ h.history[l].created <= highest BY <2>9, <3>2
        <4>2. h'.history[m].created = t /\ h'.history[l].created = h.history[l].created
          BY <1>5, <3>2
        <4>3. \A c \in Nat : c <= highest => c <= t + behind'
          <5>1. \A c, i, j, b, x \in Nat : c <= i /\ i <= j /\ j - x <= b => c <= x + b
            OBVIOUS
          <5> QED BY <1>4, <5>1
        <4> QED BY <4>1, <4>2, <4>3
      <3>3. CASE l = next /\ m \in Recorded
        BY <1>3, <3>3 DEF Recorded
      <3>4. CASE l = next /\ m = next BY <1>3, <3>4
      <3> QED BY <2>3, <3>1, <3>2, <3>3, <3>4
    <2>11. \A l \in DOMAIN h'.history : now' - h'.history[l].created <= AgeLimit + behind'
      <3> SUFFICES ASSUME NEW l \in DOMAIN h'.history
                   PROVE  now' - h'.history[l].created <= AgeLimit + behind'
        OBVIOUS
      <3>1. CASE l \in DOMAIN h.history /\ l \notin O /\ h'.history[l] = h.history[l]
        <4>1. PICK y \in DOMAIN h.history : t - h.history[y].created <= AgeLimit /\ ~(l < y)
          BY <3>1 DEF OldOnes, O
        <4>2. l \in Nat /\ y \in Nat BY <3>1 DEF HistoryKept, IsHistory
        <4>3. h.history[y].created <= h.history[l].created + behind
          <5>1. y < l \/ y = l BY <4>1, <4>2
          <5>2. CASE y < l BY <2>1, <3>1, <5>2 DEF Aligned
          <5>3. CASE y = l BY <1>4, <2>9, <3>1, <5>3
          <5> QED BY <5>1, <5>2, <5>3
        <4>4. h.history[y].created \in Nat /\ h.history[l].created \in Nat BY <2>9, <3>1
        <4> HIDE DEF FeedbackInv
        <4> QED BY <1>4, <1>6, <3>1, <4>1, <4>3, <4>4, HistoryConstants
      <3>2. CASE h'.history[l] = entry
        BY <1>4, <1>5, <1>6, <3>2, HistoryConstants
      <3> QED BY <2>3, <3>1, <3>2
    <2> QED BY <2>4, <2>5, <2>6, <2>7, <2>8, <2>10, <2>11 DEF Aligned
  <1>19. PacerInStep' BY <1>2 DEF PacerInStep
  <1> QED BY <1>13, <1>14, <1>16, <1>17, <1>18, <1>19

LEMMA SentKeeps ==
  ASSUME FeedbackInv, OnPacketSent
  PROVE  FeedbackInv'
  <1> USE DEF FeedbackInv
  <1> DEFINE long == Unwrapped(h, (next - 1) % SeqSpace)
  <1>1. /\ phase = "added" /\ phase' = "idle"
        /\ h' = OnSentPacket(h, (next - 1) % SeqSpace, now)
        /\ pacer' = h'.inFlight
        /\ UNCHANGED <<offset, lastRef, msg, length, first, next, delivered>>
        /\ UNCHANGED <<now, time, highest, behind>>
        /\ UNCHANGED <<net, rbase, rtime, network>>
    BY DEF OnPacketSent, receiverVars, clocks
  <1>2. /\ first \in Nat /\ next \in Nat /\ next > first /\ now \in Nat
    BY <1>1 DEF SenderTyped
  <1>3. (next - 1) % SeqSpace \in 0 .. SeqSpace - 1
    <2>1. next - 1 \in Int BY <1>2
    <2> QED BY <2>1, Divided
  <1>4. /\ IsHistory(h') /\ Exact(h')
        /\ DOMAIN h'.history = DOMAIN h.history
        /\ \A l \in DOMAIN h.history :
             h'.history[l] = IF l = long THEN Stamped(h.history[l], now) ELSE h.history[l]
        /\ h'.lastAck = h.lastAck
        /\ h'.lastUnwrapped = long
    BY <1>1, <1>2, <1>3, OnSentPacketIs DEF HistoryKept
  <1>5. long \in Nat BY <1>3, UnwrappedNat DEF HistoryKept, IsHistory
  <1>6. long = next - 1 \/ ~InTime
    <2> SUFFICES ASSUME InTime PROVE long = next - 1
      OBVIOUS
    <2> DEFINE u == h.lastUnwrapped
               lag == network.maxLag
    <2>1. u \in Nat BY <1>2 DEF HistoryKept
    <2>2. u = next - 1 \/ u \in next - lag .. next - 1
      BY <1>2 DEF Aligned, UnwrapperNear
    <2>3. lag \in Nat /\ lag < Half BY LagOfNetwork
    <2>4. (next - 1) - u < Half /\ u - (next - 1) < Half
      <3> HIDE DEF lag, u, FeedbackInv
      <3> QED BY <1>2, <2>1, <2>2, <2>3, HalfIsHalf
    <2>5. next - 1 \in Nat BY <1>2
    <2> QED BY <2>1, <2>4, <2>5, UnwrappedNear
  <1> HIDE DEF long
  <1>7. \A l \in DOMAIN h.history :
          /\ h.history[l] \in Entries
          /\ h'.history[l].packet = h.history[l].packet
          /\ h'.history[l].created = h.history[l].created
          /\ l = long => h'.history[l].sent = now
          /\ l # long => h'.history[l].sent = h.history[l].sent
    <2>1. \A l \in DOMAIN h.history : h.history[l] \in Entries BY DEF HistoryKept, IsHistory
    <2> QED BY <1>2, <1>4, <2>1, StampedIs
  <1>8. SenderTyped'
    <2>1. pacer' \in Nat BY <1>1, <1>4, InFlightNat
    <2> QED BY <1>1, <2>1 DEF SenderTyped
  <1>9. HistoryKept'
    <2>1. Recorded' = Recorded BY <1>1 DEF Recorded
    <2>2. ASSUME NEW l \in DOMAIN h'.history
          PROVE  /\ h'.history[l].packet \in Recorded'
                 /\ h'.history[l].created <= highest'
      BY <1>1, <1>2, <1>4, <1>7, <2>1 DEF HistoryKept
    <2>3. next' # first' BY <1>1, <1>2
    <2> QED BY <1>4, <1>5, <2>2, <2>3 DEF HistoryKept
  <1>10. Sent = first .. next - 2 /\ Sent' = first .. next - 1 BY <1>1 DEF Sent
  <1>11. ReceiverKept'
    <2>1. \A p \in Sent : p \in Sent' BY <1>2, <1>10
    <2> QED BY <1>1, <2>1 DEF ReceiverKept, Feedback
  <1>12. DeliveredOnce'
    <2>1. Recorded' = Recorded BY <1>1 DEF Recorded
    <2> QED BY <1>1, <1>4, <1>7, <2>1 DEF DeliveredOnce, ReceivedOnce
  <1>13. InTime' => Aligned'
    <2> SUFFICES ASSUME InTime' PROVE Aligned'
      OBVIOUS
    <2>1. InTime /\ Aligned BY <1>1 DEF InTime
    <2>2. long = next - 1 BY <1>6, <2>1
    <2>3. UnwrapperNear(h.lastUnwrapped)' BY <1>1, <1>4, <2>2 DEF UnwrapperNear
    <2>4. \A l \in DOMAIN h'.history : l \in Sent' => h'.history[l].sent >= 0
      <3> SUFFICES ASSUME NEW l \in DOMAIN h.history, l \in Sent'
                   PROVE  h'.history[l].sent >= 0
        BY <1>4
      <3>1. CASE l = long BY <1>2, <1>7, <3>1
      <3>2. CASE l # long
        <4>1. l \in Sent BY <1>2, <1>10, <2>2, <3>2
        <4> QED BY <1>7, <2>1, <3>2, <4>1 DEF Aligned
      <3> QED BY <3>1, <3>2
    <2>5. /\ \A l \in DOMAIN h'.history : h'.history[l].packet = l
          /\ \A l, m \in DOMAIN h'.history :
               l < m => h'.history[l].created <= h'.history[m].created + behind'
          /\ \A l \in DOMAIN h'.history :
               now' - h'.history[l].created <= AgeLimit + behind'
      BY <1>1, <1>4, <1>7, <2>1 DEF Aligned
    <2>6. h'.lastAck < next' /\ \A r \in msg' : r.found = r.reported
      BY <1>1, <1>4, <2>1 DEF Aligned
    <2> QED BY <2>3, <2>4, <2>5, <2>6 DEF Aligned
  <1>14. PacerInStep' BY <1>1 DEF PacerInStep
  <1> QED BY <1>8, <1>9, <1>11, <1>12, <1>13, <1>14

\* Steps of the receiver leave the sender alone.
LEMMA ReceiverLeaves ==
  ASSUME FeedbackInv, UNCHANGED <<senderVars, network>>, ReceiverKept'
  PROVE  FeedbackInv'
  <1> USE DEF FeedbackInv
  <1>1. UNCHANGED <<h, offset, lastRef, msg, pacer, phase, length, first, next, now,
                    time, highest, behind, delivered, network>>
    BY DEF senderVars, clocks
  <1>2. SenderTyped' BY <1>1 DEF SenderTyped
  <1>3. HistoryKept' BY <1>1 DEF HistoryKept, Recorded, IsHistory, Exact, Counted
  <1>4. DeliveredOnce' BY <1>1 DEF DeliveredOnce, Recorded, ReceivedOnce
  <1>5. InTime' => Aligned' BY <1>1 DEF InTime, Aligned, UnwrapperNear, Sent
  <1>6. PacerInStep' BY <1>1 DEF PacerInStep
  <1> QED BY <1>2, <1>3, <1>4, <1>5, <1>6

LEMMA ReportsKeeps ==
  ASSUME FeedbackInv, ReceiverReports
  PROVE  FeedbackInv'
  <1> USE DEF FeedbackInv
  <1>1. PICK received \in (SUBSET (rbase .. next - 1)) \ {{}} :
          /\ received \subseteq Sent
          /\ net' = net \cup {[base |-> rbase, received |-> received,
                               ref |-> rtime % RefSpan, refTime |-> rtime, time |-> time]}
          /\ rbase' = Max(received) + 1
    BY DEF ReceiverReports
  <1>2. rtime' = time /\ UNCHANGED <<senderVars, network>> BY DEF ReceiverReports
  <1>3. UNCHANGED <<h, phase, first, next>> BY <1>2 DEF senderVars
  <1>4. /\ rbase \in Nat /\ rbase > first /\ rtime \in Nat
        /\ next \in Nat /\ time \in Nat /\ first \in Nat
    BY DEF ReceiverKept, SenderTyped
  <1>5. Max(received) \in received
    <2>1. received \subseteq rbase .. next - 1 /\ received # {} BY <1>1
    <2>2. rbase \in Int /\ next - 1 \in Int BY <1>4
    <2> QED BY <2>1, <2>2, GreatestElement
  <1>6. Max(received) \in rbase .. next - 1 BY <1>1, <1>5
  <1>7. rbase' \in Nat /\ rbase' > first'
    <2> DEFINE m == Max(received)
    <2>1. m \in rbase .. next - 1 /\ rbase' = m + 1 BY <1>1, <1>6
    <2> HIDE DEF m, FeedbackInv
    <2> QED BY <1>3, <1>4, <2>1
  <1>8. rtime' \in Nat BY <1>2, <1>4
  <1>9. Sent' = Sent BY <1>3 DEF Sent
  <1> DEFINE f == [base |-> rbase, received |-> received,
                   ref |-> rtime % RefSpan, refTime |-> rtime, time |-> time]
  <1>10. Feedback(f)
    <2>1. /\ f.base = rbase /\ f.received = received /\ f.ref = rtime % RefSpan
          /\ f.refTime = rtime /\ f.time = time
      OBVIOUS
    <2> HIDE DEF f
    <2>2. received # {} /\ received \subseteq rbase .. next - 1 /\ received \subseteq Sent
      BY <1>1
    <2> QED BY <1>4, <2>1, <2>2 DEF Feedback
  <1>11. \A e \in net' : Feedback(e)
    <2>1. \A e \in net : Feedback(e) BY DEF ReceiverKept
    <2>2. \A e \in net' : e \in net \/ e = f BY <1>1
    <2> HIDE DEF f
    <2> QED BY <1>10, <2>1, <2>2
  <1>12. ReceiverKept'
    <2>1. \A e \in net' : Feedback(e)' BY <1>3, <1>9, <1>11 DEF Feedback
    <2> QED BY <1>7, <1>8, <2>1 DEF ReceiverKept
  <1> QED BY <1>2, <1>12, ReceiverLeaves

LEMMA StartsOverKeeps ==
  ASSUME FeedbackInv, ReceiverStartsOver
  PROVE  FeedbackInv'
  <1> USE DEF FeedbackInv
  <1>1. PICK p \in Sent : p >= rbase /\ rbase' = p + 1 BY DEF ReceiverStartsOver
  <1>2. rtime' = time /\ net' = net /\ UNCHANGED <<senderVars, network>>
    BY DEF ReceiverStartsOver
  <1>3. UNCHANGED <<h, phase, first, next>> BY <1>2 DEF senderVars
  <1>4. p \in Nat /\ rbase \in Nat /\ rbase > first /\ time \in Nat /\ first \in Nat
    <2>1. first \in Nat /\ next \in Nat BY DEF SenderTyped
    <2>2. p \in Nat BY <2>1 DEF Sent
    <2> QED BY <2>1, <2>2 DEF ReceiverKept, SenderTyped
  <1>5. rbase' \in Nat /\ rbase' > first'
    <2> HIDE DEF FeedbackInv
    <2> QED BY <1>1, <1>3, <1>4
  <1>6. rtime' \in Nat BY <1>2, <1>4
  <1>7. \A f \in net' : Feedback(f)' BY <1>2, <1>3 DEF ReceiverKept, Feedback, Sent
  <1>8. ReceiverKept' BY <1>5, <1>6, <1>7 DEF ReceiverKept
  <1> QED BY <1>2, <1>8, ReceiverLeaves

(***************************************************************************)
(* Handling a feedback: status after status, what has been done so far is  *)
(* among Vectors(f).  The history is a part of the one before, and a       *)
(* packet is missing from it exactly if it was given to the controller.    *)
(***************************************************************************)
HistoryParts ==
  {History(Restrict(h.history, S), b, a, u) :
     S \in SUBSET DOMAIN h.history, b \in Int, a \in {Unset} \cup Nat, u \in Nat}

Results == [reported : Nat, found : Nat, received : BOOLEAN, arrival : Int, arrived : Int]

Gone(acc) == DOMAIN h.history \ DOMAIN acc.h.history

SoFar(acc, f) ==
  /\ Exact(acc.h)
  /\ \A r \in acc.feedbacks :
       /\ r.arrival = NewOffset(f) + (f.time - f.refTime) /\ r.arrived = f.time
       /\ r.received => \E l \in Gone(acc) : r.found = h.history[l].packet
  /\ InTime =>
       /\ acc.h.lastAck < next
       /\ UnwrapperNear(acc.h.lastUnwrapped)
       /\ \A r \in acc.feedbacks : r.found = r.reported
       /\ \A l \in Gone(acc) :
            \E r \in acc.feedbacks : r.received /\ r.found = h.history[l].packet

Vectors(f) == {acc \in [h : HistoryParts, feedbacks : SUBSET Results] : SoFar(acc, f)}

LEMMA PartIs ==
  ASSUME FeedbackInv, NEW g, g \in HistoryParts
  PROVE  /\ IsHistory(g)
         /\ DOMAIN g.history \subseteq DOMAIN h.history
         /\ g.history = Restrict(h.history, DOMAIN g.history)
         /\ \A l \in DOMAIN g.history : g.history[l] = h.history[l]
         /\ g.lastUnwrapped \in Nat
  <1>1. PICK S \in SUBSET DOMAIN h.history, b \in Int, a \in {Unset} \cup Nat, u \in Nat :
          g = History(Restrict(h.history, S), b, a, u)
    BY DEF HistoryParts
  <1> DEFINE f == Restrict(h.history, S)
  <1>2. DOMAIN f = S /\ \A l \in S : f[l] = h.history[l] BY DEF Restrict
  <1>3. /\ h.history \in [DOMAIN h.history -> Entries]
        /\ DOMAIN h.history \subseteq Nat /\ IsFiniteSet(DOMAIN h.history)
    BY DEF FeedbackInv, HistoryKept, IsHistory
  <1>4. f \in [S -> Entries] BY <1>3 DEF Restrict
  <1>5. IsFiniteSet(S) BY <1>3, FS_Subset
  <1> HIDE DEF f
  <1>6. f \in [DOMAIN f -> Entries] /\ DOMAIN f \subseteq Nat /\ IsFiniteSet(DOMAIN f)
    BY <1>2, <1>3, <1>4, <1>5
  <1>7. b \in Int /\ a \in {Unset} \cup Nat /\ u \in {Unset} \cup Nat OBVIOUS
  <1>8. IsHistory(History(f, b, a, u)) BY <1>6, <1>7, MakesHistory
  <1>9. g = History(f, b, a, u) BY <1>1 DEF f
  <1>10. g.history = f /\ g.lastUnwrapped = u BY <1>9, HistoryFields
  <1>11. f = Restrict(h.history, S) BY DEF f
  <1> QED BY <1>2, <1>8, <1>9, <1>10, <1>11

LEMMA PartOfPart ==
  ASSUME FeedbackInv, NEW g, g \in HistoryParts, NEW D, D \subseteq DOMAIN g.history,
         NEW e, IsHistory(e), e.history = Restrict(g.history, D), e.lastUnwrapped \in Nat
  PROVE  e \in HistoryParts /\ DOMAIN e.history = D
  <1>1. /\ DOMAIN g.history \subseteq DOMAIN h.history
        /\ \A l \in DOMAIN g.history : g.history[l] = h.history[l]
    BY PartIs
  <1>2. Restrict(g.history, D) = Restrict(h.history, D) BY <1>1 DEF Restrict
  <1>3. e = History(Restrict(h.history, D), e.inFlight, e.lastAck, e.lastUnwrapped)
    BY <1>2 DEF IsHistory
  <1>4. D \in SUBSET DOMAIN h.history BY <1>1
  <1>5. e.inFlight \in Int /\ e.lastAck \in {Unset} \cup Nat BY DEF IsHistory
  <1>6. e \in HistoryParts BY <1>3, <1>4, <1>5 DEF HistoryParts
  <1>7. DOMAIN e.history = D BY DEF Restrict
  <1> QED BY <1>6, <1>7

LEMMA OffsetTyped ==
  ASSUME FeedbackInv, NEW f, Feedback(f)
  PROVE  /\ NewOffset(f) \in Int
         /\ f.ref \in 0 .. RefSpan - 1
         /\ NewOffset(f) + (f.time - f.refTime) \in Int
  <1>1. /\ f.refTime \in Nat /\ f.time \in Nat /\ f.ref = f.refTime % RefSpan
        /\ now \in Nat /\ offset \in Int /\ lastRef \in {Unset} \cup 0 .. RefSpan - 1
    BY DEF Feedback, FeedbackInv, SenderTyped
  <1>2. RefSpan \in Nat \ {0} BY FeedbackConstants
  <1>3. f.ref \in 0 .. RefSpan - 1 BY <1>1, <1>2
  <1>4. NewOffset(f) \in Int BY <1>1, <1>2, <1>3 DEF NewOffset
  <1> QED BY <1>1, <1>3, <1>4

\* A feedback in time has numbers that the unwrapper finds again.
LEMMA StatusUnwrapped ==
  ASSUME FeedbackInv, InTime, NEW f, Feedback(f), next - f.base <= network.maxLag,
         NEW p, p \in f.base .. next - 1,
         NEW g, g.lastUnwrapped \in Nat, UnwrapperNear(g.lastUnwrapped)
  PROVE  Unwrapped(g, p % SeqSpace) = p /\ UnwrapperNear(p)
  <1> DEFINE u == g.lastUnwrapped
             lag == network.maxLag
  <1>1. /\ f.base \in Nat /\ f.base > first /\ first \in Nat /\ next \in Nat
    BY DEF Feedback, FeedbackInv, SenderTyped
  <1>2. lag \in Nat /\ lag < Half BY LagOfNetwork DEF FeedbackInv
  <1>3. u \in Nat OBVIOUS
  <1>4. next - f.base <= lag OBVIOUS
  <1>5. p \in Nat /\ next > first /\ p \in next - lag .. next - 1
    <2> HIDE DEF lag, u
    <2> QED BY <1>1, <1>2, <1>4
  <1>6. u = next - 1 \/ u \in next - lag .. next - 1 BY <1>5 DEF UnwrapperNear
  <1>7. p - u < Half /\ u - p < Half
    <2> HIDE DEF lag, u
    <2> QED BY <1>1, <1>2, <1>3, <1>5, <1>6, HalfIsHalf
  <1>8. UnwrapperNear(p) BY <1>5 DEF UnwrapperNear
  <1> QED BY <1>3, <1>5, <1>7, <1>8, UnwrappedNear

LEMMA WithStatusKeeps ==
  ASSUME FeedbackInv, NEW f, Feedback(f), next - f.base <= network.maxLag,
         NEW acc, acc \in Vectors(f), NEW p, p \in f.base .. next - 1
  PROVE  WithStatus(acc, f, p) \in Vectors(f)
  <1> DEFINE g == acc.h
             received == p \in f.received
             seq == p % SeqSpace
             long == Unwrapped(g, seq)
             entry == g.history[long]
             e == GetFeedback(g, seq, received)
             D == IF received THEN DOMAIN g.history \ {long} ELSE DOMAIN g.history
             passed == long \in DOMAIN g.history /\ entry.sent # kNoSendTime
             new == [reported |-> p, found |-> entry.packet, received |-> received,
                     arrival |-> NewOffset(f) + (f.time - f.refTime), arrived |-> f.time]
             new_feedbacks == acc.feedbacks \cup (IF passed THEN {new} ELSE {})
             result == WithStatus(acc, f, p)
  <1>1. result = [h |-> e, feedbacks |-> new_feedbacks] BY DEF WithStatus, Finds
  <1>2. result.h = e /\ result.feedbacks = new_feedbacks BY <1>1
  <1>3. /\ g \in HistoryParts /\ acc.feedbacks \in SUBSET Results /\ SoFar(acc, f)
    BY DEF Vectors
  <1>4. /\ IsHistory(g) /\ DOMAIN g.history \subseteq DOMAIN h.history
        /\ \A l \in DOMAIN g.history : g.history[l] = h.history[l]
        /\ g.lastUnwrapped \in Nat
    BY <1>3, PartIs
  <1>5. p \in Nat /\ seq \in 0 .. SeqSpace - 1
    <2>1. p \in Nat BY DEF Feedback, FeedbackInv, SenderTyped
    <2> QED BY <2>1, Divided
  <1> HIDE DEF result
  <1>6. long \in Nat BY <1>4, <1>5, UnwrappedNat
  <1>7. received \in BOOLEAN OBVIOUS
  <1>8. Exact(g) BY <1>3 DEF SoFar
  <1>9. /\ IsHistory(e) /\ Exact(e) /\ e.history = Restrict(g.history, D)
        /\ e.lastAck = IF g.lastAck >= long THEN g.lastAck ELSE long
        /\ e.lastUnwrapped = long
    <2> HIDE DEF g, seq, received
    <2> QED BY <1>4, <1>5, <1>7, <1>8, GetFeedbackIs
  <1> HIDE DEF e
  <1>10. e \in HistoryParts /\ DOMAIN e.history = D
    <2>1. D \subseteq DOMAIN g.history OBVIOUS
    <2> HIDE DEF D, g
    <2> QED BY <1>3, <1>6, <1>9, <2>1, PartOfPart
  <1>11. passed => new \in Results
    <2> SUFFICES ASSUME passed PROVE new \in Results
      OBVIOUS
    <2>1. entry \in Entries BY <1>4 DEF IsHistory
    <2>2. entry.packet \in Nat BY <2>1 DEF Entries
    <2>3. NewOffset(f) + (f.time - f.refTime) \in Int /\ f.time \in Int
      BY OffsetTyped DEF Feedback
    <2> HIDE DEF entry, received, passed
    <2> QED BY <1>5, <1>7, <2>2, <2>3 DEF Results
  <1>12. new_feedbacks \in SUBSET Results BY <1>3, <1>11
  <1>13. Gone(result) = Gone(acc) \cup (DOMAIN g.history \ D) BY <1>2, <1>4, <1>10 DEF Gone
  <1>14. DOMAIN g.history \ D = IF received /\ long \in DOMAIN g.history THEN {long} ELSE {}
    OBVIOUS
  <1>15. /\ new.reported = p /\ new.found = entry.packet
         /\ new.received = received
         /\ new.arrival = NewOffset(f) + (f.time - f.refTime) /\ new.arrived = f.time
    OBVIOUS
  <1>16. \A r \in new_feedbacks : r \in acc.feedbacks \/ (passed /\ r = new) OBVIOUS
  <1>17. acc.feedbacks \subseteq new_feedbacks /\ (passed => new \in new_feedbacks) OBVIOUS
  <1> HIDE DEF new, new_feedbacks, D
  <1>18. ASSUME NEW r \in new_feedbacks
         PROVE  /\ r.arrival = NewOffset(f) + (f.time - f.refTime) /\ r.arrived = f.time
                /\ r.received => \E l \in Gone(result) : r.found = h.history[l].packet
    <2>1. CASE r \in acc.feedbacks BY <1>3, <1>13, <2>1 DEF SoFar
    <2>2. CASE passed /\ r = new
      <3>1. received => long \in Gone(result) BY <1>13, <1>14, <2>2
      <3>2. r.found = h.history[long].packet BY <1>4, <1>15, <2>2
      <3>3. r.received => received BY <1>15, <2>2
      <3>4. r.arrival = NewOffset(f) + (f.time - f.refTime) /\ r.arrived = f.time
        BY <1>15, <2>2
      <3> QED BY <3>1, <3>2, <3>3, <3>4
    <2> QED BY <1>16, <2>1, <2>2
  <1>19. ASSUME InTime
         PROVE  /\ e.lastAck < next
                /\ UnwrapperNear(e.lastUnwrapped)
                /\ \A r \in new_feedbacks : r.found = r.reported
                /\ \A l \in Gone(result) :
                     \E r \in new_feedbacks : r.received /\ r.found = h.history[l].packet
    <2>1. /\ g.lastAck < next /\ UnwrapperNear(g.lastUnwrapped)
          /\ \A r \in acc.feedbacks : r.found = r.reported
          /\ \A l \in Gone(acc) :
               \E r \in acc.feedbacks : r.received /\ r.found = h.history[l].packet
      BY <1>3, <1>19 DEF SoFar
    <2>2. long = p /\ UnwrapperNear(p)
      <3> HIDE DEF g
      <3> QED BY <1>4, <1>19, <2>1, StatusUnwrapped
    <2> HIDE DEF long
    <2>3. Aligned BY <1>19 DEF FeedbackInv
    <2>4. e.lastAck < next
      <3>1. p < next BY <1>5 DEF FeedbackInv, SenderTyped, Feedback
      <3> QED BY <1>9, <2>1, <2>2, <3>1
    <2>5. UnwrapperNear(e.lastUnwrapped) BY <1>9, <2>2
    <2>6. passed => new.found = new.reported BY <1>4, <1>15, <2>2, <2>3 DEF Aligned
    <2>7. ASSUME received, long \in DOMAIN g.history
          PROVE  passed /\ new.received /\ new.found = h.history[long].packet
      <3>1. p \in Sent BY <2>7 DEF Feedback
      <3>2. h.history[long].sent >= 0 BY <1>4, <2>2, <2>3, <2>7, <3>1 DEF Aligned
      <3>3. entry = h.history[long] BY <1>4, <2>7
      <3>4. entry.sent # kNoSendTime BY <3>2, <3>3 DEF kNoSendTime
      <3>5. passed BY <2>7, <3>4
      <3>6. new.received BY <1>15, <2>7
      <3> QED BY <1>15, <3>3, <3>5, <3>6
    <2>8. ASSUME NEW l \in Gone(result)
          PROVE  \E r \in new_feedbacks : r.received /\ r.found = h.history[l].packet
      <3>1. CASE l \in Gone(acc) BY <1>17, <2>1, <3>1
      <3>2. CASE l \in DOMAIN g.history \ D
        <4>1. received /\ long \in DOMAIN g.history /\ l = long BY <1>14, <3>2
        <4>2. passed /\ new.received /\ new.found = h.history[long].packet BY <2>7, <4>1
        <4>3. new \in new_feedbacks BY <1>17, <4>2
        <4> HIDE DEF passed, received
        <4> QED BY <4>1, <4>2, <4>3
      <3> QED BY <1>13, <3>1, <3>2
    <2>9. \A r \in new_feedbacks : r.found = r.reported BY <1>16, <2>1, <2>6
    <2> QED BY <2>4, <2>5, <2>8, <2>9
  <1>20. SoFar(result, f)
    <2> HIDE DEF g, received, entry, passed
    <2> QED BY <1>2, <1>9, <1>18, <1>19 DEF SoFar
  <1>21. result \in [h : HistoryParts, feedbacks : SUBSET Results]
    <2> HIDE DEF g, received, entry, passed, long
    <2> QED BY <1>1, <1>10, <1>12 DEF result
  <1>22. result \in Vectors(f)
    <2> HIDE DEF g, received, entry, passed, long
    <2> QED BY <1>20, <1>21 DEF Vectors
  <1> QED BY <1>22 DEF result

LEMMA VectorKeeps ==
  ASSUME FeedbackInv, NEW f, Feedback(f), next - f.base <= network.maxLag
  PROVE  PacketFeedbackVector(f) \in Vectors(f)
  <1> DEFINE n == Max(f.received) - f.base + 1
             V == Vectors(f)
             start == [h |-> h, feedbacks |-> {}]
             With(v, k) == WithStatus(v, f, f.base + k)
             Defined(g) == g = [k \in 0 .. n |-> IF k = 0 THEN start
                                                 ELSE WithStatus(g[k - 1], f, f.base + (k - 1))]
             vector == CHOOSE g : Defined(g)
             steps == [k \in 0 .. n - 1 |-> [v \in V |-> With(v, k)]]
  <1>1. PacketFeedbackVector(f) = vector[n] BY DEF PacketFeedbackVector
  <1>2. f.base \in Nat /\ next \in Nat BY DEF Feedback, FeedbackInv, SenderTyped
  <1>3. Max(f.received) \in f.base .. next - 1
    <2>1. f.received # {} /\ f.received \subseteq f.base .. next - 1 BY DEF Feedback
    <2>2. f.base \in Int /\ next - 1 \in Int BY <1>2
    <2>3. Max(f.received) \in f.received BY <2>1, <2>2, GreatestElement
    <2> QED BY <2>1, <2>3
  <1>4. n \in Nat /\ f.base + n <= next
    <2> DEFINE m == Max(f.received)
    <2>1. m \in f.base .. next - 1 /\ n = m - f.base + 1 BY <1>3
    <2> HIDE DEF m, n
    <2> QED BY <1>2, <2>1
  <1> HIDE DEF n
  <1>5. start \in V
    <2>1. /\ IsHistory(h) /\ Exact(h) /\ h.lastUnwrapped \in Nat
          /\ h = History(h.history, h.inFlight, h.lastAck, h.lastUnwrapped)
      <3>1. next # first BY <1>2 DEF Feedback, FeedbackInv, SenderTyped
      <3> QED BY <3>1 DEF FeedbackInv, HistoryKept, IsHistory
    <2>2. h.history = Restrict(h.history, DOMAIN h.history) BY <2>1 DEF Restrict, IsHistory
    <2>3. h \in HistoryParts
      <3>1. h = History(Restrict(h.history, DOMAIN h.history), h.inFlight, h.lastAck,
                        h.lastUnwrapped)
        BY <2>1, <2>2
      <3>2. h.inFlight \in Int /\ h.lastAck \in {Unset} \cup Nat BY <2>1 DEF IsHistory
      <3>3. DOMAIN h.history \in SUBSET DOMAIN h.history OBVIOUS
      <3> QED BY <2>1, <3>1, <3>2, <3>3 DEF HistoryParts
    <2>4. start.h = h /\ start.feedbacks = {} OBVIOUS
    <2>5. Gone(start) = {} BY <2>4 DEF Gone
    <2>6. start \in [h : HistoryParts, feedbacks : SUBSET Results] BY <2>3
    <2> HIDE DEF start
    <2>7. SoFar(start, f) BY <2>1, <2>4, <2>5 DEF SoFar, FeedbackInv, Aligned
    <2> QED BY <2>6, <2>7 DEF Vectors
  <1>6. \A k \in 0 .. n - 1 : \A v \in V : With(v, k) \in V
    <2> SUFFICES ASSUME NEW k \in 0 .. n - 1, NEW v \in V PROVE With(v, k) \in V
      OBVIOUS
    <2>1. f.base + k \in f.base .. next - 1 BY <1>2, <1>4
    <2> QED BY <2>1, WithStatusKeeps
  <1> HIDE DEF V, vector, start
  <1>7. steps \in Recursions(n, V) BY <1>6 DEF Recursions
  <1>8. \A k \in 0 .. n - 1 : \A v \in V : steps[k][v] = With(v, k) OBVIOUS
  <1> HIDE DEF steps
  <1>9. PICK g \in [0 .. n -> V] :
          g[0] = start /\ \A k \in 0 .. n - 1 : g[k + 1] = steps[k][g[k]]
    <2>1. \E g : g \in DefinedBy(n, V, start, steps)
      BY <1>4, <1>5, <1>7, RecursiveFunction
    <2> QED BY <2>1 DEF DefinedBy
  <1>10. \A k \in 0 .. n :
           g[k] = IF k = 0 THEN start ELSE WithStatus(g[k - 1], f, f.base + (k - 1))
    <2> SUFFICES ASSUME NEW k \in 0 .. n, k # 0
                 PROVE  g[k] = WithStatus(g[k - 1], f, f.base + (k - 1))
      BY <1>9
    <2>1. k - 1 \in 0 .. n - 1 /\ (k - 1) + 1 = k /\ g[k - 1] \in V BY <1>4
    <2> QED BY <1>8, <1>9, <2>1
  <1>11. Defined(g) BY <1>10
  <1>12. Defined(vector)
    <2> HIDE DEF Defined
    <2> QED BY <1>11 DEF vector
  <1>13. vector[0] = start BY <1>4, <1>12
  <1>14. \A k \in 0 .. n - 1 : vector[k + 1] = With(vector[k], k)
    <2> SUFFICES ASSUME NEW k \in 0 .. n - 1 PROVE vector[k + 1] = With(vector[k], k)
      OBVIOUS
    <2>1. k + 1 \in 0 .. n /\ k + 1 # 0 /\ (k + 1) - 1 = k BY <1>4
    <2> QED BY <1>12, <2>1
  <1>15. \A k \in 0 .. n : vector[k] \in V
    <2> DEFINE T == {k \in 0 .. n : vector[k] \in V}
    <2>1. 0 \in T BY <1>4, <1>5, <1>13
    <2>2. ASSUME NEW k \in 0 .. n - 1, k \in T PROVE k + 1 \in T
      <3>1. k + 1 \in 0 .. n BY <1>4
      <3> HIDE DEF Defined, With
      <3> QED BY <1>6, <1>14, <2>2, <3>1
    <2> HIDE DEF T
    <2>3. \A k \in 0 .. n : k \in T BY <1>4, <2>1, <2>2, InductionUpTo
    <2> QED BY <2>3 DEF T
  <1>16. vector[n] \in V BY <1>4, <1>15
  <1> QED BY <1>1, <1>16 DEF V

LEMMA FeedbackKeeps ==
  ASSUME FeedbackInv, NEW f \in net, OnTransportFeedback(f)
  PROVE  FeedbackInv'
  <1> DEFINE vector == PacketFeedbackVector(f)
             g == vector.h
             found == {r.found : r \in {r \in vector.feedbacks : r.received}}
  <1>1. /\ next - f.base <= network.maxLag
        /\ h' = vector.h
        /\ msg' = vector.feedbacks
        /\ delivered' = [p \in DOMAIN delivered |->
                           delivered[p] + IF p \in found THEN 1 ELSE 0]
        /\ offset' = NewOffset(f)
        /\ lastRef' = f.ref
        /\ pacer' = h'.inFlight
        /\ UNCHANGED <<phase, length, first, next>>
        /\ UNCHANGED <<now, time, highest, behind>>
        /\ UNCHANGED <<net, rbase, rtime, network>>
    BY DEF OnTransportFeedback, receiverVars, clocks
  <1>2. Feedback(f) BY DEF FeedbackInv, ReceiverKept
  <1>3. vector \in Vectors(f) BY <1>1, <1>2, VectorKeeps
  <1> HIDE DEF vector
  <1>4. g \in HistoryParts /\ vector.feedbacks \in SUBSET Results /\ SoFar(vector, f)
    BY <1>3 DEF Vectors
  <1>5. /\ IsHistory(g) /\ DOMAIN g.history \subseteq DOMAIN h.history
        /\ \A l \in DOMAIN g.history : g.history[l] = h.history[l]
        /\ g.lastUnwrapped \in Nat
    BY <1>4, PartIs
  <1>6. Exact(g) BY <1>4 DEF SoFar
  <1>7. /\ first \in Nat /\ next \in Nat /\ next > first /\ now \in Nat
    BY <1>2 DEF Feedback, FeedbackInv, SenderTyped
  <1>8. \A p \in found : \E l \in DOMAIN h.history \ DOMAIN g.history : p = h.history[l].packet
    <2> SUFFICES ASSUME NEW r \in vector.feedbacks, r.received
                 PROVE  \E l \in Gone(vector) : r.found = h.history[l].packet
      BY DEF Gone
    <2> QED BY <1>4 DEF SoFar
  <1> HIDE DEF found, g
  <1>9. h' = g BY <1>1 DEF g
  <1>10. SenderTyped'
    <2>1. pacer' \in Nat BY <1>1, <1>5, <1>6, <1>9, InFlightNat
    <2>2. offset' \in Int /\ lastRef' \in 0 .. RefSpan - 1 BY <1>1, <1>2, OffsetTyped
    <2> QED BY <1>1, <2>1, <2>2 DEF FeedbackInv, SenderTyped
  <1>11. HistoryKept'
    <2>1. Recorded' = Recorded BY <1>1 DEF Recorded
    <2>2. \A l \in DOMAIN h'.history :
            /\ h'.history[l].packet \in Recorded'
            /\ h'.history[l].created <= highest'
      BY <1>1, <1>5, <1>9, <2>1 DEF FeedbackInv, HistoryKept
    <2>3. next' # first' BY <1>1, <1>7
    <2> QED BY <1>5, <1>6, <1>9, <2>2, <2>3 DEF HistoryKept
  <1>12. ReceiverKept' BY <1>1 DEF FeedbackInv, ReceiverKept, Feedback, Sent
  <1>13. DeliveredOnce'
    <2>1. DeliveredOnce BY DEF FeedbackInv
    <2>2. Recorded' = Recorded /\ DOMAIN delivered = Recorded BY <1>1, <2>1 DEF Recorded, DeliveredOnce
    <2>3. \A p \in Recorded : delivered[p] \in Nat BY <2>1 DEF DeliveredOnce
    <2>4. \A p \in Recorded : delivered'[p] = delivered[p] + IF p \in found THEN 1 ELSE 0
      BY <1>1, <2>2
    <2>5. \A p \in Recorded : p \in found => delivered[p] = 0
      BY <1>8, <2>1 DEF DeliveredOnce
    <2>6. delivered' \in [Recorded' -> Nat]
      <3>1. DOMAIN delivered' = Recorded BY <1>1, <2>2
      <3>2. \A p \in Recorded : (delivered[p] + IF p \in found THEN 1 ELSE 0) \in Nat
        BY <2>3
      <3> QED BY <1>1, <2>2, <3>2
    <2>7. ReceivedOnce'
      <3>1. \A p \in Recorded : delivered[p] <= 1 BY <2>1, <2>2 DEF DeliveredOnce, ReceivedOnce
      <3>2. DOMAIN delivered' = Recorded BY <1>1, <2>2
      <3>3. ASSUME NEW p \in Recorded PROVE delivered'[p] <= 1
        BY <2>3, <2>4, <2>5, <3>1
      <3> QED BY <3>2, <3>3 DEF ReceivedOnce
    <2>8. \A l \in DOMAIN g.history : h.history[l].packet \in Recorded \ found
      <3> SUFFICES ASSUME NEW l \in DOMAIN g.history, h.history[l].packet \in found
                   PROVE  FALSE
        BY <1>5 DEF FeedbackInv, HistoryKept
      <3>1. PICK m \in DOMAIN h.history \ DOMAIN g.history :
              h.history[l].packet = h.history[m].packet
        BY <1>8
      <3>2. l = m BY <1>5, <2>1, <3>1 DEF DeliveredOnce
      <3> QED BY <3>1, <3>2
    <2>9. \A l \in DOMAIN h'.history : delivered'[h'.history[l].packet] = 0
      <3> SUFFICES ASSUME NEW l \in DOMAIN g.history PROVE delivered'[g.history[l].packet] = 0
        BY <1>9
      <3>1. g.history[l] = h.history[l] /\ delivered[h.history[l].packet] = 0
        BY <1>5, <2>1 DEF DeliveredOnce
      <3> QED BY <2>4, <2>8, <3>1
    <2>10. \A l, m \in DOMAIN h'.history :
             h'.history[l].packet = h'.history[m].packet => l = m
      BY <1>5, <1>9, <2>1 DEF DeliveredOnce
    <2> QED BY <2>6, <2>7, <2>9, <2>10 DEF DeliveredOnce
  <1>14. InTime' => Aligned'
    <2> SUFFICES ASSUME InTime' PROVE Aligned'
      OBVIOUS
    <2>1. InTime BY <1>1 DEF InTime
    <2>2. Aligned BY <2>1 DEF FeedbackInv
    <2>3. /\ g.lastAck < next
          /\ UnwrapperNear(g.lastUnwrapped)
          /\ \A r \in vector.feedbacks : r.found = r.reported
      BY <1>4, <2>1 DEF SoFar, g
    <2>4. Sent' = Sent BY <1>1 DEF Sent
    <2>5. UnwrapperNear(h.lastUnwrapped)' BY <1>1, <1>9, <2>3 DEF UnwrapperNear
    <2>6. h'.lastAck < next' /\ \A r \in msg' : r.found = r.reported BY <1>1, <1>9, <2>3
    <2>7. /\ \A l \in DOMAIN h'.history : h'.history[l].packet = l
          /\ \A l \in DOMAIN h'.history : l \in Sent' => h'.history[l].sent >= 0
          /\ \A l, m \in DOMAIN h'.history :
               l < m => h'.history[l].created <= h'.history[m].created + behind'
          /\ \A l \in DOMAIN h'.history :
               now' - h'.history[l].created <= AgeLimit + behind'
      BY <1>1, <1>5, <1>9, <2>2, <2>4 DEF Aligned
    <2> QED BY <2>5, <2>6, <2>7 DEF Aligned
  <1>15. PacerInStep' BY <1>1 DEF PacerInStep
  <1> QED BY <1>10, <1>11, <1>12, <1>13, <1>14, <1>15 DEF FeedbackInv

LEMMA InvNext == FeedbackInv /\ [Next]_vars => FeedbackInv'
  <1> SUFFICES ASSUME FeedbackInv, [Next]_vars PROVE FeedbackInv'
    OBVIOUS
  <1>1. CASE InsertPacket BY <1>1, InsertKeeps
  <1>2. CASE OnAddPacket BY <1>2, AddKeeps
  <1>3. CASE OnPacketSent BY <1>3, SentKeeps
  <1>4. CASE ReceiverReports BY <1>4, ReportsKeeps
  <1>5. CASE ReceiverStartsOver BY <1>5, StartsOverKeeps
  <1>6. CASE \E f \in net : OnTransportFeedback(f) BY <1>6, FeedbackKeeps
  <1>7. CASE UNCHANGED vars
    <2>1. UNCHANGED <<senderVars, network>> /\ UNCHANGED <<net, rbase, rtime>>
      BY <1>7 DEF vars, receiverVars
    <2>2. ReceiverKept' BY <2>1 DEF FeedbackInv, ReceiverKept, Feedback, Sent, senderVars
    <2> QED BY <2>1, <2>2, ReceiverLeaves
  <1> QED BY <1>1, <1>2, <1>3, <1>4, <1>5, <1>6, <1>7 DEF Next

THEOREM TransportInvariant == Spec => []FeedbackInv
  <1>1. Init => FeedbackInv BY InvInit
  <1>2. FeedbackInv /\ [Next]_vars => FeedbackInv' BY InvNext
  <1> QED BY <1>1, <1>2, PTL DEF Spec

\* The adapter's, the pacer's and the history's variables have their types: the
\* unwrapped numbers and the bytes in flight never fall below zero.
THEOREM TransportTypeCorrect == Spec => []TypeOK
  <1>1. FeedbackInv => TypeOK BY InvImplies
  <1> QED BY <1>1, TransportInvariant, PTL

\* in_flight_bytes_ is the sum over the packets in flight, for any feedbacks, late
\* ones that are taken for others included.
THEOREM InFlightIsExact == Spec => []InFlightExact
  <1>1. FeedbackInv => InFlightExact BY InvImplies
  <1> QED BY <1>1, TransportInvariant, PTL

\* Feedbacks less than half the sequence space late are matched with their packets.
THEOREM NothingIsAliased == Spec => []NoAliasing
  <1>1. FeedbackInv => NoAliasing BY InvImplies
  <1> QED BY <1>1, TransportInvariant, PTL

\* No packet is reported received to the controller twice, whatever feedbacks come.
THEOREM ReceivedIsToldOnce == Spec => []ReceivedOnce
  <1>1. FeedbackInv => ReceivedOnce BY InvImplies
  <1> QED BY <1>1, TransportInvariant, PTL

\* While feedbacks are in time, RemoveOld leaves no packet that is older than the
\* window by more than the clock was ever behind its highest: for a clock that is
\* never set back, none older than the window.
THEOREM HistoryStaysInWindow == Spec => []HistoryInWindow
  <1>1. FeedbackInv => HistoryInWindow BY InvImplies
  <1> QED BY <1>1, TransportInvariant, PTL

\* Between two packets the pacer's outstanding data is the history's.
THEOREM PacerStaysInStep == Spec => []PacerInStep
  <1>1. FeedbackInv => PacerInStep BY InvImplies
  <1> QED BY <1>1, TransportInvariant, PTL

(***************************************************************************)
(* What a step may not do                                                  *)
(***************************************************************************)
\* Only the feedback that reports a packet received, or its age, takes it out of the
\* history, while feedbacks are in time: GetFeedback leaves the packets reported lost.
THEOREM LostPacketsStayKnown == Spec => LostStaysKnown
  <1> DEFINE Known ==
        \A l \in DOMAIN h.history \ DOMAIN h'.history :
          \/ delivered'[h.history[l].packet] > delivered[h.history[l].packet]
          \/ now' - h.history[l].created > AgeLimit
          \/ ~InTime
  <1>1. FeedbackInv /\ [Next]_vars => [Known]_vars
    <2> SUFFICES ASSUME FeedbackInv, Next,
                        NEW l \in DOMAIN h.history \ DOMAIN h'.history, InTime
                 PROVE  \/ delivered'[h.history[l].packet] > delivered[h.history[l].packet]
                        \/ now' - h.history[l].created > AgeLimit
      OBVIOUS
    <2>1. CASE h' = h BY <2>1
    <2>2. CASE OnAddPacket
      <3>1. h' = AddNewPacket(RemoveOld(h, now'), next % SeqSpace,
                              [packet |-> next, size |-> length, sent |-> kNoSendTime,
                               created |-> now'])
        BY <2>2 DEF OnAddPacket
      <3> DEFINE t == now'
                 o == RemoveOld(h, t)
                 e == [packet |-> next, size |-> length, sent |-> kNoSendTime, created |-> t]
      <3>2. now' = t /\ h' = AddNewPacket(o, next % SeqSpace, e) BY <3>1
      <3>3. t \in Nat /\ next \in Nat
        <4>1. next \in Nat BY DEF FeedbackInv, SenderTyped
        <4>2. PICK ms \in network.elapsed : SetClocks(now + ms.sender, time + ms.receiver)
          BY <2>2 DEF OnAddPacket
        <4>3. SenderTyped BY DEF FeedbackInv
        <4>4. now + ms.sender \in Int /\ time + ms.receiver \in Int
          BY <4>2, <4>3, LagOfNetwork DEF SenderTyped
        <4> QED BY <4>1, <4>2, <4>3, <4>4, ClocksAreSet
      <3>4. e \in Entries /\ e.sent = kNoSendTime
        <4>1. length \in PacketSizes BY DEF FeedbackInv, SenderTyped
        <4> HIDE DEF t
        <4> QED BY <3>3, <4>1 DEF Entries
      <3> HIDE DEF t, e
      <3>5. IsHistory(h) /\ Exact(h) BY DEF FeedbackInv, HistoryKept
      <3>6. /\ IsHistory(o) /\ Exact(o)
            /\ DOMAIN o.history = DOMAIN h.history \ OldOnes(h, t)
        BY <3>3, <3>5, RemoveOldIs
      <3> HIDE DEF o
      <3>7. next % SeqSpace \in 0 .. SeqSpace - 1 BY <3>3, Divided
      <3>8. DOMAIN h'.history = DOMAIN o.history \cup {Unwrapped(o, next % SeqSpace)}
        BY <3>2, <3>4, <3>6, <3>7, AddNewPacketIs
      <3>9. l \in OldOnes(h, t) BY <3>6, <3>8
      <3>10. l \in Nat BY DEF FeedbackInv, HistoryKept, IsHistory
      <3>11. ~(t - h.history[l].created <= AgeLimit) BY <3>9, <3>10 DEF OldOnes
      <3>12. h.history[l].created \in Nat
        <4>1. h.history[l] \in Entries BY <3>5 DEF IsHistory
        <4> QED BY <4>1 DEF Entries
      <3> QED BY <3>2, <3>3, <3>11, <3>12, HistoryConstants
    <2>3. CASE OnPacketSent
      <3>1. /\ IsHistory(h) /\ Exact(h) /\ now \in Nat /\ next - 1 \in Int
        BY DEF FeedbackInv, HistoryKept, SenderTyped
      <3>2. (next - 1) % SeqSpace \in 0 .. SeqSpace - 1 BY <3>1, Divided
      <3>3. DOMAIN h'.history = DOMAIN h.history
        BY <2>3, <3>1, <3>2, OnSentPacketIs DEF OnPacketSent
      <3> QED BY <3>3
    <2>4. ASSUME NEW f \in net, OnTransportFeedback(f)
          PROVE  delivered'[h.history[l].packet] > delivered[h.history[l].packet]
      <3> DEFINE vector == PacketFeedbackVector(f)
                 found == {r.found : r \in {r \in vector.feedbacks : r.received}}
                 p == h.history[l].packet
      <3>1. /\ next - f.base <= network.maxLag
            /\ h' = vector.h
            /\ delivered' = [q \in DOMAIN delivered |->
                               delivered[q] + IF q \in found THEN 1 ELSE 0]
        BY <2>4 DEF OnTransportFeedback
      <3>2. Feedback(f) BY DEF FeedbackInv, ReceiverKept
      <3>3. SoFar(vector, f) BY <3>1, <3>2, VectorKeeps DEF Vectors
      <3> HIDE DEF vector
      <3>4. l \in Gone(vector) BY <3>1 DEF Gone
      <3>5. PICK r \in vector.feedbacks : r.received /\ r.found = p
        BY <3>3, <3>4 DEF SoFar
      <3>6. p \in found BY <3>5
      <3>7. p \in DOMAIN delivered /\ delivered[p] \in Nat
        BY DEF FeedbackInv, HistoryKept, DeliveredOnce
      <3> HIDE DEF found, p
      <3>8. delivered'[p] = delivered[p] + 1 BY <3>1, <3>6, <3>7
      <3>9. delivered'[p] > delivered[p] BY <3>7, <3>8
      <3> QED BY <3>9 DEF p
    <2>5. InsertPacket => h' = h BY DEF InsertPacket
    <2>6. ReceiverReports \/ ReceiverStartsOver => h' = h
      BY DEF ReceiverReports, ReceiverStartsOver, senderVars
    <2> QED BY <2>1, <2>2, <2>3, <2>4, <2>5, <2>6 DEF Next
  <1>2. Spec => []FeedbackInv BY TransportInvariant
  <1>3. Spec => [][Known]_vars BY <1>1, <1>2, PTL DEF Spec
  <1> QED BY <1>3 DEF LostStaysKnown

\* What is added to the receiver's times, since the first feedback, while no reference
\* time has wrapped.
ClockKept ==
  /\ rtime < RefSpan
  /\ \A f \in net : f.refTime < RefSpan
  /\ lastRef = Unset => msg = {}
  /\ \A r \in msg : /\ r.arrival \in Int /\ r.arrived \in Int
                    /\ r.arrival - r.arrived = offset - lastRef

LEMMA ClockStep ==
  ASSUME FeedbackInv, ClockKept, time < RefSpan, [Next]_vars
  PROVE  /\ ClockKept'
         /\ \A r \in msg, s \in msg' : s.arrival - r.arrival = s.arrived - r.arrived
  <1>1. offset \in Int /\ lastRef \in Int BY DEF FeedbackInv, SenderTyped, Unset
  <1> DEFINE NoWrap == rtime < RefSpan /\ \A f \in net : f.refTime < RefSpan
  <1>5. NoWrap'
    <2>1. NoWrap BY DEF ClockKept
    <2>2. CASE ReceiverReports
      <3>1. rtime' = time /\ \A f \in net' : f \in net \/ f.refTime = rtime
        BY <2>2 DEF ReceiverReports
      <3> QED BY <2>1, <3>1, FeedbackConstants
    <2>3. CASE ReceiverStartsOver
      BY <2>1, <2>3, FeedbackConstants DEF ReceiverStartsOver
    <2>4. CASE UNCHANGED <<net, rtime>> BY <2>1, <2>4, FeedbackConstants
    <2>5. UNCHANGED <<net, rtime>> \/ ReceiverReports \/ ReceiverStartsOver
      BY DEF Next, vars, receiverVars, InsertPacket, OnAddPacket, OnPacketSent,
         OnTransportFeedback
    <2> QED BY <2>2, <2>3, <2>4, <2>5
  <1>2. CASE UNCHANGED <<offset, lastRef, msg>>
    <2>1. ClockKept' BY <1>2, <1>5 DEF ClockKept
    <2>2. ASSUME NEW r \in msg, NEW s \in msg
          PROVE  s.arrival - r.arrival = s.arrived - r.arrived
      <3>1. /\ r.arrival \in Int /\ r.arrived \in Int /\ s.arrival \in Int /\ s.arrived \in Int
            /\ r.arrival - r.arrived = offset - lastRef
            /\ s.arrival - s.arrived = offset - lastRef
        BY DEF ClockKept
      <3> QED BY <1>1, <3>1
    <2> QED BY <1>2, <2>1, <2>2
  <1>3. ASSUME NEW f \in net, OnTransportFeedback(f)
        PROVE  /\ ClockKept'
               /\ \A r \in msg, s \in msg' : s.arrival - r.arrival = s.arrived - r.arrived
    <2>1. /\ next - f.base <= network.maxLag
          /\ msg' = PacketFeedbackVector(f).feedbacks
          /\ offset' = NewOffset(f) /\ lastRef' = f.ref
      BY <1>3 DEF OnTransportFeedback
    <2>2. Feedback(f) BY DEF FeedbackInv, ReceiverKept
    <2>3. SoFar(PacketFeedbackVector(f), f) BY <2>1, <2>2, VectorKeeps DEF Vectors
    <2>4. f.refTime \in Nat /\ f.time \in Nat /\ f.ref = f.refTime
      <3>1. /\ f.refTime \in Nat /\ f.time \in Nat /\ f.ref = f.refTime % RefSpan
            /\ f.refTime < RefSpan
        BY <2>2 DEF Feedback, ClockKept
      <3>2. f.refTime \in 0 .. RefSpan - 1 /\ RefSpan \in Nat \ {0} BY <3>1, FeedbackConstants
      <3>3. f.refTime % RefSpan = f.refTime BY <3>2
      <3> QED BY <3>1, <3>3
    <2>5. offset' \in Int /\ lastRef' \in Nat BY <2>1, <2>2, <2>4, OffsetTyped
    <2>6. \A s \in msg' : /\ s.arrival \in Int /\ s.arrived \in Int
                          /\ s.arrival - s.arrived = offset' - lastRef'
      <3> SUFFICES ASSUME NEW s \in msg'
                   PROVE  /\ s.arrival \in Int /\ s.arrived \in Int
                          /\ s.arrival - s.arrived = offset' - lastRef'
        OBVIOUS
      <3>1. s.arrival = offset' + (f.time - f.refTime) /\ s.arrived = f.time
        BY <2>1, <2>3 DEF SoFar
      <3>2. lastRef' = f.refTime BY <2>1, <2>4
      <3> QED BY <2>4, <2>5, <3>1, <3>2
    <2>7. ClockKept' BY <1>5, <2>5, <2>6 DEF ClockKept, Unset
    <2>8. lastRef # Unset => offset' - lastRef' = offset - lastRef
      <3>1. lastRef # Unset => offset' = offset + (f.ref - lastRef) /\ lastRef' = f.ref
        BY <2>1 DEF NewOffset
      <3>2. f.ref \in Nat BY <2>4
      <3> QED BY <1>1, <3>1, <3>2
    <2>9. ASSUME NEW r \in msg, NEW s \in msg'
          PROVE  s.arrival - r.arrival = s.arrived - r.arrived
      <3>1. lastRef # Unset BY DEF ClockKept
      <3>2. /\ r.arrival \in Int /\ r.arrived \in Int
            /\ r.arrival - r.arrived = offset - lastRef
        BY DEF ClockKept
      <3>3. /\ s.arrival \in Int /\ s.arrived \in Int
            /\ s.arrival - s.arrived = offset - lastRef
        BY <2>6, <2>8, <3>1
      <3> QED BY <1>1, <3>2, <3>3
    <2> QED BY <2>7, <2>9
  <1>4. CASE ~ \E f \in net : OnTransportFeedback(f)
    <2>1. UNCHANGED <<offset, lastRef, msg>>
      BY <1>4 DEF Next, InsertPacket, OnAddPacket, OnPacketSent, ReceiverReports,
         ReceiverStartsOver, senderVars, vars
    <2> QED BY <1>2, <2>1
  <1> QED BY <1>3, <1>4

\* As long as the receiver's reference time does not wrap, all arrival times given to the
\* controller are the receiver's but for one offset.  (Once it wraps they are not:
\* GetPacketFeedbackVector takes the difference of the wrapped times.)
THEOREM ArrivalsKeepTheClock == Spec /\ [](time < RefSpan) => ArrivalClock
  <1> DEFINE Same == \A r \in msg, s \in msg' : s.arrival - r.arrival = s.arrived - r.arrived
  <1>1. Init => ClockKept BY FeedbackConstants DEF Init, ClockKept
  <1>2. FeedbackInv /\ ClockKept /\ time < RefSpan /\ [Next]_vars => ClockKept' /\ Same
    BY ClockStep
  <1>3. Spec => []FeedbackInv BY TransportInvariant
  <1>4. Spec /\ [](time < RefSpan) => [][Same]_vars BY <1>1, <1>2, <1>3, PTL DEF Spec
  <1> QED BY <1>4 DEF ArrivalClock
================================================================================
