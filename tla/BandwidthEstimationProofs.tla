----------------------- MODULE BandwidthEstimationProofs -----------------------
(* Proofs about BandwidthEstimation, for all values of its constants. *)
EXTENDS BandwidthEstimation, TLAPS, FiniteSetTheorems, SequenceTheorems

(***************************************************************************)
(* Lemmas about the operators of SendSideBandwidth and AimdRateControl,    *)
(* for any estimation est.                                                 *)
(***************************************************************************)
MaybeTime == {Unset} \cup Nat

\* The history's entries up to time t, and the records of an estimation at t.
Entry(t) == [time : 0 .. t, rate : Nat]

EstimationRecord(t) ==
  [current : Nat, delayBased : Nat, minHistory : Seq(Entry(t)), lost : Nat,
   expected : Nat, loss : 0 .. 255, rtt : Nat, first : MaybeTime, report : MaybeTime,
   decrease : MaybeTime, hasDecreased : BOOLEAN]

Counted(est) == est.lost \in 0 .. est.expected /\ est.expected \in 0 .. kLimitNumPackets - 1

Estimation(t) == {est \in EstimationRecord(t) : Counted(est)}

Control == [current : Nat, state : {"Hold", "Increase"}, changed : MaybeTime,
            throughput : Nat]

\* Between the limits, and below the delay-based estimate.
Fits(est) ==
  /\ est.current \in MinBitrate .. MaxBitrate
  /\ est.delayBased > NoRate => est.current <= AtLeast(est.delayBased, MinBitrate)

(***************************************************************************)
(* The limits                                                              *)
(***************************************************************************)

\* AtLeast and AtMost are bounds, and one of their arguments.
LEMMA AtLeastBounds ==
  ASSUME NEW x \in Int, NEW y \in Int
  PROVE  /\ AtLeast(x, y) >= x /\ AtLeast(x, y) >= y
         /\ AtLeast(x, y) = x \/ AtLeast(x, y) = y
         /\ x \in Nat => AtLeast(x, y) \in Nat
  BY DEF AtLeast

\* AtMost is the lower of its arguments.
LEMMA AtMostBounds ==
  ASSUME NEW x \in Int, NEW y \in Int
  PROVE  /\ AtMost(x, y) <= x /\ AtMost(x, y) <= y
         /\ AtMost(x, y) = x \/ AtMost(x, y) = y
         /\ x \in Nat /\ y \in Nat => AtMost(x, y) \in Nat
  BY DEF AtMost

\* A capped rate is within the limits, and is the rate where these allow it.
LEMMA CappedBounds ==
  ASSUME NEW est, est.delayBased \in Nat, NEW rate \in Nat
  PROVE  /\ Capped(est, rate) \in MinBitrate .. MaxBitrate
         /\ Capped(est, rate) \in Nat
         /\ est.delayBased > NoRate => Capped(est, rate) <= AtLeast(est.delayBased, MinBitrate)
         /\ Capped(est, rate) <= AtLeast(rate, MinBitrate)
         /\ \A least \in MinBitrate .. MaxBitrate :
              rate >= least /\ (est.delayBased > NoRate => est.delayBased >= least)
                => Capped(est, rate) >= least
  BY LimitsAssumption DEF LimitsAssumption, Capped, AtLeast, AtMost, NoRate

\* Capping changes the current rate only.
LEMMA CapTyped ==
  ASSUME NEW t \in Nat, NEW est \in Estimation(t), NEW rate \in Nat
  PROVE  /\ CapBitrateToThresholds(est, rate) \in Estimation(t)
         /\ Fits(CapBitrateToThresholds(est, rate))
         /\ CapBitrateToThresholds(est, rate) = [est EXCEPT !.current = Capped(est, rate)]
         /\ CapBitrateToThresholds(est, rate).current = Capped(est, rate)
  <1>1. est.delayBased \in Nat BY DEF Estimation, EstimationRecord
  <1> DEFINE c == Capped(est, rate)
  <1>2. /\ c \in Nat /\ c \in MinBitrate .. MaxBitrate
        /\ est.delayBased > NoRate => c <= AtLeast(est.delayBased, MinBitrate)
    BY <1>1, CappedBounds
  <1>3. CapBitrateToThresholds(est, rate) = [est EXCEPT !.current = c]
    BY DEF CapBitrateToThresholds
  <1> HIDE DEF c
  <1>4. /\ [est EXCEPT !.current = c] \in EstimationRecord(t)
        /\ [est EXCEPT !.current = c].current = c
        /\ [est EXCEPT !.current = c].delayBased = est.delayBased
        /\ [est EXCEPT !.current = c].lost = est.lost
        /\ [est EXCEPT !.current = c].expected = est.expected
    BY <1>2 DEF Estimation, EstimationRecord
  <1>5. [est EXCEPT !.current = c] \in Estimation(t)
    BY <1>4 DEF Estimation, Counted
  <1> QED BY <1>2, <1>3, <1>4, <1>5 DEF Fits, c

(***************************************************************************)
(* One update of the estimate                                              *)
(***************************************************************************)

\* est and x differ in what an update of the estimate changes only.
Keeps(x, est) ==
  /\ x.delayBased = est.delayBased
  /\ x.lost = est.lost /\ x.expected = est.expected
  /\ x.loss = est.loss /\ x.rtt = est.rtt
  /\ x.first = est.first /\ x.report = est.report

\* Nothing in the history is recent and below the current rate.
Outdated(est, t) ==
  \/ \A i \in DOMAIN est.minHistory : t - est.minHistory[i].time + 1 > kBweIncreaseInterval
  \/ \A i \in DOMAIN est.minHistory : est.current <= est.minHistory[i].rate

NowOnly(est, t) == << [time |-> t, rate |-> est.current] >>

\* Such a history is left with the current rate alone.
LEMMA HistoryIsCurrent ==
  ASSUME NEW t \in Nat, NEW est \in Estimation(t), Outdated(est, t)
  PROVE  /\ UpdateMinHistory(est, t) = [est EXCEPT !.minHistory = NowOnly(est, t)]
         /\ NowOnly(est, t) \in Seq(Entry(t))
  <1> DEFINE h == est.minHistory
             old == {i \in DOMAIN h : t - h[i].time + 1 > kBweIncreaseInterval}
             high == {i \in DOMAIN h : est.current <= h[i].rate}
             m == Cardinality(old) + 1
             n == AtLeast(Len(h) - Cardinality(high), Cardinality(old))
  <1>1. h \in Seq(Entry(t)) /\ est.current \in Nat BY DEF Estimation, EstimationRecord
  <1>2. Len(h) \in Nat /\ DOMAIN h = 1 .. Len(h) BY <1>1
  <1>3. IsFiniteSet(DOMAIN h) /\ Cardinality(DOMAIN h) = Len(h)
    <2> DEFINE k == Len(h)
    <2>1. k \in Nat /\ DOMAIN h = 1 .. k BY <1>2
    <2> HIDE DEF k
    <2>2. IsFiniteSet(1 .. k) /\ Cardinality(1 .. k) = IF 1 > k THEN 0 ELSE k - 1 + 1
      BY <2>1, FS_Interval
    <2>3. Cardinality(1 .. k) = k BY <2>1, <2>2
    <2> QED BY <2>1, <2>2, <2>3 DEF k
  <1>4. old \in SUBSET DOMAIN h /\ high \in SUBSET DOMAIN h OBVIOUS
  <1>5. Cardinality(old) \in Nat /\ Cardinality(high) \in Nat
    BY <1>3, <1>4, FS_Subset, FS_CardinalityType
  <1>6. old = DOMAIN h \/ high = DOMAIN h BY DEF Outdated
  <1>7. Cardinality(old) = Len(h) \/ Cardinality(high) = Len(h) BY <1>3, <1>6
  <1> HIDE DEF old, high
  <1>8. m \in Int /\ n \in Int /\ n < m BY <1>2, <1>5, <1>7 DEF AtLeast
  <1>9. SubSeq(h, m, n) = << >> BY <1>8, SubSeqEmpty
  <1>10. Append(<< >>, [time |-> t, rate |-> est.current]) = NowOnly(est, t) BY DEF NowOnly
  <1>11. UpdateMinHistory(est, t)
           = [est EXCEPT !.minHistory =
                Append(SubSeq(h, m, n), [time |-> t, rate |-> est.current])]
    BY DEF UpdateMinHistory, old, high
  <1>12. UpdateMinHistory(est, t) = [est EXCEPT !.minHistory = NowOnly(est, t)]
    BY <1>9, <1>10, <1>11
  <1>13. [time |-> t, rate |-> est.current] \in Entry(t) BY <1>1 DEF Entry
  <1> QED BY <1>12, <1>13 DEF NowOnly

\* The history may be replaced without a change to the rest.
WithHistory(est, h) == [est EXCEPT !.minHistory = h]

\* An estimation with another history is an estimation, and is otherwise the same.
LEMMA HistoryTyped ==
  ASSUME NEW t \in Nat, NEW est \in Estimation(t), NEW h \in Seq(Entry(t))
  PROVE  /\ WithHistory(est, h) \in Estimation(t)
         /\ Keeps(WithHistory(est, h), est)
         /\ WithHistory(est, h).current = est.current
         /\ WithHistory(est, h).minHistory = h
  <1> DEFINE x == WithHistory(est, h)
  <1>1. /\ x \in EstimationRecord(t) /\ Keeps(x, est)
        /\ x.current = est.current /\ x.minHistory = h
    BY DEF Estimation, EstimationRecord, Keeps, WithHistory
  <1>2. Counted(x) BY <1>1 DEF Estimation, Counted, Keeps
  <1> QED BY <1>1, <1>2 DEF Estimation

\* What a rate is after losses, and after a rise by 8% and 1 kbps.
LEMMA LessLossBounds ==
  ASSUME NEW rate \in Nat, NEW loss \in 0 .. 255
  PROVE  /\ LessLoss(rate, loss) \in 0 .. rate
         /\ 2 * LessLoss(rate, loss) >= rate - 1
  <1> DEFINE q == rate \div 512
             r == rate % 512
             k == 512 - loss
  <1>1. q \in Nat /\ r \in 0 .. 511 /\ rate = 512 * q + r /\ k \in 257 .. 512 OBVIOUS
  <1> HIDE DEF q, r, k
  <1>2. q * k \in 257 * q .. 512 * q BY <1>1
  <1>3. r * k \in 257 * r .. 512 * r BY <1>1
  <1>4. (r * k) \div 512 \in 0 .. r /\ 2 * ((r * k) \div 512) >= r - 1
    <2> DEFINE p == r * k
    <2>1. p \in Nat /\ p >= 257 * r /\ p <= 512 * r BY <1>1, <1>3
    <2> HIDE DEF p
    <2>2. p \div 512 \in 0 .. r /\ 2 * (p \div 512) >= r - 1 BY <2>1, <1>1
    <2> QED BY <2>2 DEF p
  <1> DEFINE d == (r * k) \div 512
             e == q * k
  <1>5. LessLoss(rate, loss) = e + d BY DEF LessLoss, q, r, k
  <1>6. e \in 257 * q .. 512 * q /\ d \in 0 .. r /\ 2 * d >= r - 1 BY <1>2, <1>4
  <1> HIDE DEF d, e
  <1> QED BY <1>1, <1>5, <1>6

\* Eight percent more is not less.
LEMMA EightPercentMoreBounds ==
  ASSUME NEW rate \in Nat
  PROVE  EightPercentMore(rate) \in Nat /\ EightPercentMore(rate) >= rate
  BY DEF EightPercentMore

\* The fields of an estimation have their types.
LEMMA FieldsTyped ==
  ASSUME NEW t \in Nat, NEW est \in Estimation(t)
  PROVE  /\ est.current \in Nat /\ est.delayBased \in Nat
         /\ est.loss \in 0 .. 255 /\ est.loss \in Int /\ est.rtt \in Nat
         /\ est.lost \in Nat /\ est.expected \in Nat
         /\ est.lost <= est.expected /\ est.expected <= kLimitNumPackets - 1
         /\ est.first \in MaybeTime /\ est.report \in MaybeTime /\ est.decrease \in MaybeTime
         /\ est.hasDecreased \in BOOLEAN
         /\ est.minHistory \in Seq(Entry(t))
  <1>1. /\ est.current \in Nat /\ est.delayBased \in Nat
        /\ est.loss \in 0 .. 255 /\ est.rtt \in Nat
        /\ est.lost \in Nat /\ est.expected \in Nat
        /\ est.first \in MaybeTime /\ est.report \in MaybeTime /\ est.decrease \in MaybeTime
        /\ est.hasDecreased \in BOOLEAN
        /\ est.minHistory \in Seq(Entry(t))
    BY DEF Estimation, EstimationRecord
  <1>2. Counted(est) BY DEF Estimation
  <1>3. est.lost <= est.expected /\ est.expected <= kLimitNumPackets - 1
    BY <1>2 DEF Counted, kLimitNumPackets
  <1>4. est.loss \in Int
    <2>1. \A x \in 0 .. 255 : x \in Int OBVIOUS
    <2> QED BY <1>1, <2>1
  <1> QED BY <1>1, <1>3, <1>4

\* A decrease is noted without a change to the rest.
LEMMA DecreaseNoted ==
  ASSUME NEW t \in Nat, NEW x \in Estimation(t)
  PROVE  /\ [x EXCEPT !.decrease = t, !.hasDecreased = TRUE] \in Estimation(t)
         /\ Keeps([x EXCEPT !.decrease = t, !.hasDecreased = TRUE], x)
  <1> DEFINE y == [x EXCEPT !.decrease = t, !.hasDecreased = TRUE]
  <1>1. t \in MaybeTime BY DEF MaybeTime
  <1>2. x \in EstimationRecord(t) /\ Counted(x) BY DEF Estimation
  <1>3. y \in EstimationRecord(t) BY <1>1, <1>2 DEF EstimationRecord
  <1>4. Keeps(y, x) BY <1>2 DEF EstimationRecord, Keeps
  <1>5. Counted(y) BY <1>2, <1>4 DEF Counted, Keeps
  <1> QED BY <1>3, <1>4, <1>5 DEF Estimation

(* An update ends in a cap on one of four rates; what else it changes does not *)
(* matter to it.                                                               *)
Ends(u, est, rate, t) ==
  \E x \in Estimation(t) :
    /\ Keeps(x, est)
    /\ u = CapBitrateToThresholds(x, rate)

\* The rates, by the branches of UpdateEstimate.
Trusted(est) == AtLeast(est.delayBased, est.current)
Raised(est) == EightPercentMore(est.current) + 1000
Lowered(est) == LessLoss(est.current, est.loss)

\* What UpdateEstimate does to the rate with a report just taken: it follows the
\* delay-based estimate, rises, falls by the losses, or keeps it but for the limits.
LEMMA UpdateEstimateCases ==
  ASSUME NEW t \in Nat, NEW est \in Estimation(t), Outdated(est, t), est.report = t
  PROVE  LET u == UpdateEstimate(est, t)
         IN \/ est.loss = 0 /\ IsInStartPhase(est, t) /\ Trusted(est) # est.current
               /\ Ends(u, est, Trusted(est), t)
            \/ est.loss <= lowLossThreshold /\ Ends(u, est, Raised(est), t)
            \/ est.loss > highLossThreshold /\ Ends(u, est, Lowered(est), t)
            \/ est.loss > lowLossThreshold /\ Ends(u, est, est.current, t)
  <1> DEFINE u == UpdateEstimate(est, t)
             x == WithHistory(est, NowOnly(est, t))
             y == [x EXCEPT !.decrease = t, !.hasDecreased = TRUE]
             early == est.loss = 0 /\ IsInStartPhase(est, t) /\ Trusted(est) # est.current
  <1>1. /\ UpdateMinHistory(est, t) = x /\ NowOnly(est, t) \in Seq(Entry(t))
    BY HistoryIsCurrent DEF WithHistory
  <1>2. /\ x \in Estimation(t) /\ Keeps(x, est) /\ x.current = est.current
        /\ x.minHistory = NowOnly(est, t)
    BY <1>1, HistoryTyped
  <1>3. est.report # Unset BY DEF Unset
  <1>4. Head(x.minHistory).rate = est.current BY <1>2 DEF NowOnly
  <1>5. est.loss \in Int /\ x.loss = est.loss
    <2>1. est.loss \in Int BY FieldsTyped
    <2> HIDE DEF x
    <2> QED BY <1>2, <2>1 DEF Keeps
  <1>6. CASE early
    <2>1. u = CapBitrateToThresholds(x, Trusted(est))
      BY <1>6 DEF UpdateEstimate, Trusted, NowOnly, WithHistory
    <2> QED BY <1>2, <1>6, <2>1 DEF Ends
  <1>7. CASE ~early
    <2>1. u = ReactToLoss(x, t)
      BY <1>1, <1>3, <1>7 DEF UpdateEstimate, Trusted
    <2>2. CASE est.loss <= lowLossThreshold
      <3>1. ReactToLoss(x, t) = Increase(x)
        <4> HIDE DEF x
        <4> QED BY <1>5, <2>2 DEF ReactToLoss, lowLossThreshold, highLossThreshold
      <3>2. Increase(x) = CapBitrateToThresholds(x, Raised(est))
        BY <1>4 DEF Increase, Raised
      <3> QED BY <1>2, <2>1, <2>2, <3>1, <3>2 DEF Ends
    <2>3. CASE est.loss > highLossThreshold /\ MayDecrease(x, t)
      <3>1. ReactToLoss(x, t) = Decrease(x, t)
        BY <1>5, <2>3 DEF ReactToLoss, lowLossThreshold, highLossThreshold
      <3>2. Decrease(x, t) = CapBitrateToThresholds(y, Lowered(est))
        BY <1>2, <1>5 DEF Decrease, Lowered
      <3>3. y \in Estimation(t) /\ Keeps(y, x)
        <4> HIDE DEF x
        <4> QED BY <1>2, DecreaseNoted
      <3>4. y \in Estimation(t) /\ Keeps(y, est)
        <4> HIDE DEF x, y
        <4> QED BY <1>2, <3>3 DEF Keeps
      <3> QED BY <2>1, <2>3, <3>1, <3>2, <3>4 DEF Ends
    <2>4. CASE /\ est.loss > lowLossThreshold
               /\ ~(est.loss > highLossThreshold /\ MayDecrease(x, t))
      <3>1. ReactToLoss(x, t) = CapBitrateToThresholds(x, est.current)
        BY <1>2, <1>5, <2>4 DEF ReactToLoss, lowLossThreshold
      <3> QED BY <1>2, <2>1, <2>4, <3>1 DEF Ends
    <2> QED BY <1>5, <2>2, <2>3, <2>4 DEF lowLossThreshold
  <1> QED BY <1>6, <1>7

\* What the cap makes of the rate.
LEMMA EndsFacts ==
  ASSUME NEW t \in Nat, NEW est \in Estimation(t), NEW rate \in Nat, NEW u,
         Ends(u, est, rate, t)
  PROVE  /\ u \in Estimation(t) /\ Fits(u) /\ Keeps(u, est)
         /\ u.current \in Nat
         /\ u.current <= AtLeast(rate, MinBitrate)
         /\ Fits(est) => \/ u.current >= rate
                       \/ u.current >= est.current
  <1>1. PICK x \in Estimation(t) : Keeps(x, est) /\ u = CapBitrateToThresholds(x, rate)
    BY DEF Ends
  <1>2. /\ u \in Estimation(t) /\ Fits(u)
        /\ u = [x EXCEPT !.current = Capped(x, rate)]
        /\ u.current = Capped(x, rate)
    BY <1>1, CapTyped
  <1>3. Keeps(u, x) BY <1>2 DEF Keeps, Estimation, EstimationRecord
  <1>4. Keeps(u, est) BY <1>1, <1>3 DEF Keeps
  <1>5. x.delayBased \in Nat /\ x.delayBased = est.delayBased /\ est.current \in Nat
    BY <1>1 DEF Keeps, Estimation, EstimationRecord
  <1>6. /\ u.current \in Nat /\ u.current <= AtLeast(rate, MinBitrate)
        /\ \A least \in MinBitrate .. MaxBitrate :
             rate >= least /\ (x.delayBased > NoRate => x.delayBased >= least)
               => u.current >= least
    BY <1>2, <1>5, CappedBounds
  <1>7. ASSUME Fits(est), rate < est.current
        PROVE  u.current >= rate
    BY <1>2, <1>5, <1>7, LimitsAssumption
    DEF Fits, Capped, AtLeast, AtMost, NoRate, LimitsAssumption
  <1>8. ASSUME Fits(est), rate >= est.current
        PROVE  u.current >= est.current
    BY <1>2, <1>5, <1>8, LimitsAssumption
    DEF Fits, Capped, AtLeast, AtMost, NoRate, LimitsAssumption
  <1> QED BY <1>2, <1>4, <1>5, <1>6, <1>7, <1>8

(***************************************************************************)
(* A loss report                                                           *)
(***************************************************************************)

\* A fraction of losses fits in 8 bits; all lost is the largest.
LEMMA FractionFits ==
  ASSUME NEW expected \in Nat \ {0}, NEW lost \in 0 .. expected
  PROVE  /\ FractionLoss(lost, expected) \in 0 .. 255
         /\ lost = expected => FractionLoss(lost, expected) = 255
  <1> DEFINE q == (lost * 256) \div expected
  <1>1. q \in Int /\ q >= 0 OBVIOUS
  <1>2. ASSUME lost = expected PROVE q = 256
    <2>1. (expected * 256) \div expected = 256 OBVIOUS
    <2> QED BY <1>2, <2>1
  <1>3. FractionLoss(lost, expected) = AtMost(q, 255) BY DEF FractionLoss
  <1> HIDE DEF q
  <1> QED BY <1>1, <1>2, <1>3 DEF AtMost

\* The estimation that a loss report starts with.
Reported(est, lost, expected, t) ==
  [est EXCEPT !.first = IF est.first = Unset THEN t ELSE est.first, !.lost = 0, !.expected = 0,
            !.hasDecreased = FALSE, !.report = t, !.loss = FractionLoss(lost, expected)]

Collected(est, lost, expected, t) ==
  [est EXCEPT !.first = IF est.first = Unset THEN t ELSE est.first,
            !.lost = lost, !.expected = expected]

\* With packets enough a report becomes the loss rate, and the counts start over.
LEMMA ReportedTyped ==
  ASSUME NEW t \in Nat, NEW est \in Estimation(t),
         NEW expected \in Nat \ {0}, NEW lost \in 0 .. expected
  PROVE  LET w == Reported(est, lost, expected, t)
         IN /\ w \in Estimation(t)
            /\ w.current = est.current /\ w.delayBased = est.delayBased
            /\ w.minHistory = est.minHistory
            /\ w.lost = 0 /\ w.expected = 0 /\ w.report = t
            /\ w.loss = FractionLoss(lost, expected)
            /\ w.first = IF est.first = Unset THEN t ELSE est.first
  <1> DEFINE w == Reported(est, lost, expected, t)
  <1>1. est \in EstimationRecord(t) BY DEF Estimation
  <1>2. FractionLoss(lost, expected) \in 0 .. 255 BY FractionFits
  <1>3. (IF est.first = Unset THEN t ELSE est.first) \in MaybeTime BY FieldsTyped DEF MaybeTime
  <1>4. t \in MaybeTime BY DEF MaybeTime
  <1>5. /\ w \in EstimationRecord(t)
        /\ w.current = est.current /\ w.delayBased = est.delayBased
        /\ w.minHistory = est.minHistory
        /\ w.lost = 0 /\ w.expected = 0 /\ w.report = t
        /\ w.loss = FractionLoss(lost, expected)
        /\ w.first = IF est.first = Unset THEN t ELSE est.first
    BY <1>1, <1>2, <1>3, <1>4 DEF EstimationRecord, Reported
  <1> HIDE DEF w
  <1>6. Counted(w) BY <1>5 DEF Counted, kLimitNumPackets
  <1>7. w \in Estimation(t) BY <1>5, <1>6 DEF Estimation
  <1> QED BY <1>5, <1>7 DEF w

\* With packets too few a report is added to the counts, and the loss rate stays.
LEMMA CollectedTyped ==
  ASSUME NEW t \in Nat, NEW est \in Estimation(t),
         NEW expected \in 0 .. kLimitNumPackets - 1, NEW lost \in 0 .. expected
  PROVE  LET w == Collected(est, lost, expected, t)
         IN /\ w \in Estimation(t)
            /\ w.current = est.current /\ w.delayBased = est.delayBased
            /\ w.minHistory = est.minHistory
            /\ w.lost = lost /\ w.expected = expected /\ w.report = est.report
            /\ w.loss = est.loss
  <1> DEFINE w == Collected(est, lost, expected, t)
  <1>1. est \in EstimationRecord(t) BY DEF Estimation
  <1>2. lost \in Nat /\ expected \in Nat BY DEF kLimitNumPackets
  <1>3. (IF est.first = Unset THEN t ELSE est.first) \in MaybeTime BY FieldsTyped DEF MaybeTime
  <1>5. /\ w \in EstimationRecord(t)
        /\ w.current = est.current /\ w.delayBased = est.delayBased
        /\ w.minHistory = est.minHistory
        /\ w.lost = lost /\ w.expected = expected /\ w.report = est.report
        /\ w.loss = est.loss
    BY <1>1, <1>2, <1>3 DEF EstimationRecord, Collected
  <1> HIDE DEF w
  <1>6. Counted(w) BY <1>5 DEF Counted
  <1>7. w \in Estimation(t) BY <1>5, <1>6 DEF Estimation
  <1> QED BY <1>5, <1>7 DEF w

\* What a loss report does to an estimation that fits and whose history is
\* outdated: either the packets are too few and are kept, or the estimate moves as
\* the loss rate tells.
LEMMA PacketsLostFacts ==
  ASSUME NEW t \in Nat, NEW est \in Estimation(t), Fits(est), Outdated(est, t),
         NEW number \in Nat \ {0}, NEW lost \in 0 .. number
  PROVE  LET u == UpdatePacketsLost(est, lost, number, t)
         IN /\ u \in Estimation(t) /\ Fits(u) /\ u.delayBased = est.delayBased
            /\ IF est.expected + number < kLimitNumPackets
               THEN /\ u.current = est.current /\ u.report = est.report
                    /\ u.minHistory = est.minHistory
                    /\ u.lost = est.lost + lost /\ u.expected = est.expected + number
               ELSE u.report = t /\ u.lost = 0 /\ u.expected = 0
            /\ u.current < est.current => u.loss > highLossThreshold
            /\ \/ u.current <= Raised(est)
               \/ u.loss = 0 /\ IsInStartPhase(est, t)
            /\ 2 * u.current >= est.current - 1
            /\ est.delayBased = NoRate /\ est.lost = est.expected /\ lost = number
                 => u.current <= est.current
  <1> DEFINE u == UpdatePacketsLost(est, lost, number, t)
             totalLost == est.lost + lost
             total == est.expected + number
  <1>1. /\ est.current \in Nat /\ est.delayBased \in Nat /\ est.loss \in 0 .. 255
        /\ est.lost \in Nat /\ est.expected \in Nat /\ est.lost <= est.expected
        /\ est.first \in MaybeTime
    BY FieldsTyped
  <1>2. total \in Nat \ {0} /\ totalLost \in 0 .. total /\ lost \in Nat
        /\ (est.lost = est.expected /\ lost = number => totalLost = total)
    BY <1>1
  <1>3. Raised(est) \in Nat /\ Raised(est) >= est.current
    BY <1>1, EightPercentMoreBounds DEF Raised
  <1>4. est.current \in MinBitrate .. MaxBitrate BY DEF Fits
  <1>5. CASE total < kLimitNumPackets
    <2>1. u = Collected(est, totalLost, total, t)
      BY <1>2, <1>5 DEF UpdatePacketsLost, Collected
    <2>2. total \in 0 .. kLimitNumPackets - 1 BY <1>2, <1>5 DEF kLimitNumPackets
    <2> HIDE DEF totalLost, total, u
    <2>3. /\ u \in Estimation(t)
          /\ u.current = est.current /\ u.delayBased = est.delayBased
          /\ u.minHistory = est.minHistory
          /\ u.lost = totalLost /\ u.expected = total /\ u.report = est.report
      BY <1>2, <2>1, <2>2, CollectedTyped
    <2>4. Fits(u) BY <2>3 DEF Fits
    <2>5. 2 * u.current >= est.current - 1 /\ u.current <= Raised(est)
          /\ ~(u.current < est.current) /\ u.current <= est.current
      BY <1>1, <1>3, <2>3
    <2> QED BY <1>5, <2>3, <2>4, <2>5 DEF totalLost, total, u
  <1>6. CASE ~(total < kLimitNumPackets)
    <2> DEFINE w == Reported(est, totalLost, total, t)
               e == UpdateEstimate(w, t)
    <2>1. u = e
      BY <1>2, <1>6 DEF UpdatePacketsLost, Reported
    <2> HIDE DEF totalLost, total
    <2>2. /\ w \in Estimation(t)
          /\ w.current = est.current /\ w.delayBased = est.delayBased
          /\ w.minHistory = est.minHistory
          /\ w.lost = 0 /\ w.expected = 0 /\ w.report = t
          /\ w.loss = FractionLoss(totalLost, total)
          /\ w.first = IF est.first = Unset THEN t ELSE est.first
      BY <1>2, ReportedTyped
    <2> HIDE DEF w, u
    <2>3. Outdated(w, t) BY <2>2 DEF Outdated
    <2>4. Fits(w) BY <2>2 DEF Fits
    <2>5. IsInStartPhase(w, t) => IsInStartPhase(est, t)
      BY <2>2 DEF IsInStartPhase
    <2>6. /\ w.loss \in 0 .. 255 /\ w.loss \in Int
          /\ totalLost = total => w.loss = 255
      BY <1>2, <2>2, FractionFits, FieldsTyped
    <2>7. \E rate \in Nat :
            /\ Ends(e, w, rate, t)
            /\ \/ w.loss = 0 /\ IsInStartPhase(w, t) /\ rate >= w.current
                 /\ (w.delayBased = NoRate => rate = w.current)
               \/ w.loss <= lowLossThreshold /\ rate = Raised(w)
               \/ w.loss > highLossThreshold /\ rate = Lowered(w)
               \/ rate = w.current
      <3>1. Trusted(w) \in Nat /\ Trusted(w) >= w.current
            /\ (w.delayBased = NoRate => Trusted(w) = w.current)
        BY <1>1, <2>2 DEF Trusted, AtLeast, NoRate
      <3>2. Raised(w) \in Nat BY <1>1, <2>2, EightPercentMoreBounds DEF Raised
      <3>3. Lowered(w) \in Nat
        <4>1. LessLoss(w.current, w.loss) \in 0 .. w.current
          BY <1>1, <2>2, <2>6, LessLossBounds
        <4> QED BY <1>1, <2>2, <4>1 DEF Lowered
      <3>4. w.current \in Nat BY <1>1, <2>2
      <3> HIDE DEF e
      <3>5. \/ w.loss = 0 /\ IsInStartPhase(w, t) /\ Ends(e, w, Trusted(w), t)
            \/ w.loss <= lowLossThreshold /\ Ends(e, w, Raised(w), t)
            \/ w.loss > highLossThreshold /\ Ends(e, w, Lowered(w), t)
            \/ Ends(e, w, w.current, t)
        BY <2>2, <2>3, UpdateEstimateCases DEF e
      <3> QED BY <3>1, <3>2, <3>3, <3>4, <3>5
    <2> HIDE DEF e
    <2>8. PICK rate \in Nat :
            /\ Ends(e, w, rate, t)
            /\ \/ w.loss = 0 /\ IsInStartPhase(w, t) /\ rate >= w.current
                 /\ (w.delayBased = NoRate => rate = w.current)
               \/ w.loss <= lowLossThreshold /\ rate = Raised(w)
               \/ w.loss > highLossThreshold /\ rate = Lowered(w)
               \/ rate = w.current
      BY <2>7
    <2>9. /\ e \in Estimation(t) /\ Fits(e) /\ Keeps(e, w)
          /\ e.current \in Nat
          /\ e.current <= AtLeast(rate, MinBitrate)
          /\ e.current >= rate \/ e.current >= w.current
      BY <2>2, <2>4, <2>8, EndsFacts
    <2>10. /\ u \in Estimation(t) /\ Fits(u) /\ u.delayBased = est.delayBased
           /\ u.report = t /\ u.lost = 0 /\ u.expected = 0 /\ u.loss = w.loss
           /\ u.current \in Nat /\ u.current <= AtLeast(rate, MinBitrate)
           /\ u.current >= rate \/ u.current >= est.current
      BY <2>1, <2>2, <2>9 DEF Keeps
    <2>11. /\ \/ w.loss = 0 /\ IsInStartPhase(est, t) /\ rate >= est.current
                /\ (est.delayBased = NoRate => rate = est.current)
              \/ w.loss <= lowLossThreshold /\ rate = Raised(est)
              \/ w.loss > highLossThreshold /\ rate \in 0 .. est.current
                /\ 2 * rate >= est.current - 1
              \/ rate = est.current
      <3>1. Raised(w) = Raised(est) BY <2>2 DEF Raised
      <3>2. Lowered(w) \in 0 .. est.current /\ 2 * Lowered(w) >= est.current - 1
        BY <1>1, <2>2, <2>6, LessLossBounds DEF Lowered
      <3> QED BY <2>2, <2>5, <2>8, <3>1, <3>2
    <2>12. u.current < est.current => u.loss > highLossThreshold
      BY <1>1, <1>3, <2>6, <2>10, <2>11
    <2>13. \/ u.current <= Raised(est)
           \/ u.loss = 0 /\ IsInStartPhase(est, t)
      BY <1>1, <1>3, <1>4, <2>10, <2>11, LimitsAssumption DEF AtLeast, LimitsAssumption
    <2>14. 2 * u.current >= est.current - 1
      BY <1>1, <1>3, <2>10, <2>11
    <2>15. est.delayBased = NoRate /\ est.lost = est.expected /\ lost = number
             => u.current <= est.current
      BY <1>1, <1>2, <1>4, <2>6, <2>10, <2>11, LimitsAssumption
      DEF AtLeast, LimitsAssumption, lowLossThreshold
    <2> QED BY <1>6, <2>10, <2>12, <2>13, <2>14, <2>15 DEF total, u
  <1> QED BY <1>5, <1>6

(***************************************************************************)
(* The inductive invariant.  Beside the types it says why the loss-based   *)
(* and the delay-based part never work against each other: what the        *)
(* estimation keeps of an earlier loss update is at least a second old     *)
(* when the next one is due, and the estimate stays below the rate         *)
(* control's, also before there is a delay-based estimate, because until   *)
(* then all reported packets were lost.                                    *)
(***************************************************************************)
Count == {c \in [lost : Nat, expected : Nat] : c.lost <= c.expected}

EstimationTyped ==
  /\ now \in Nat
  /\ b \in Estimation(now)
  /\ a \in Control
  /\ pending \in Count
  /\ nextLoss \in MaybeTime /\ moved \in MaybeTime
  /\ told \in Nat /\ reports \in 0 .. MaxReports
  /\ reported \in [lost : Nat, expected : Nat]
  /\ decided \in [lost : Nat, expected : Nat]

FitsRateControl ==
  /\ Fits(b)
  /\ a.current >= MinBitrate
  /\ b.current <= a.current
  /\ b.delayBased > NoRate => a.current >= b.delayBased

\* Before time t by a loss update interval or more.
UpdatedBefore(x, t) == x # Unset => t # Unset /\ x + kLossUpdateInterval <= t

UpdatesTimed ==
  /\ UpdatedBefore(b.report, nextLoss)
  /\ UpdatedBefore(moved, nextLoss)
  /\ IF nextLoss = Unset
     THEN \A i \in DOMAIN b.minHistory : b.current <= b.minHistory[i].rate
     ELSE \A i \in DOMAIN b.minHistory :
            b.minHistory[i].time + kLossUpdateInterval <= nextLoss

OnlyLossesAtFirst ==
  b.delayBased = NoRate => b.lost = b.expected /\ pending.lost = pending.expected

BandwidthInv ==
  /\ EstimationTyped
  /\ FitsRateControl
  /\ UpdatesTimed
  /\ OnlyLossesAtFirst
  /\ PacketsConserved
  /\ TargetInStep

(***************************************************************************)
(* The steps of a feedback                                                 *)
(***************************************************************************)

\* What an estimation holds at one time it may hold at any later one.
LEMMA EstimationGrows ==
  ASSUME NEW t \in Nat, NEW u \in Nat, t <= u, NEW e \in Estimation(t)
  PROVE  e \in Estimation(u)
  <1>1. Entry(t) \subseteq Entry(u) BY DEF Entry
  <1>2. Seq(Entry(t)) \subseteq Seq(Entry(u)) BY <1>1
  <1>3. EstimationRecord(t) \subseteq EstimationRecord(u) BY <1>2 DEF EstimationRecord
  <1> QED BY <1>3 DEF Estimation

\* A round trip time changes nothing else.
LEMMA RttTyped ==
  ASSUME NEW t \in Nat, NEW e \in Estimation(t), NEW rtt \in Nat
  PROVE  LET x == UpdateRtt(e, rtt)
         IN /\ x \in Estimation(t)
            /\ x.current = e.current /\ x.delayBased = e.delayBased
            /\ x.minHistory = e.minHistory /\ x.loss = e.loss
            /\ x.lost = e.lost /\ x.expected = e.expected
            /\ x.first = e.first /\ x.report = e.report
  <1> DEFINE y == [e EXCEPT !.rtt = rtt]
  <1>1. e \in EstimationRecord(t) /\ Counted(e) BY DEF Estimation
  <1>2. /\ y \in EstimationRecord(t)
        /\ y.current = e.current /\ y.delayBased = e.delayBased
        /\ y.minHistory = e.minHistory /\ y.loss = e.loss
        /\ y.lost = e.lost /\ y.expected = e.expected
        /\ y.first = e.first /\ y.report = e.report
    BY <1>1 DEF EstimationRecord
  <1> HIDE DEF y
  <1>3. y \in Estimation(t) BY <1>1, <1>2 DEF Estimation, Counted
  <1>4. UpdateRtt(e, rtt) = y \/ UpdateRtt(e, rtt) = e BY DEF UpdateRtt, y
  <1> QED BY <1>2, <1>3, <1>4

\* The rate control: it never goes below the least bitrate, it never falls
\* without a probe's result, and its result is never above it.
LEMMA ControlFacts ==
  ASSUME NEW c \in Control, c.current >= MinBitrate, NEW t \in Nat,
         NEW acked \in Nat, NEW probe \in Nat
  PROVE  LET d == Controlled(c, acked, probe, t)
             target == TargetBitrate(c, acked, probe, t)
         IN /\ d \in Control
            /\ d.current >= MinBitrate
            /\ target \in Nat \ {0} /\ d.current >= target
            /\ probe = NoRate => d.current >= c.current /\ target = d.current
  <1> USE LimitsAssumption DEF LimitsAssumption
  <1>1. c.current \in Nat /\ c.throughput \in Nat /\ c.changed \in MaybeTime
    BY DEF Control
  <1>2. t \in MaybeTime BY DEF MaybeTime
  <1>3. CASE probe # NoRate
    <2>1. ClampBitrate(c, probe, probe) = AtLeast(probe, MinBitrate)
      BY <1>1 DEF ClampBitrate, AtLeast
    <2>2. SetEstimate(c, probe, t) = [c EXCEPT !.current = AtLeast(probe, MinBitrate),
                                               !.changed = t]
      BY <2>1 DEF SetEstimate
    <2>3. AtLeast(probe, MinBitrate) \in Nat /\ AtLeast(probe, MinBitrate) >= probe
          /\ AtLeast(probe, MinBitrate) >= MinBitrate
      BY DEF AtLeast
    <2>4. SetEstimate(c, probe, t) \in Control
          /\ SetEstimate(c, probe, t).current = AtLeast(probe, MinBitrate)
      BY <1>1, <1>2, <2>2, <2>3 DEF Control
    <2> QED BY <1>3, <2>3, <2>4 DEF Controlled, TargetBitrate, NoRate
  <1>4. CASE probe = NoRate
    <2> DEFINE through == IF acked = NoRate THEN c.throughput ELSE acked
               held == IF c.state = "Hold" THEN [c EXCEPT !.changed = t] ELSE c
               more == MultiplicativeRateIncrease(held, t)
               rate == ClampBitrate(c, c.current + more, through)
    <2>1. through \in Nat BY <1>1
    <2>2. more \in Int /\ more >= 1000
      <3> DEFINE x == (((held.current \div 1000) * 8 *
                         (IF held.changed = Unset THEN 1000
                          ELSE AtMost(t - held.changed, 1000))) \div 100)
      <3>1. held.current = c.current /\ held.changed \in MaybeTime
        BY <1>1, <1>2 DEF Control
      <3>2. (IF held.changed = Unset THEN 1000 ELSE AtMost(t - held.changed, 1000)) \in Int
        BY <3>1 DEF AtMost, MaybeTime, Unset
      <3>3. x \in Int BY <1>1, <3>1, <3>2
      <3>4. more = AtLeast(x, 1000) BY DEF MultiplicativeRateIncrease
      <3> HIDE DEF x, more
      <3> QED BY <3>3, <3>4 DEF AtLeast
    <2> HIDE DEF through, more
    <2>3. rate \in Nat /\ rate >= MinBitrate /\ rate >= c.current
      BY <1>1, <2>1, <2>2 DEF ClampBitrate, AtLeast
    <2>4. ChangeBitrate(c, acked, t) = [current |-> rate, state |-> "Increase",
                                        changed |-> t, throughput |-> through]
      BY DEF ChangeBitrate, through, more
    <2> HIDE DEF rate
    <2>5. ChangeBitrate(c, acked, t) \in Control /\ ChangeBitrate(c, acked, t).current = rate
      BY <1>2, <2>1, <2>3, <2>4 DEF Control
    <2> QED BY <1>4, <2>3, <2>5 DEF Controlled, TargetBitrate
  <1> QED BY <1>3, <1>4

\* A rate that is set is capped by the limits alone, and leaves no history.
LEMMA SendBitrateSet ==
  ASSUME NEW t \in Nat, NEW m \in Estimation(t), NEW rate \in Nat
  PROVE  LET s == SetSendBitrate(m, rate)
         IN /\ s \in Estimation(t) /\ s.current \in MinBitrate .. MaxBitrate
            /\ s.loss = m.loss /\ s.report = m.report
            /\ s.lost = m.lost /\ s.expected = m.expected
            /\ s.minHistory = << >> /\ s.delayBased = NoRate
            /\ rate \in MinBitrate .. MaxBitrate => s.current = rate
  <1> DEFINE y == [m EXCEPT !.delayBased = NoRate]
             z == CapBitrateToThresholds(y, rate)
             e == << >>
  <1>1. m \in EstimationRecord(t) /\ Counted(m) BY DEF Estimation
  <1>2. /\ y \in EstimationRecord(t) /\ y.lost = m.lost /\ y.expected = m.expected
        /\ y.loss = m.loss /\ y.report = m.report /\ y.delayBased = NoRate
    BY <1>1 DEF EstimationRecord, NoRate
  <1> HIDE DEF y
  <1>3. y \in Estimation(t) BY <1>1, <1>2 DEF Estimation, Counted
  <1>4. /\ z \in Estimation(t) /\ Fits(z)
        /\ z = [y EXCEPT !.current = Capped(y, rate)]
        /\ z.current = Capped(y, rate)
    BY <1>3, CapTyped
  <1>5. z.lost = y.lost /\ z.expected = y.expected /\ z.loss = y.loss
        /\ z.report = y.report /\ z.delayBased = NoRate
    BY <1>2, <1>4 DEF EstimationRecord
  <1> HIDE DEF z
  <1>6. e \in Seq(Entry(t)) OBVIOUS
  <1> HIDE DEF e
  <1>7. /\ WithHistory(z, e) \in Estimation(t)
        /\ Keeps(WithHistory(z, e), z)
        /\ WithHistory(z, e).current = z.current
        /\ WithHistory(z, e).minHistory = e
    BY <1>4, <1>6, HistoryTyped
  <1>8. SetSendBitrate(m, rate) = WithHistory(z, e)
    BY DEF SetSendBitrate, WithHistory, y, z, e
  <1>9. SetSendBitrate(m, rate).minHistory = << >> BY <1>7, <1>8 DEF e
  <1>10. rate \in MinBitrate .. MaxBitrate => z.current = rate
    BY <1>2, <1>4, LimitsAssumption DEF Capped, AtLeast, AtMost, NoRate, LimitsAssumption
  <1> QED BY <1>2, <1>4, <1>5, <1>7, <1>8, <1>9, <1>10 DEF Keeps, Fits

\* A delay-based estimate takes the estimate down to itself, at most.
LEMMA DelayBasedFollowed ==
  ASSUME NEW t \in Nat, NEW e \in Estimation(t), e.current \in MinBitrate .. MaxBitrate,
         NEW rate \in Nat \ {0}
  PROVE  LET w == UpdateDelayBasedEstimate(e, rate)
         IN /\ w \in Estimation(t) /\ Fits(w) /\ w.delayBased = rate
            /\ w.loss = e.loss /\ w.report = e.report
            /\ w.lost = e.lost /\ w.expected = e.expected
            /\ w.minHistory = e.minHistory
            /\ w.current <= e.current
            /\ w.current >= e.current \/ w.current >= rate
            /\ w.current <= AtLeast(rate, MinBitrate)
  <1> DEFINE x == [e EXCEPT !.delayBased = rate]
             w == UpdateDelayBasedEstimate(e, rate)
  <1>1. e \in EstimationRecord(t) /\ Counted(e) BY DEF Estimation
  <1>2. /\ x \in EstimationRecord(t) /\ x.delayBased = rate
        /\ x.current = e.current /\ x.minHistory = e.minHistory
        /\ x.loss = e.loss /\ x.report = e.report
        /\ x.lost = e.lost /\ x.expected = e.expected
    BY <1>1 DEF EstimationRecord
  <1>3. w = CapBitrateToThresholds(x, e.current) BY DEF UpdateDelayBasedEstimate
  <1> HIDE DEF x, w
  <1>4. x \in Estimation(t) BY <1>1, <1>2 DEF Estimation, Counted
  <1>5. e.current \in Nat BY LimitsAssumption DEF LimitsAssumption
  <1>6. /\ w \in Estimation(t) /\ Fits(w)
        /\ w = [x EXCEPT !.current = Capped(x, e.current)]
        /\ w.current = Capped(x, e.current)
    BY <1>3, <1>4, <1>5, CapTyped
  <1>7. /\ w.delayBased = rate /\ w.loss = e.loss /\ w.report = e.report
        /\ w.lost = e.lost /\ w.expected = e.expected
        /\ w.minHistory = e.minHistory
    BY <1>2, <1>6 DEF EstimationRecord
  <1>8. /\ w.current <= e.current
        /\ w.current >= e.current \/ w.current >= rate
        /\ w.current <= AtLeast(rate, MinBitrate)
    BY <1>2, <1>5, <1>6, LimitsAssumption
    DEF LimitsAssumption, Capped, AtLeast, AtMost, NoRate
  <1> QED BY <1>6, <1>7, <1>8 DEF w

\* The result of the delay-based part: it sets what is left of the estimate, and
\* takes it down only as far as the rate control's own.
LEMMA ResultFacts ==
  ASSUME NEW t \in Nat, NEW m \in Estimation(t), Fits(m),
         a \in Control, a.current >= MinBitrate,
         NEW r \in Reports
  PROVE  LET w == WithResult(m, r, t)
             d == Controlled(a, r.acked, r.probe, t)
         IN /\ w \in Estimation(t) /\ Fits(w) /\ w.delayBased > NoRate
            /\ w.loss = m.loss /\ w.report = m.report
            /\ w.lost = m.lost /\ w.expected = m.expected
            /\ w.minHistory = m.minHistory \/ w.minHistory = << >>
            /\ d \in Control /\ d.current >= MinBitrate
            /\ d.current >= w.delayBased /\ w.current <= d.current
            /\ r.probe = NoRate =>
                 /\ d.current >= a.current
                 /\ w.current <= m.current
                 /\ w.current >= m.current \/ w.current >= d.current
  <1> DEFINE w == WithResult(m, r, t)
             d == Controlled(a, r.acked, r.probe, t)
             target == TargetBitrate(a, r.acked, r.probe, t)
             set == IF r.probe # NoRate THEN SetSendBitrate(m, target) ELSE m
  <1>1. r.acked \in Nat /\ r.probe \in Nat BY EstimationConstants DEF EstimationConstants
  <1>2. /\ d \in Control /\ d.current >= MinBitrate
        /\ target \in Nat \ {0} /\ d.current >= target
        /\ r.probe = NoRate => d.current >= a.current /\ target = d.current
    BY <1>1, ControlFacts
  <1> HIDE DEF d, target
  <1>3. /\ set \in Estimation(t) /\ set.current \in MinBitrate .. MaxBitrate
        /\ set.loss = m.loss /\ set.report = m.report
        /\ set.lost = m.lost /\ set.expected = m.expected
        /\ set.minHistory = m.minHistory \/ set.minHistory = << >>
        /\ r.probe = NoRate => set = m
    BY <1>2, SendBitrateSet DEF Fits
  <1>4. w = UpdateDelayBasedEstimate(set, target)
    BY DEF WithResult, set, target
  <1> HIDE DEF w, set
  <1>5. /\ w \in Estimation(t) /\ Fits(w) /\ w.delayBased = target
        /\ w.loss = set.loss /\ w.report = set.report
        /\ w.lost = set.lost /\ w.expected = set.expected
        /\ w.minHistory = set.minHistory
        /\ w.current <= set.current
        /\ w.current >= set.current \/ w.current >= target
        /\ w.current <= AtLeast(target, MinBitrate)
    BY <1>2, <1>3, <1>4, DelayBasedFollowed
  <1>6. w.current <= d.current
    <2>1. w.current \in Nat /\ d.current \in Nat
      BY <1>2, <1>5, LimitsAssumption DEF Fits, Control, LimitsAssumption
    <2> QED BY <1>2, <1>5, <2>1, LimitsAssumption DEF AtLeast, LimitsAssumption
  <1>7. w.delayBased > NoRate BY <1>2, <1>5 DEF NoRate
  <1> QED BY <1>2, <1>3, <1>5, <1>6, <1>7 DEF w, d

(* What a feedback's losses make of the estimation.                          *)
Total(r) == Plus(pending, r.lost, r.received + r.lost)

Measured(m, r, t) ==
  /\ m \in Estimation(t) /\ Fits(m) /\ m.delayBased = b.delayBased
  /\ IF LossDue(t) /\ b.expected + Total(r).expected >= kLimitNumPackets
     THEN m.report = t /\ m.lost = 0 /\ m.expected = 0
     ELSE /\ m.current = b.current /\ m.report = b.report
          /\ m.minHistory = b.minHistory
          /\ m.lost = IF LossDue(t) THEN b.lost + Total(r).lost ELSE b.lost
          /\ m.expected = IF LossDue(t) THEN b.expected + Total(r).expected
                          ELSE b.expected
  /\ m.current < b.current => m.loss > highLossThreshold
  /\ \/ m.current <= Raised(b)
     \/ m.loss = 0 /\ IsInStartPhase(b, t)
  /\ 2 * m.current >= b.current - 1
  /\ b.delayBased = NoRate /\ r.received = 0 => m.current <= b.current

\* What passing a report's losses on leaves of the estimation.
LEMMA LossesMeasured ==
  ASSUME BandwidthInv, NEW r \in Reports, NEW t \in Nat, now <= t
  PROVE  Measured(WithLosses(UpdateRtt(b, r.rtt), r, t), r, t)
  <1> DEFINE e == UpdateRtt(b, r.rtt)
             m == WithLosses(e, r, t)
             lost == pending.lost + r.lost
             number == pending.expected + r.received + r.lost
  <1> USE DEF BandwidthInv
  <1>1. /\ r.received \in Nat /\ r.lost \in Nat /\ r.received + r.lost > 0
        /\ r.rtt \in Nat
    BY EstimationConstants DEF EstimationConstants
  <1>2. b \in Estimation(t) BY EstimationGrows DEF EstimationTyped
  <1>3. /\ e \in Estimation(t)
        /\ e.current = b.current /\ e.delayBased = b.delayBased
        /\ e.minHistory = b.minHistory /\ e.loss = b.loss
        /\ e.lost = b.lost /\ e.expected = b.expected
        /\ e.first = b.first /\ e.report = b.report
    BY <1>1, <1>2, RttTyped
  <1> HIDE DEF e
  <1>4. Fits(e) BY <1>3 DEF Fits, FitsRateControl
  <1>5. Raised(e) = Raised(b) /\ (IsInStartPhase(e, t) <=> IsInStartPhase(b, t))
    BY <1>3 DEF Raised, IsInStartPhase
  <1>6. b.current \in Nat /\ Raised(b) \in Nat /\ Raised(b) >= b.current
    <2>1. b.current \in Nat BY <1>2, FieldsTyped
    <2>2. EightPercentMore(b.current) \in Nat /\ EightPercentMore(b.current) >= b.current
      BY <2>1, EightPercentMoreBounds
    <2> QED BY <2>1, <2>2 DEF Raised
  <1>7. /\ pending.lost \in Nat /\ pending.expected \in Nat
        /\ pending.lost <= pending.expected
    BY DEF EstimationTyped, Count
  <1>8. number \in Nat \ {0} /\ lost \in 0 .. number BY <1>1, <1>7
  <1>9. Total(r) = [lost |-> lost, expected |-> number]
    BY <1>1, <1>7 DEF Total, Plus
  <1>10. Total(r).lost = lost /\ Total(r).expected = number BY <1>9
  <1>11. ASSUME ~LossDue(t) PROVE Measured(m, r, t)
    <2>1. m = e BY <1>11 DEF WithLosses
    <2> HIDE DEF m
    <2>2. 2 * m.current >= b.current - 1 /\ m.current <= Raised(b)
          /\ ~(m.current < b.current) /\ m.current <= b.current
      BY <1>3, <1>6, <2>1
    <2> QED BY <1>3, <1>4, <1>11, <2>1, <2>2 DEF Measured
  <1>12. ASSUME LossDue(t) PROVE Measured(m, r, t)
    <2>1. m = UpdatePacketsLost(e, lost, number, t)
      BY <1>9, <1>12 DEF WithLosses, Total
    <2>2. Outdated(e, t)
      <3>1. CASE nextLoss = Unset
        BY <1>3, <3>1 DEF Outdated, UpdatesTimed
      <3>2. CASE nextLoss # Unset
        <4>1. nextLoss \in Nat /\ t > nextLoss
          BY <1>12, <3>2 DEF LossDue, EstimationTyped, MaybeTime
        <4>2. \A i \in DOMAIN b.minHistory :
                b.minHistory[i].time \in Nat
                /\ b.minHistory[i].time + kLossUpdateInterval <= nextLoss
          <5>1. b.minHistory \in Seq(Entry(t)) BY <1>2, FieldsTyped
          <5>2. \A i \in DOMAIN b.minHistory : b.minHistory[i] \in Entry(t) BY <5>1
          <5>3. \A x \in Entry(t) : x.time \in Nat BY DEF Entry
          <5>4. \A i \in DOMAIN b.minHistory :
                  b.minHistory[i].time + kLossUpdateInterval <= nextLoss
            BY <3>2 DEF UpdatesTimed
          <5> QED BY <5>2, <5>3, <5>4
        <4> QED BY <1>3, <4>1, <4>2
            DEF Outdated, kLossUpdateInterval, kBweIncreaseInterval
      <3> QED BY <3>1, <3>2
    <2> HIDE DEF m, lost, number
    <2>3. /\ m \in Estimation(t) /\ Fits(m) /\ m.delayBased = e.delayBased
          /\ IF e.expected + number < kLimitNumPackets
             THEN /\ m.current = e.current /\ m.report = e.report
                  /\ m.minHistory = e.minHistory
                  /\ m.lost = e.lost + lost /\ m.expected = e.expected + number
             ELSE m.report = t /\ m.lost = 0 /\ m.expected = 0
          /\ m.current < e.current => m.loss > highLossThreshold
          /\ \/ m.current <= Raised(e)
             \/ m.loss = 0 /\ IsInStartPhase(e, t)
          /\ 2 * m.current >= e.current - 1
          /\ e.delayBased = NoRate /\ e.lost = e.expected /\ lost = number
               => m.current <= e.current
      BY <1>3, <1>4, <1>8, <2>1, <2>2, PacketsLostFacts
    <2>4. b.delayBased = NoRate /\ r.received = 0 => b.lost = b.expected /\ lost = number
      BY <1>1, <1>7 DEF OnlyLossesAtFirst, lost, number
    <2>5. b.expected \in Nat BY <1>2, FieldsTyped
    <2>6. (b.expected + number < kLimitNumPackets)
            <=> ~(b.expected + number >= kLimitNumPackets)
      BY <1>8, <2>5 DEF kLimitNumPackets
    <2> QED BY <1>3, <1>5, <1>10, <1>12, <2>3, <2>4, <2>6 DEF Measured
  <1> QED BY <1>11, <1>12 DEF e

(***************************************************************************)
(* The invariant holds, and with it what it implies                        *)
(***************************************************************************)

\* The start bitrate is the estimate, and nothing is reported yet.
LEMMA InvHoldsInitially == Init => BandwidthInv
  <1> SUFFICES ASSUME Init PROVE BandwidthInv
    OBVIOUS
  <1> DEFINE n == NewEstimation(NoRate)
             s == SetSendBitrate(n, StartBitrate)
             x == WithHistory(s, NowOnly(s, 0))
  <1>1. /\ StartBitrate \in Nat /\ StartBitrate \in MinBitrate .. MaxBitrate
        /\ MinBitrate \in Nat /\ MaxBitrate \in Nat /\ MaxReports \in Nat
        /\ 0 \in Nat
    BY EstimationConstants, LimitsAssumption DEF EstimationConstants, LimitsAssumption
  <1>2. << >> \in Seq(Entry(0)) OBVIOUS
  <1>3. n \in EstimationRecord(0) /\ n.report = Unset /\ n.lost = 0 /\ n.expected = 0
    BY <1>2 DEF NewEstimation, EstimationRecord, MaybeTime, NoRate
  <1> HIDE DEF n
  <1>4. n \in Estimation(0)
    BY <1>3 DEF Estimation, Counted, kLimitNumPackets
  <1>5. /\ s.minHistory = << >> /\ s.current = StartBitrate /\ s.delayBased = NoRate
        /\ s.report = Unset /\ s.lost = 0 /\ s.expected = 0
        /\ s \in Estimation(0)
    BY <1>1, <1>3, <1>4, SendBitrateSet
  <1> HIDE DEF s
  <1>6. Outdated(s, 0) BY <1>5 DEF Outdated
  <1>7. UpdateMinHistory(s, 0) = x /\ NowOnly(s, 0) \in Seq(Entry(0))
    BY <1>5, <1>6, HistoryIsCurrent DEF WithHistory
  <1>8. /\ x \in Estimation(0) /\ Keeps(x, s) /\ x.current = s.current
        /\ x.minHistory = NowOnly(s, 0)
    BY <1>5, <1>7, HistoryTyped
  <1> HIDE DEF x
  <1>9. UpdateEstimate(s, 0) = CapBitrateToThresholds(x, StartBitrate)
    BY <1>1, <1>5, <1>7, <1>8 DEF UpdateEstimate, AtLeast, NoRate
  <1>10. b = CapBitrateToThresholds(x, StartBitrate) BY <1>9 DEF Init, s, n
  <1>11. /\ b \in Estimation(0) /\ Fits(b)
         /\ b = [x EXCEPT !.current = Capped(x, StartBitrate)]
         /\ b.current = Capped(x, StartBitrate)
    <2>1. b = [x EXCEPT !.current = Capped(x, StartBitrate)]
      BY <1>10 DEF CapBitrateToThresholds
    <2>2. b \in Estimation(0) /\ Fits(b) /\ b.current = Capped(x, StartBitrate)
      BY <1>1, <1>8, <1>10, CapTyped, Zenon
    <2> QED BY <2>1, <2>2
  <1>12. /\ b.delayBased = NoRate /\ b.lost = 0 /\ b.expected = 0 /\ b.report = Unset
         /\ b.minHistory = NowOnly(s, 0)
    BY <1>5, <1>8, <1>11 DEF Keeps, Estimation, EstimationRecord
  <1>13. b.current = StartBitrate
    BY <1>1, <1>5, <1>8, <1>11 DEF Capped, Keeps, AtMost, AtLeast, NoRate
  <1>14. told = StartBitrate /\ now = 0
    BY <1>1, <1>13 DEF Init, CurrentEstimate, AtLeast
  <1>15. a \in Control /\ a.current = StartBitrate
    BY <1>1 DEF Init, SetStartBitrate, Control, MaybeTime
  <1>16. EstimationTyped
    BY <1>1, <1>11, <1>14, <1>15
    DEF Init, EstimationTyped, Nothing, Count, MaybeTime
  <1>17. FitsRateControl
    BY <1>1, <1>11, <1>12, <1>13, <1>15 DEF FitsRateControl, NoRate
  <1>18. UpdatesTimed
    <2>1. NowOnly(s, 0) = << [time |-> 0, rate |-> StartBitrate] >>
      BY <1>5 DEF NowOnly
    <2>2. \A i \in DOMAIN b.minHistory : b.minHistory[i].rate = StartBitrate
      BY <1>12, <2>1
    <2> QED BY <1>1, <1>12, <1>13, <2>2 DEF Init, UpdatesTimed, UpdatedBefore
  <1>19. OnlyLossesAtFirst /\ PacketsConserved
    BY <1>12 DEF Init, OnlyLossesAtFirst, PacketsConserved, Nothing
  <1>20. TargetInStep BY DEF Init, TargetInStep
  <1> QED BY <1>16, <1>17, <1>18, <1>19, <1>20 DEF BandwidthInv

\* The step of a feedback, and what holds across it.
Feedback(r, t) == OnTransportPacketsFeedback(r, t) /\ now' = t /\ reports' = reports + 1

\* What is true of a step, m being what the losses made of b.
StepFacts(m, r, t) ==
  /\ Measured(m, r, t)
  /\ Collect(r, t) /\ Account(r, t, m)
  /\ b'.loss = m.loss /\ b'.report = m.report
  /\ b'.lost = m.lost /\ b'.expected = m.expected
  /\ b'.minHistory = m.minHistory \/ b'.minHistory = << >>
  /\ b' \in Estimation(t) /\ a' \in Control
  /\ FitsRateControl'
  /\ a'.current >= a.current \/ (r.probe # NoRate /\ r.received > 0)
  /\ \/ r.probe # NoRate /\ r.received > 0
     \/ /\ b'.current <= m.current
        /\ b'.current >= m.current \/ b'.current >= b.current
  /\ b'.delayBased = NoRate => r.received = 0 /\ b.delayBased = NoRate
  /\ TargetInStep'

\* Every feedback is a step with losses measured, then followed or not told.
LEMMA StepMeasured ==
  ASSUME BandwidthInv, NEW r \in Reports, NEW t \in Nat, now <= t, Feedback(r, t)
  PROVE  \E m : StepFacts(m, r, t)
  <1> DEFINE m == WithLosses(UpdateRtt(b, r.rtt), r, t)
  <1> USE DEF BandwidthInv
  <1>1. Measured(m, r, t) BY LossesMeasured
  <1>2. /\ Collect(r, t) /\ Account(r, t, m)
        /\ \/ r.received > 0 /\ FollowResult(r, t, m)
           \/ r.received = 0 /\ KeepTarget(m)
    BY DEF Feedback, OnTransportPacketsFeedback
  <1> HIDE DEF m
  <1>3. m \in Estimation(t) /\ Fits(m) /\ m.delayBased = b.delayBased
    BY <1>1 DEF Measured
  <1>4. a \in Control /\ a.current >= MinBitrate /\ a.current \in Nat
    BY DEF EstimationTyped, FitsRateControl, Control
  <1>5. report' = r /\ reports' # 0
    BY <1>2 DEF Account, Feedback, EstimationTyped
  <1>6. b.current \in Nat /\ m.current \in Nat /\ m.delayBased \in Nat
    BY <1>3, FieldsTyped DEF EstimationTyped
  <1>7. r.received \in Nat BY EstimationConstants DEF EstimationConstants
  <1>8. CASE r.received > 0 /\ FollowResult(r, t, m)
    <2>1. /\ b' = WithResult(m, r, t) /\ a' = Controlled(a, r.acked, r.probe, t)
          /\ told' = CurrentEstimate(b')
      BY <1>8 DEF FollowResult
    <2>2. /\ b' \in Estimation(t) /\ Fits(b') /\ b'.delayBased > NoRate
          /\ b'.loss = m.loss /\ b'.report = m.report
          /\ b'.lost = m.lost /\ b'.expected = m.expected
          /\ b'.minHistory = m.minHistory \/ b'.minHistory = << >>
          /\ a' \in Control /\ a'.current >= MinBitrate
          /\ a'.current >= b'.delayBased /\ b'.current <= a'.current
          /\ r.probe = NoRate =>
               /\ a'.current >= a.current
               /\ b'.current <= m.current
               /\ b'.current >= m.current \/ b'.current >= a'.current
      BY <1>3, <1>4, <2>1, ResultFacts
    <2>3. FitsRateControl' BY <2>2 DEF FitsRateControl, Fits
    <2>4. TargetInStep' BY <2>1 DEF TargetInStep
    <2>5. b'.current \in Nat /\ a'.current \in Nat BY <2>2, FieldsTyped DEF Control
    <2>6. r.probe = NoRate => b'.current >= m.current \/ b'.current >= b.current
      BY <1>4, <1>6, <2>2, <2>5 DEF FitsRateControl
    <2>7. b'.delayBased # NoRate BY <2>2 DEF NoRate
    <2>8. StepFacts(m, r, t)
      BY <1>1, <1>2, <1>8, <2>2, <2>3, <2>4, <2>6, <2>7 DEF StepFacts
    <2> QED BY <2>8
  <1>9. CASE r.received = 0 /\ KeepTarget(m)
    <2>1. b' = m /\ a' = a BY <1>9 DEF KeepTarget
    <2>2. TargetInStep' BY <1>5, <1>9 DEF TargetInStep
    <2>3. b'.current <= a'.current
      <3>1. CASE b.delayBased = NoRate
        <4>1. m.current <= b.current BY <1>1, <1>9, <3>1 DEF Measured
        <4> QED BY <1>4, <1>6, <2>1, <4>1 DEF FitsRateControl
      <3>2. CASE b.delayBased # NoRate
        <4>1. m.delayBased > NoRate BY <1>3, <1>6, <3>2 DEF NoRate
        <4>2. m.current <= AtLeast(m.delayBased, MinBitrate) BY <1>3, <4>1 DEF Fits
        <4>3. a.current >= m.delayBased BY <1>3, <4>1 DEF FitsRateControl
        <4> QED BY <1>4, <1>6, <2>1, <4>2, <4>3, LimitsAssumption
            DEF AtLeast, LimitsAssumption
      <3> QED BY <3>1, <3>2
    <2>4. FitsRateControl'
      BY <1>3, <1>4, <2>1, <2>3 DEF FitsRateControl, Fits
    <2>5. b'.current <= m.current /\ b'.current >= m.current /\ a'.current >= a.current
      BY <1>4, <1>6, <2>1
    <2>6. StepFacts(m, r, t)
      BY <1>1, <1>2, <1>3, <1>4, <1>9, <2>1, <2>2, <2>4, <2>5 DEF StepFacts
    <2> QED BY <2>6
  <1> QED BY <1>2, <1>8, <1>9

\* A step moves packets from the report to the accumulators, or from these to a
\* loss rate, and loses none.
LEMMA PacketsKept ==
  ASSUME BandwidthInv, NEW r \in Reports, NEW t \in Nat, now <= t, NEW m,
         StepFacts(m, r, t)
  PROVE  /\ PacketsConserved'
         /\ pending' \in Count
         /\ reported' \in [lost : Nat, expected : Nat]
         /\ decided' \in [lost : Nat, expected : Nat]
         /\ OnlyLossesAtFirst'
  <1> USE DEF BandwidthInv
  <1> DEFINE n == r.received + r.lost
  <1>1. /\ r.received \in Nat /\ r.lost \in Nat /\ n \in Nat /\ r.lost <= n
        /\ r.received = 0 => r.lost = n
    BY EstimationConstants DEF EstimationConstants
  <1>2. /\ pending.lost \in Nat /\ pending.expected \in Nat
        /\ pending.lost <= pending.expected
    BY DEF EstimationTyped, Count
  <1>3. /\ b.lost \in Nat /\ b.expected \in Nat
        /\ b.report \in MaybeTime
    BY FieldsTyped DEF EstimationTyped
  <1>4. /\ reported.lost \in Nat /\ reported.expected \in Nat
        /\ decided.lost \in Nat /\ decided.expected \in Nat
        /\ decided \in [lost : Nat, expected : Nat]
    BY DEF EstimationTyped
  <1>5. /\ reported.expected = decided.expected + pending.expected + b.expected
        /\ reported.lost = decided.lost + pending.lost + b.lost
    BY DEF PacketsConserved
  <1>6. LossDue(t) => b.report # t
    <2> SUFFICES ASSUME LossDue(t), b.report = t PROVE FALSE
      OBVIOUS
    <2>1. b.report # Unset BY DEF Unset
    <2>2. nextLoss # Unset /\ t + kLossUpdateInterval <= nextLoss
      BY <2>1 DEF UpdatesTimed, UpdatedBefore
    <2>3. nextLoss \in Nat /\ t > nextLoss
      BY <2>2 DEF LossDue, EstimationTyped, MaybeTime
    <2> QED BY <2>2, <2>3 DEF kLossUpdateInterval
  <1>7. Total(r).lost = pending.lost + r.lost
        /\ Total(r).expected = pending.expected + n
        /\ Total(r) = [lost |-> pending.lost + r.lost, expected |-> pending.expected + n]
    BY DEF Total, Plus
  <1>8. reported' = [lost |-> reported.lost + r.lost, expected |-> reported.expected + n]
    BY DEF StepFacts, Account, Plus
  <1>9. reported'.lost = reported.lost + r.lost
        /\ reported'.expected = reported.expected + n
    BY <1>8
  <1>10. b'.lost = m.lost /\ b'.expected = m.expected BY DEF StepFacts
  <1>11. b'.delayBased = NoRate => /\ r.lost = n /\ b.lost = b.expected
                                   /\ pending.lost = pending.expected
    BY <1>1 DEF StepFacts, OnlyLossesAtFirst
  <1> HIDE DEF n
  <1>12. CASE ~LossDue(t)
    <2>1. /\ pending' = Total(r) /\ decided' = decided
          /\ m.lost = b.lost /\ m.expected = b.expected
      BY <1>12 DEF StepFacts, Collect, Account, Measured, Total, n
    <2>2. pending'.lost = pending.lost + r.lost /\ pending'.expected = pending.expected + n
      BY <1>7, <2>1
    <2>3. PacketsConserved'
      BY <1>1, <1>2, <1>3, <1>4, <1>5, <1>9, <1>10, <2>1, <2>2 DEF PacketsConserved
    <2>4. OnlyLossesAtFirst'
      BY <1>1, <1>2, <1>3, <1>10, <1>11, <2>1, <2>2 DEF OnlyLossesAtFirst
    <2> QED BY <1>1, <1>2, <1>4, <1>7, <1>8, <2>1, <2>3, <2>4 DEF Count
  <1>13. CASE LossDue(t) /\ b.expected + Total(r).expected < kLimitNumPackets
    <2>1. ~(b.expected + Total(r).expected >= kLimitNumPackets)
      BY <1>1, <1>2, <1>3, <1>7, <1>13 DEF kLimitNumPackets
    <2>2. /\ pending' = Nothing /\ decided' = decided
          /\ m.lost = b.lost + Total(r).lost /\ m.expected = b.expected + Total(r).expected
      BY <1>6, <1>13, <2>1 DEF StepFacts, Collect, Account, Measured
    <2>3. pending'.lost = 0 /\ pending'.expected = 0 /\ pending' \in Count
      BY <2>2 DEF Nothing, Count
    <2>4. PacketsConserved'
      BY <1>1, <1>2, <1>3, <1>4, <1>5, <1>7, <1>9, <1>10, <2>2, <2>3 DEF PacketsConserved
    <2>5. OnlyLossesAtFirst'
      BY <1>1, <1>2, <1>3, <1>7, <1>10, <1>11, <2>2, <2>3 DEF OnlyLossesAtFirst
    <2> QED BY <1>1, <1>4, <1>8, <2>2, <2>3, <2>4, <2>5
  <1>14. CASE LossDue(t) /\ b.expected + Total(r).expected >= kLimitNumPackets
    <2>1. /\ pending' = Nothing /\ m.report = t /\ m.lost = 0 /\ m.expected = 0
      BY <1>14 DEF StepFacts, Collect, Measured
    <2>2. decided' = [lost |-> decided.lost + (pending.lost + b.lost + r.lost),
                      expected |-> decided.expected
                        + (pending.expected + b.expected + r.received + r.lost)]
      BY <1>14, <2>1 DEF StepFacts, Account, Plus
    <2>3. pending'.lost = 0 /\ pending'.expected = 0 /\ pending' \in Count
      BY <2>1 DEF Nothing, Count
    <2>4. decided'.lost = decided.lost + (pending.lost + b.lost + r.lost)
          /\ decided'.expected = decided.expected
               + (pending.expected + b.expected + r.received + r.lost)
          /\ decided' \in [lost : Nat, expected : Nat]
      BY <1>1, <1>2, <1>3, <1>4, <2>2
    <2>5. PacketsConserved'
      <3>1. decided'.expected = decided.expected + (pending.expected + b.expected + n)
        BY <1>1, <1>2, <1>3, <2>4 DEF n
      <3> QED BY <1>1, <1>2, <1>3, <1>4, <1>5, <1>9, <1>10, <2>1, <2>3, <2>4, <3>1
          DEF PacketsConserved
    <2>6. OnlyLossesAtFirst' BY <1>10, <2>1, <2>3 DEF OnlyLossesAtFirst
    <2> QED BY <1>1, <1>4, <1>8, <2>3, <2>4, <2>5, <2>6
  <1> QED BY <1>1, <1>2, <1>3, <1>7, <1>12, <1>13, <1>14 DEF kLimitNumPackets

\* A step passes losses on only when the last time was more than a second ago.
LEMMA TimesKept ==
  ASSUME BandwidthInv, NEW r \in Reports, NEW t \in Nat, now <= t, NEW m,
         StepFacts(m, r, t)
  PROVE  /\ UpdatesTimed'
         /\ nextLoss' \in MaybeTime /\ moved' \in MaybeTime
         /\ moved' # moved => /\ moved' = t /\ LossDue(t)
                              /\ moved = Unset \/ t - moved > kLossUpdateInterval
  <1> USE DEF BandwidthInv, kLossUpdateInterval
  <1>1. nextLoss \in MaybeTime /\ moved \in MaybeTime BY DEF EstimationTyped
  <1>2. UpdatedBefore(b.report, nextLoss) /\ UpdatedBefore(moved, nextLoss)
    BY DEF UpdatesTimed
  <1>3. b.report \in MaybeTime /\ b'.report = m.report
    BY FieldsTyped DEF EstimationTyped, StepFacts
  <1>4. moved' = moved \/ moved' = t
    BY DEF StepFacts, Account
  <1>5. CASE ~LossDue(t)
    <2>1. /\ nextLoss' = nextLoss /\ moved' = moved /\ m.report = b.report
          /\ m.minHistory = b.minHistory
      BY <1>5 DEF StepFacts, Collect, Account, Measured
    <2>2. nextLoss # Unset BY <1>5 DEF LossDue
    <2>3. \A i \in DOMAIN b'.minHistory :
            b'.minHistory[i].time + kLossUpdateInterval <= nextLoss'
      <3>1. b'.minHistory = b.minHistory \/ b'.minHistory = << >>
        BY <2>1 DEF StepFacts
      <3>2. CASE b'.minHistory = b.minHistory
        BY <2>1, <2>2, <3>2 DEF UpdatesTimed
      <3>3. CASE b'.minHistory = << >> BY <3>3
      <3> QED BY <3>1, <3>2, <3>3
    <2> QED BY <1>1, <1>2, <1>3, <2>1, <2>2, <2>3 DEF UpdatesTimed, UpdatedBefore
  <1>6. CASE LossDue(t)
    <2>1. nextLoss' = t + kLossUpdateInterval BY <1>6 DEF StepFacts, Collect
    <2>2. nextLoss' \in Nat /\ nextLoss' # Unset BY <2>1 DEF Unset
    <2>3. nextLoss = Unset \/ (nextLoss \in Nat /\ nextLoss < t)
      BY <1>1, <1>6 DEF LossDue, MaybeTime
    <2>4. moved = Unset \/ (moved \in Nat /\ t - moved > kLossUpdateInterval)
      BY <1>1, <1>2, <2>3 DEF UpdatedBefore, MaybeTime
    <2>5. m.report = t \/ m.report = b.report BY DEF StepFacts, Measured
    <2>6. UpdatedBefore(b'.report, nextLoss')
      <3>1. CASE m.report = t BY <1>3, <2>1, <2>2, <3>1 DEF UpdatedBefore
      <3>2. CASE m.report = b.report
        BY <1>2, <1>3, <2>1, <2>2, <2>3, <3>2 DEF UpdatedBefore, MaybeTime
      <3> QED BY <2>5, <3>1, <3>2
    <2>7. UpdatedBefore(moved', nextLoss')
      BY <1>4, <2>1, <2>2, <2>4 DEF UpdatedBefore
    <2>8. \A i \in DOMAIN b'.minHistory :
            b'.minHistory[i].time + kLossUpdateInterval <= nextLoss'
      <3>1. b'.minHistory \in Seq(Entry(t)) BY FieldsTyped DEF StepFacts
      <3>2. \A i \in DOMAIN b'.minHistory : b'.minHistory[i] \in Entry(t) BY <3>1
      <3>3. \A x \in Entry(t) : x.time \in Nat /\ x.time <= t BY DEF Entry
      <3> QED BY <2>1, <3>2, <3>3
    <2>9. UpdatesTimed' BY <2>2, <2>6, <2>7, <2>8 DEF UpdatesTimed
    <2>10. t \in MaybeTime /\ nextLoss' \in MaybeTime BY <2>2 DEF MaybeTime
    <2> QED BY <1>1, <1>4, <1>6, <2>4, <2>9, <2>10
  <1> QED BY <1>5, <1>6

\* A step that changes anything is a feedback, at the same time or later.
LEMMA FeedbackSteps ==
  ASSUME BandwidthInv, [Next]_vars, vars' # vars
  PROVE  \E r, t, m :
           /\ r \in Reports /\ t \in Nat
           /\ now <= t /\ Feedback(r, t) /\ StepFacts(m, r, t)
           /\ reports' \in 0 .. MaxReports
  <1>1. PICK r \in Reports, ms \in Elapsed :
          /\ reports < MaxReports
          /\ OnTransportPacketsFeedback(r, now + ms)
          /\ now' = now + ms
          /\ reports' = reports + 1
    BY DEF Next
  <1> DEFINE t == now + ms
  <1>2. t \in Nat /\ now <= t
    BY EstimationConstants DEF BandwidthInv, EstimationTyped, EstimationConstants
  <1>3. Feedback(r, t) BY <1>1 DEF Feedback
  <1>4. reports' \in 0 .. MaxReports
    BY <1>1, EstimationConstants DEF BandwidthInv, EstimationTyped, EstimationConstants
  <1> HIDE DEF t
  <1>5. \E m : StepFacts(m, r, t) BY <1>2, <1>3, StepMeasured
  <1> QED BY <1>2, <1>3, <1>4, <1>5

\* Every step keeps the invariant.
LEMMA InvKept == BandwidthInv /\ [Next]_vars => BandwidthInv'
  <1> SUFFICES ASSUME BandwidthInv, [Next]_vars PROVE BandwidthInv'
    OBVIOUS
  <1>1. CASE vars' = vars
    BY <1>1
    DEF vars, controller, BandwidthInv, EstimationTyped, FitsRateControl, UpdatesTimed,
        OnlyLossesAtFirst, PacketsConserved, TargetInStep
  <1>2. CASE vars' # vars
    <2>1. PICK r, t, m :
            /\ r \in Reports /\ t \in Nat
            /\ now <= t /\ Feedback(r, t) /\ StepFacts(m, r, t)
            /\ reports' \in 0 .. MaxReports
      BY <1>2, FeedbackSteps
    <2>2. /\ PacketsConserved' /\ OnlyLossesAtFirst' /\ pending' \in Count
          /\ reported' \in [lost : Nat, expected : Nat]
          /\ decided' \in [lost : Nat, expected : Nat]
      BY <2>1, PacketsKept
    <2>3. UpdatesTimed' /\ nextLoss' \in MaybeTime /\ moved' \in MaybeTime
      BY <2>1, TimesKept
    <2>4. /\ b' \in Estimation(t) /\ a' \in Control /\ now' = t
          /\ FitsRateControl' /\ TargetInStep'
      BY <2>1 DEF StepFacts, Feedback
    <2>5. told' \in Nat
      <3>1. told' = told \/ told' = CurrentEstimate(b')
        BY <2>1 DEF Feedback, OnTransportPacketsFeedback, FollowResult, KeepTarget
      <3>2. b'.current \in Nat /\ told \in Nat
        BY <2>1, <2>4, FieldsTyped DEF BandwidthInv, EstimationTyped
      <3> QED BY <3>1, <3>2, LimitsAssumption DEF CurrentEstimate, AtLeast, LimitsAssumption
    <2>6. EstimationTyped' BY <2>1, <2>2, <2>3, <2>4, <2>5 DEF EstimationTyped
    <2> QED BY <2>2, <2>3, <2>4, <2>6 DEF BandwidthInv
  <1> QED BY <1>1, <1>2

\* The invariant implies the properties of a state.
LEMMA InvImplies == BandwidthInv => TypeOK /\ EstimateCapped
  <1> SUFFICES ASSUME BandwidthInv PROVE TypeOK /\ EstimateCapped
    OBVIOUS
  <1>1. EstimateCapped
    BY DEF BandwidthInv, FitsRateControl, Fits, EstimateCapped
  <1>2. /\ b.current \in Nat /\ b.delayBased \in Nat /\ b.loss \in 0 .. 255
        /\ b.rtt \in Nat
        /\ b.lost \in Nat /\ b.expected \in Nat
        /\ b.lost <= b.expected /\ b.expected <= kLimitNumPackets - 1
        /\ b.first \in MaybeTime /\ b.report \in MaybeTime /\ b.decrease \in MaybeTime
        /\ b.hasDecreased \in BOOLEAN
        /\ b.minHistory \in Seq(Entry(now))
    BY FieldsTyped DEF BandwidthInv, EstimationTyped
  <1>3. \A i \in DOMAIN b.minHistory : b.minHistory[i] \in [time : 0 .. now, rate : Nat]
    <2>1. \A i \in DOMAIN b.minHistory : b.minHistory[i] \in Entry(now) BY <1>2
    <2> QED BY <2>1 DEF Entry
  <1>4. b.lost \in 0 .. b.expected /\ b.expected \in 0 .. kLimitNumPackets - 1
    <2>1. b \in Estimation(now) BY DEF BandwidthInv, EstimationTyped
    <2> QED BY <2>1 DEF Estimation, Counted
  <1>5. /\ a.current \in Nat /\ a.state \in {"Hold", "Increase"} /\ a.throughput \in Nat
        /\ pending.lost \in 0 .. pending.expected
        /\ {b.first, b.report, b.decrease, moved, nextLoss} \subseteq MaybeTime
        /\ told \in Nat /\ now \in Nat /\ reports \in 0 .. MaxReports
    BY <1>2 DEF BandwidthInv, EstimationTyped, Control, Count
  <1>6. TypeOK BY <1>2, <1>3, <1>4, <1>5 DEF TypeOK, MaybeTime
  <1> QED BY <1>1, <1>6

\* The inductive invariant holds throughout: types, the limits of the two parts, the
\* times of updates, the count of packets and the target.
THEOREM BandwidthInvariant == Spec => []BandwidthInv
  <1> QED BY InvHoldsInitially, InvKept, PTL DEF Spec

\* The variables of the bandwidth estimation have their types: in particular the
\* loss rate fits its 8 bits, no more packets are lost than are expected, and
\* fewer than a loss rate takes are kept for the next one.
THEOREM TypeCorrect == Spec => []TypeOK
  <1> QED BY BandwidthInvariant, InvImplies, PTL

\* The estimate stays between the limits, and below the delay-based estimate,
\* whatever loss reports, delay-based results and probes come.
THEOREM EstimateIsCapped == Spec => []EstimateCapped
  <1> QED BY BandwidthInvariant, InvImplies, PTL

\* Every packet reported goes into exactly one loss rate.
THEOREM PacketsAreConserved == Spec => []PacketsConserved
  <1>1. BandwidthInv => PacketsConserved BY DEF BandwidthInv
  <1> QED BY <1>1, BandwidthInvariant, PTL

\* The program's target is the estimate after every feedback with a received packet.
THEOREM TargetIsInStep == Spec => []TargetInStep
  <1>1. BandwidthInv => TargetInStep BY DEF BandwidthInv
  <1> QED BY <1>1, BandwidthInvariant, PTL

\* No delay takes the rate down: an estimate falls only for a loss rate above 10%
\* or to a probe's result.
THEOREM DelayNeverLowers == Spec => NoFallForDelay
  <1> DEFINE Falls ==
        /\ Probed \/ a'.current >= a.current
        /\ b'.current < b.current => Probed \/ b'.loss > highLossThreshold
  <1>1. BandwidthInv /\ [Next]_vars => [Falls]_vars
    <2> SUFFICES ASSUME BandwidthInv, [Next]_vars, vars' # vars PROVE Falls
      BY DEF Falls
    <2>1. PICK r, t, m :
            /\ r \in Reports /\ t \in Nat
            /\ now <= t /\ Feedback(r, t) /\ StepFacts(m, r, t)
      BY FeedbackSteps
    <2>2. report' = r BY <2>1 DEF StepFacts, Account
    <2>3. Probed <=> (r.probe # NoRate /\ r.received > 0) BY <2>2 DEF Probed
    <2>4. b.current \in Nat /\ b'.current \in Nat /\ m.current \in Nat
      BY <2>1, FieldsTyped DEF StepFacts, Measured, BandwidthInv, EstimationTyped
    <2>5. m.current < b.current => b'.loss > highLossThreshold
      BY <2>1 DEF StepFacts, Measured
    <2>6. Probed \/ a'.current >= a.current BY <2>1, <2>3 DEF StepFacts
    <2>7. Probed \/ b'.current >= m.current \/ b'.current >= b.current
      BY <2>1, <2>3 DEF StepFacts
    <2>8. b'.current < b.current => Probed \/ m.current < b.current BY <2>4, <2>7
    <2> QED BY <2>5, <2>6, <2>8
  <1> QED BY <1>1, BandwidthInvariant, PTL DEF Spec, NoFallForDelay

\* The loss-based part moves the estimate at most once a second: up by 8% and
\* 1 kbps, down by half.
THEOREM MovesAreApart == Spec => MovesApart
  <1> DEFINE Apart ==
        moved' # moved =>
          /\ moved = Unset \/ moved' - moved > kLossUpdateInterval
          /\ ~Probed => \/ b'.current <= EightPercentMore(b.current) + 1000
                        \/ b'.loss = 0 /\ IsInStartPhase(b, now')
          /\ ~Probed => 2 * b'.current >= b.current - 1
  <1>1. BandwidthInv /\ [Next]_vars => [Apart]_vars
    <2> SUFFICES ASSUME BandwidthInv, [Next]_vars, vars' # vars PROVE Apart
      BY DEF Apart
    <2>1. PICK r, t, m :
            /\ r \in Reports /\ t \in Nat
            /\ now <= t /\ Feedback(r, t) /\ StepFacts(m, r, t)
      BY FeedbackSteps
    <2>2. report' = r /\ now' = t BY <2>1 DEF StepFacts, Account, Feedback
    <2>3. Probed <=> (r.probe # NoRate /\ r.received > 0) BY <2>2 DEF Probed
    <2>4. moved' # moved => moved = Unset \/ moved' - moved > kLossUpdateInterval
      BY <2>1, TimesKept
    <2>5. b.current \in Nat /\ b'.current \in Nat /\ m.current \in Nat
      BY <2>1, FieldsTyped DEF StepFacts, Measured, BandwidthInv, EstimationTyped
    <2>6. /\ \/ m.current <= EightPercentMore(b.current) + 1000
             \/ m.loss = 0 /\ IsInStartPhase(b, t)
          /\ 2 * m.current >= b.current - 1 /\ b'.loss = m.loss
      BY <2>1 DEF StepFacts, Measured, Raised
    <2>7. ~Probed => /\ b'.current <= m.current
                     /\ b'.current >= m.current \/ b'.current >= b.current
      BY <2>1, <2>3 DEF StepFacts
    <2>8. EightPercentMore(b.current) \in Nat BY <2>5, EightPercentMoreBounds
    <2>9. ~Probed => \/ b'.current <= EightPercentMore(b.current) + 1000
                     \/ b'.loss = 0 /\ IsInStartPhase(b, now')
      BY <2>2, <2>5, <2>6, <2>7, <2>8
    <2>10. ~Probed => 2 * b'.current >= b.current - 1 BY <2>5, <2>6, <2>7
    <2> QED BY <2>4, <2>9, <2>10
  <1> QED BY <1>1, BandwidthInvariant, PTL DEF Spec, MovesApart
================================================================================
