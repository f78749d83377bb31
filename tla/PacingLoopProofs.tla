--------------------------- MODULE PacingLoopProofs ---------------------------
(* Proofs about PacingLoop, for all values of its constants. *)
EXTENDS PacingLoop, Induction

(***************************************************************************)
(* The budget.  RateKept alone is not inductive: the budget is also given  *)
(* anew when it is 0, within the second.  That nothing was spent then      *)
(* follows from MaySend, which leaves at least one byte of the budget, and *)
(* from the absence of a budget before there is a server.                  *)
(***************************************************************************)
BudgetTypeOK ==
  /\ available \in Rates
  /\ pacing_bitrates \in 0 .. BudgetMod - 1
  /\ granted \in Nat
  /\ spent \in Nat

NothingSpentOfNothing == pacing_bitrates = 0 => spent = 0

NoBudgetWithoutServer == ~server => pacing_bitrates = 0

\* The budget is a fifth of an estimate of this second.
GrantedInForce ==
  /\ available \in inForce
  /\ granted = 0 \/ \E rate \in inForce : granted = rate \div 5

BudgetInv ==
  /\ BudgetTypeOK
  /\ RateKept
  /\ NothingSpentOfNothing
  /\ NoBudgetWithoutServer
  /\ GrantedInForce

\* A fifth of an estimate is a budget that fits in pacing_bitrates.
LEMMA FifthFits ==
  ASSUME NEW rate \in Rates
  PROVE  /\ rate \div 5 \in 0 .. BudgetMod - 1
         /\ rate \div 5 \in Nat
  BY PacingConstants DEF PacingConstants

\* What is left after a packet that MaySend admits is positive and did not wrap.
LEMMA NoWrap ==
  ASSUME pacing_bitrates \in 0 .. BudgetMod - 1, pacing_bitrates > Length
  PROVE  /\ (pacing_bitrates - Length) % BudgetMod = pacing_bitrates - Length
         /\ pacing_bitrates - Length \in 1 .. BudgetMod - 1
  <1>1. Length \in Nat /\ BudgetMod \in Nat BY PacingConstants DEF PacingConstants
  <1>2. pacing_bitrates - Length \in 1 .. BudgetMod - 1 BY <1>1
  <1> DEFINE left == pacing_bitrates - Length
  <1>3. left \in 0 .. BudgetMod - 1 => left % BudgetMod = left
    <2> HIDE DEF left
    <2> QED BY <1>1
  <1> QED BY <1>2, <1>3

\* Initially there is neither a budget nor anything spent.
LEMMA BudgetInit == Init => BudgetInv
  BY PacingConstants
  DEF Init, BudgetInv, BudgetTypeOK, RateKept, NothingSpentOfNothing,
      NoBudgetWithoutServer, GrantedInForce, PacingConstants

\* The invariant is kept by every step: only Refresh and SendOne touch the budget.
LEMMA BudgetStep == BudgetInv /\ [Next]_vars => BudgetInv'
  <1> SUFFICES ASSUME BudgetInv, [Next]_vars PROVE BudgetInv'
    OBVIOUS
  <1> USE DEF BudgetInv, BudgetTypeOK, RateKept, NothingSpentOfNothing,
              NoBudgetWithoutServer, GrantedInForce, budget
  <1>1. CASE Refresh
    <2> available \div 5 \in 0 .. BudgetMod - 1 /\ available \div 5 \in Nat
      BY FifthFits
    <2>1. CASE (pacing_bitrates = 0 \/ SecondOver) /\ server
      <3>1. pacing_bitrates' = available \div 5 /\ granted' = available \div 5
        BY <1>1, <2>1 DEF Refresh
      <3>2. spent' = 0 BY <1>1, <2>1 DEF Refresh
      <3> QED BY <1>1, <2>1, <3>1, <3>2 DEF Refresh
    <2>2. CASE ~((pacing_bitrates = 0 \/ SecondOver) /\ server)
      <3>1. UNCHANGED <<pacing_bitrates, granted>> BY <1>1, <2>2 DEF Refresh
      <3>2. CASE SecondOver
        <4>1. pacing_bitrates = 0 /\ spent = 0 /\ granted = 0 BY <2>2, <3>2
        <4> QED BY <1>1, <3>1, <3>2, <4>1 DEF Refresh
      <3>3. CASE ~SecondOver
        <4>1. spent' = spent BY <1>1, <3>3 DEF Refresh
        <4> QED BY <1>1, <3>1, <4>1 DEF Refresh
      <3> QED BY <3>2, <3>3
    <2> QED BY <2>1, <2>2
  <1>2. CASE Produce
    BY <1>2 DEF Produce
  <1>3. CASE SendOne
    <2>1. /\ pacing_bitrates' = pacing_bitrates - Length
          /\ pacing_bitrates - Length \in 1 .. BudgetMod - 1
      BY <1>3, NoWrap DEF SendOne, MaySend
    <2>2. spent' = spent + Length /\ granted' = granted /\ server' = server
      BY <1>3 DEF SendOne
    <2>3. available' = available BY <1>3 DEF SendOne
    <2>4. Length \in Nat BY PacingConstants DEF PacingConstants
    <2> QED BY <1>3, <2>1, <2>2, <2>3, <2>4 DEF SendOne, MaySend
  <1>4. CASE EndFlush
    BY <1>4 DEF EndFlush
  <1>5. CASE Sleep
    BY <1>5 DEF Sleep
  <1>6. CASE MainCreatesServer
    BY <1>6 DEF MainCreatesServer
  <1>7. CASE OnTargetTransferRate
    BY <1>7 DEF OnTargetTransferRate
  <1>8. CASE UNCHANGED vars
    BY <1>8 DEF vars
  <1>9. CASE SendFails
    BY <1>9 DEF SendFails
  <1> QED BY <1>1, <1>2, <1>3, <1>4, <1>5, <1>6, <1>7, <1>8, <1>9 DEF Next, Test

\* In every second the bytes sent and the budget left make up the budget that
\* was given: the sender never exceeds the rate, whatever the estimate, the
\* clock and the moment the server appears.
THEOREM RateIsKept == Spec => []RateKept
  <1>1. BudgetInv => RateKept BY DEF BudgetInv
  <1> QED BY BudgetInit, BudgetStep, <1>1, PTL DEF Spec

\* What is sent in a second is at most a fifth of an estimate of that second.
THEOREM SentIsWithinEstimate == Spec => []SentWithinEstimate
  <1>1. BudgetInv => SentWithinEstimate
    <2> SUFFICES ASSUME BudgetInv PROVE SentWithinEstimate
      OBVIOUS
    <2>1. spent \in Nat /\ pacing_bitrates \in Nat /\ spent + pacing_bitrates = granted
      BY PacingConstants DEF BudgetInv, BudgetTypeOK, RateKept, PacingConstants
    <2>2. spent <= granted BY <2>1
    <2>3. CASE granted = 0
      <3>1. available \in inForce /\ available \div 5 \in Nat
        BY FifthFits DEF BudgetInv, GrantedInForce, BudgetTypeOK
      <3>2. spent = 0 BY <2>1, <2>3
      <3>3. spent <= available \div 5 BY <3>1, <3>2
      <3> QED BY <3>1, <3>3 DEF SentWithinEstimate
    <2>4. CASE granted # 0
      BY <2>2, <2>4 DEF BudgetInv, GrantedInForce, SentWithinEstimate
    <2> QED BY <2>3, <2>4
  <1> QED BY BudgetInit, BudgetStep, <1>1, PTL DEF Spec

(***************************************************************************)
(* The queue.  That it holds each number once is what the type invariant   *)
(* says of the std::map; the order in which packets leave follows from     *)
(* that and from the absence of a step down.                               *)
(***************************************************************************)
Numbers == 0 .. SeqSpace - 1

LEMMA RemovedAt ==
  ASSUME NEW q, NEW e, NEW i, i \in 1 .. Len(q), q[i] = e,
         \A j \in 1 .. Len(q) : q[j] = e => j = i
  PROVE  RemoveFirst(q, e) = RemoveAt(q, i)
  <1>1. {j \in 1 .. Len(q) : q[j] = e} = {i} OBVIOUS
  <1>2. Min({i}) = i BY DEF Min
  <1> QED BY <1>1, <1>2 DEF RemoveFirst, SelectInSeq

LEMMA NoneRemoved ==
  ASSUME NEW q, NEW e, ~ \E i \in 1 .. Len(q) : q[i] = e
  PROVE  RemoveFirst(q, e) = q
  BY DEF RemoveFirst

\* A queue without the number e, which it has at most once.
LEMMA Removed ==
  ASSUME NEW S, NEW q \in Seq(S), IsInjective(q), NEW e
  PROVE  LET r == RemoveFirst(q, e)
         IN /\ r \in Seq(S) /\ IsInjective(r)
            /\ \A k \in DOMAIN r : r[k] # e
            /\ Len(r) >= Len(q) - 1
  <1> DEFINE r == RemoveFirst(q, e)
  <1>1. CASE \E i \in 1 .. Len(q) : q[i] = e
    <2>1. PICK i \in 1 .. Len(q) : q[i] = e BY <1>1
    <2>2. \A j \in 1 .. Len(q) : q[j] = e => j = i BY <2>1 DEF IsInjective
    <2>3. r = SubSeq(q, 1, i - 1) \o SubSeq(q, i + 1, Len(q)) 
      <3>1. RemoveFirst(q, e) = RemoveAt(q, i)
        <4> HIDE DEF r
        <4> QED BY <2>1, <2>2, RemovedAt
      <3> QED BY <3>1 DEF RemoveAt
    <2>4. /\ r \in Seq(S) /\ Len(r) = Len(q) - 1
          /\ \A k \in 1 .. Len(q) - 1 : r[k] = IF k < i THEN q[k] ELSE q[k + 1]
      <3> DEFINE front == SubSeq(q, 1, i - 1)
                 back == SubSeq(q, i + 1, Len(q))
                 n == Len(q)
      <3>1. n \in Nat OBVIOUS
      <3>2. front \in Seq(S) /\ Len(front) = i - 1 /\ \A k \in 1 .. i - 1 : front[k] = q[k]
        OBVIOUS
      <3>3. /\ back \in Seq(S) /\ Len(back) = n - i
            /\ \A k \in 1 .. n - i : back[k] = q[k + i]
        OBVIOUS
      <3> HIDE DEF front, back
      <3>4. /\ front \o back \in Seq(S) /\ Len(front \o back) = n - 1
            /\ \A k \in 1 .. n - 1 : (front \o back)[k] =
                 IF k <= i - 1 THEN front[k] ELSE back[k - (i - 1)]
        <4>1. Len(front) + Len(back) = n - 1 BY <3>1, <3>2, <3>3
        <4>2. Len(front \o back) = Len(front) + Len(back) BY <3>2, <3>3
        <4>3. front \o back \in Seq(S) BY <3>2, <3>3
        <4>4. \A k \in 1 .. Len(front) + Len(back) : (front \o back)[k] =
                IF k <= Len(front) THEN front[k] ELSE back[k - Len(front)]
          BY <3>2, <3>3
        <4> QED BY <3>2, <4>1, <4>2, <4>3, <4>4
      <3>5. \A k \in 1 .. n - 1 : k > i - 1 => back[k - (i - 1)] = q[k + 1]
        BY <3>1, <3>3
      <3>6. r = front \o back BY <2>3 DEF front, back
      <3> HIDE DEF n, r
      <3>7. r \in Seq(S) /\ Len(r) = n - 1 BY <3>4, <3>6
      <3>8. ASSUME NEW k \in 1 .. n - 1
            PROVE  r[k] = IF k < i THEN q[k] ELSE q[k + 1]
        <4>1. CASE k < i
          <5>1. k \in 1 .. i - 1 /\ k <= i - 1 BY <4>1
          <5> QED BY <3>2, <3>4, <3>6, <4>1, <5>1
        <4>2. CASE ~(k < i)
          <5>1. k > i - 1 /\ ~(k <= i - 1) BY <4>2
          <5> QED BY <3>4, <3>5, <3>6, <4>2, <5>1
        <4> QED BY <4>1, <4>2
      <3> QED BY <3>7, <3>8 DEF n
    <2> HIDE DEF r
    <2>5. DOMAIN r = 1 .. Len(q) - 1 BY <2>4
    <2>6. \A k \in DOMAIN r : r[k] # e BY <2>2, <2>4, <2>5
    <2>7. IsInjective(r)
      <3> SUFFICES ASSUME NEW a \in DOMAIN r, NEW b \in DOMAIN r, r[a] = r[b] PROVE a = b
        BY DEF IsInjective
      <3> DEFINE At(k) == IF k < i THEN k ELSE k + 1
      <3>1. q[At(a)] = q[At(b)] /\ At(a) \in DOMAIN q /\ At(b) \in DOMAIN q
        BY <2>4, <2>5
      <3>2. At(a) = At(b) BY <3>1 DEF IsInjective
      <3> QED BY <2>5, <3>2
    <2> QED BY <2>4, <2>6, <2>7 DEF r
  <1>2. CASE ~ \E i \in 1 .. Len(q) : q[i] = e
    <2>1. r = q BY <1>2, NoneRemoved
    <2> QED BY <1>2, <2>1
  <1> QED BY <1>1, <1>2

\* The state that Spec's steps keep: TypeOK.
LEMMA QueueInit == Init => TypeOK
  <1> SUFFICES ASSUME Init PROVE TypeOK
    OBVIOUS
  <1>1. <<>> \in Seq(0 .. SeqSpace - 1) /\ IsInjective(<<>>) BY DEF IsInjective
  <1>2. 1 \in 0 .. SeqSpace - 1 BY PacingConstants DEF PacingConstants
  <1>3. 0 \in 0 .. BudgetMod - 1
    <2>1. PICK rate \in Rates : rate \in Nat /\ rate < BudgetMod
      BY PacingConstants DEF PacingConstants
    <2> QED BY <2>1, PacingConstants DEF PacingConstants
  <1>4. send_packets \in Seq(0 .. SeqSpace - 1) /\ IsInjective(send_packets)
    BY <1>1 DEF Init
  <1>5. inForce \in SUBSET Rates BY DEF Init
  <1>6. server \in BOOLEAN BY DEF Init
  <1>7. seq \in 0 .. SeqSpace - 1 /\ pacing_bitrates \in 0 .. BudgetMod - 1
    BY <1>2, <1>3 DEF Init
  <1>8. /\ pc \in {"refresh", "produce", "flush", "sleep", "ended"} /\ available \in Rates
        /\ sincePre \in Int /\ sinceSend \in Int /\ granted \in Nat /\ spent \in Nat
    BY DEF Init
  <1> QED BY <1>4, <1>5, <1>6, <1>7, <1>8 DEF TypeOK

LEMMA NumbersWrap ==
  ASSUME NEW n \in 0 .. SeqSpace - 1
  PROVE  (n + 1) % SeqSpace \in 0 .. SeqSpace - 1
  BY PacingConstants DEF PacingConstants

LEMMA QueueStep == TypeOK /\ [Next]_vars => TypeOK'
  <1> SUFFICES ASSUME TypeOK, [Next]_vars PROVE TypeOK'
    OBVIOUS
  <1>1. CASE Refresh
    <2>1. available \div 5 \in 0 .. BudgetMod - 1 /\ available \div 5 \in Nat
      BY FifthFits DEF TypeOK
    <2>2. {available} \in SUBSET Rates BY DEF TypeOK
    <2>3. /\ pc' = "produce" /\ UNCHANGED <<server, available, seq, sinceSend, send_packets>>
          /\ sincePre' \in Int /\ spent' \in Nat /\ inForce' \in SUBSET Rates
      BY <1>1, <2>2 DEF Refresh, TypeOK
    <2>4. pacing_bitrates' \in 0 .. BudgetMod - 1 /\ granted' \in Nat
      BY <1>1, <2>1 DEF Refresh, TypeOK
    <2> QED BY <2>3, <2>4 DEF TypeOK
  <1>2. CASE Produce
    <2>1. Enqueued \in Seq(0 .. SeqSpace - 1) /\ IsInjective(Enqueued)
      <3> DEFINE q == RemoveFirst(send_packets, seq)
                 D == 0 .. SeqSpace - 1
      <3>1. send_packets \in Seq(D) /\ IsInjective(send_packets) /\ seq \in D BY DEF TypeOK
      <3> HIDE DEF D
      <3>2. q \in Seq(D) /\ IsInjective(q) /\ \A k \in DOMAIN q : q[k] # seq
        BY <3>1, Removed
      <3> HIDE DEF q
      <3>3. Append(q, seq) \in Seq(D) BY <3>1, <3>2
      <3>4. IsInjective(Append(q, seq)) BY <3>2 DEF IsInjective
      <3> QED BY <3>3, <3>4 DEF Enqueued, q, D
    <2>2. pc' \in {"flush", "sleep"} /\ sinceSend' \in Int BY <1>2 DEF Produce, TypeOK
    <2> QED BY <1>2, <2>1, <2>2 DEF Produce, TypeOK, budget
  <1>3. CASE SendOne
    <2>1. /\ send_packets' \in Seq(0 .. SeqSpace - 1) /\ IsInjective(send_packets')
      <3> DEFINE D == 0 .. SeqSpace - 1
      <3>1. send_packets \in Seq(D) /\ IsInjective(send_packets) BY DEF TypeOK
      <3> HIDE DEF D
      <3>2. send_packets' = RemoveFirst(send_packets, First) BY <1>3 DEF SendOne
      <3>3. send_packets' \in Seq(D) /\ IsInjective(send_packets') BY <3>1, <3>2, Removed
      <3> QED BY <3>3 DEF D
    <2>2. pacing_bitrates' \in 0 .. BudgetMod - 1
      BY <1>3, NoWrap DEF SendOne, MaySend, TypeOK
    <2>3. spent' \in Nat BY <1>3, PacingConstants DEF SendOne, TypeOK, PacingConstants
    <2> QED BY <1>3, <2>1, <2>2, <2>3 DEF SendOne, TypeOK, clock
  <1>4. CASE EndFlush BY <1>4 DEF EndFlush, TypeOK, clock, budget
  <1>5. CASE Sleep
    <2>1. sincePre' \in Int /\ sinceSend' \in Int
      BY <1>5, PacingConstants DEF Sleep, TypeOK, PacingConstants
    <2>2. seq' \in 0 .. SeqSpace - 1 BY <1>5, NumbersWrap DEF Sleep, TypeOK
    <2> QED BY <1>5, <2>1, <2>2 DEF Sleep, TypeOK, budget
  <1>6. CASE MainCreatesServer BY <1>6 DEF MainCreatesServer, TypeOK, clock, budget
  <1>7. CASE OnTargetTransferRate BY <1>7 DEF OnTargetTransferRate, TypeOK, clock, budget
  <1>8. CASE UNCHANGED vars BY <1>8 DEF vars, TypeOK, clock, budget
  <1>9. CASE SendFails BY <1>9 DEF SendFails, TypeOK, clock, budget
  <1> QED BY <1>1, <1>2, <1>3, <1>4, <1>5, <1>6, <1>7, <1>8, <1>9 DEF Next, Test

\* In particular the queue holds each number once, like the std::map, and the
\* budget stays a uint32_t.
THEOREM PacingTypeCorrect == Spec => []TypeOK
  BY QueueInit, QueueStep, PTL DEF Spec

\* A queue with no step down is sorted: its first number is the least.
LEMMA FrontIsLeast ==
  ASSUME NEW q \in Seq(Int), q # <<>>, ~Straddles(q)
  PROVE  \A i \in DOMAIN q : q[1] <= q[i]
  <1> DEFINE n == Len(q) - 1
             T == {k \in 0 .. n : q[1] <= q[k + 1]}
  <1>1. n \in Nat /\ \A k \in 0 .. n : k + 1 \in DOMAIN q /\ q[k + 1] \in Int OBVIOUS
  <1>2. 0 \in T BY <1>1
  <1>3. ASSUME NEW k \in 0 .. n - 1, k \in T PROVE k + 1 \in T
    <2>1. k + 1 \in 1 .. Len(q) - 1 /\ k \in 0 .. n /\ k + 1 \in 0 .. n BY <1>1, <1>3
    <2>2. ~(q[k + 1] > q[(k + 1) + 1]) BY <2>1 DEF Straddles
    <2>3. q[1] \in Int /\ q[k + 1] \in Int /\ q[(k + 1) + 1] \in Int BY <1>1, <2>1
    <2> QED BY <1>3, <2>1, <2>2, <2>3
  <1> HIDE DEF T
  <1>4. \A k \in 0 .. n : k \in T BY <1>1, <1>2, <1>3, InductionUpTo
  <1> SUFFICES ASSUME NEW i \in DOMAIN q PROVE q[1] <= q[i]
    OBVIOUS
  <1>5. i - 1 \in 0 .. n OBVIOUS
  <1>6. i - 1 \in T BY <1>4, <1>5
  <1>7. (i - 1) + 1 = i BY <1>5
  <1> QED BY <1>6, <1>7 DEF T

\* Packets leave in the order in which they were produced, unless the backlog
\* reaches across the wrap of the sequence number.
THEOREM OldestGoesFirst == Spec => OldestFirst
  <1> DEFINE InOrder == Len(send_packets') < Len(send_packets) /\ ~Straddles(send_packets)
                          => send_packets' = Tail(send_packets)
             D == 0 .. SeqSpace - 1
  <1>1. TypeOK /\ [Next]_vars => [InOrder]_vars
    <2> SUFFICES ASSUME TypeOK, Next, Len(send_packets') < Len(send_packets),
                        ~Straddles(send_packets)
                 PROVE  send_packets' = Tail(send_packets)
      OBVIOUS
    <2>1. send_packets \in Seq(D) /\ IsInjective(send_packets) BY DEF TypeOK
    <2>2. send_packets \in Seq(Int) BY <2>1, PacingConstants DEF PacingConstants
    <2>3. Len(send_packets) \in Nat BY <2>2
    <2>4. send_packets' # send_packets BY <2>3
    <2>5. ~Produce
      <3> SUFFICES ASSUME Produce PROVE FALSE
        OBVIOUS
      <3>1. send_packets' = Enqueued BY <2>4 DEF Produce
      <3> DEFINE r == RemoveFirst(send_packets, seq)
      <3>2. r \in Seq(Int) /\ Len(r) >= Len(send_packets) - 1 BY <2>1, <2>2, Removed
      <3> HIDE DEF r
      <3>3. Len(Append(r, seq)) = Len(r) + 1 /\ Len(r) \in Nat BY <3>2
      <3> QED BY <2>3, <3>1, <3>2, <3>3 DEF Enqueued, r
    <2>6. SendOne
      BY <2>4, <2>5 DEF Next, Test, Refresh, SendFails, EndFlush, Sleep, MainCreatesServer,
                        OnTargetTransferRate
    <2>7. send_packets # <<>> /\ send_packets' = RemoveFirst(send_packets, First)
      BY <2>6 DEF SendOne, MaySend
    <2>8. \A i \in DOMAIN send_packets : send_packets[1] <= send_packets[i]
      BY <2>2, <2>7, FrontIsLeast
    <2>9. 1 \in DOMAIN send_packets BY <2>2, <2>7
    <2>10. First = send_packets[1]
      <3> DEFINE Held == ToSet(send_packets)
                 least == send_packets[1]
      <3>1. Held \subseteq Int BY <2>2 DEF ToSet
      <3>2. least \in Held /\ \A m \in Held : least <= m BY <2>8, <2>9 DEF ToSet
      <3> HIDE DEF Held, least
      <3>3. \A n \in Held : (\A m \in Held : n <= m) => n = least BY <3>1, <3>2
      <3>4. First = least BY <3>2, <3>3 DEF First, Held
      <3> QED BY <3>4 DEF least
    <2>11. \A j \in 1 .. Len(send_packets) : send_packets[j] = First => j = 1
      BY <2>1, <2>9, <2>10 DEF IsInjective
    <2>12. send_packets' = SubSeq(send_packets, 1, 1 - 1)
                            \o SubSeq(send_packets, 1 + 1, Len(send_packets))
      <3> DEFINE q == send_packets
                 e == First
      <3>1. q[1] = e /\ 1 \in 1 .. Len(q) /\ send_packets' = RemoveFirst(q, e)
        BY <2>2, <2>7, <2>9, <2>10
      <3> HIDE DEF q, e
      <3>2. \A j \in 1 .. Len(q) : q[j] = e => j = 1 BY <2>11 DEF q, e
      <3>3. send_packets' = RemoveAt(q, 1) BY <3>1, <3>2, RemovedAt
      <3> QED BY <3>3 DEF RemoveAt, q
    <2> DEFINE q == send_packets
               back == SubSeq(q, 2, Len(q))
    <2>13. back \in Seq(Int) /\ SubSeq(q, 1, 0) = <<>> /\ Tail(q) = back
      BY <2>2, <2>7
    <2>14. <<>> \o back = back BY <2>13
    <2> QED BY <2>12, <2>13, <2>14
  <1> QED BY <1>1, QueueInit, QueueStep, PTL DEF Spec, OldestFirst
=============================================================================
