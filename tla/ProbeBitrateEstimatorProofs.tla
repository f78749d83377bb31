---------------------- MODULE ProbeBitrateEstimatorProofs ----------------------
(* Proofs about ProbeBitrateEstimator, for all values of its constants. *)
EXTENDS ProbeBitrateEstimator, SequenceTheorems, Induction

Packet == [send : Int, receive : Int]

(***************************************************************************)
(* What holds of a cluster after the first n of the packets p.  Packet m   *)
(* opened the stream.                                                      *)
(***************************************************************************)
Spans(c, p, m, n) ==
  /\ c = [firstSend |-> c.firstSend, lastSend |-> c.lastSend,
          firstReceive |-> c.firstReceive, lastReceive |-> c.lastReceive,
          total |-> (n - m + 1) * PacketLength]
  /\ \E i \in m .. n : c.firstSend = p[i].send
  /\ \E i \in m .. n : c.lastSend = p[i].send
  /\ \E i \in m .. n : c.firstReceive = p[i].receive
  /\ \E i \in m .. n : c.lastReceive = p[i].receive
  /\ \A i \in m .. n : /\ c.firstSend <= p[i].send /\ p[i].send <= c.lastSend
                       /\ c.firstReceive <= p[i].receive
  /\ \A i \in 1 .. n : p[i].receive <= c.lastReceive

Describes(c, p, n, packets) ==
  IF n = 0 THEN c = NoCluster /\ packets = <<>>
  ELSE \E m \in 1 .. n : /\ StartsStream(p, m)
                         /\ Spans(c, p, m, n)
                         /\ packets = SubSeq(p, m, n)

EstimatorInv ==
  /\ arrivals \in Seq(Packet)
  /\ Describes(cluster, arrivals, Len(arrivals), members)
  /\ probe \in Nat

(***************************************************************************)
(* Extremes                                                                *)
(***************************************************************************)

\* A bound that is in the set is its maximum (its minimum).
LEMMA MaxIs ==
  ASSUME NEW S, S \subseteq Int, NEW a \in S, \A x \in S : x <= a
  PROVE  Max(S) = a
  <1>1. \A x \in S : a >= x OBVIOUS
  <1>2. \A b \in S : (\A x \in S : b >= x) => b = a OBVIOUS
  <1> QED BY <1>1, <1>2 DEF Max

LEMMA MinIs ==
  ASSUME NEW S, S \subseteq Int, NEW a \in S, \A x \in S : a <= x
  PROVE  Min(S) = a
  <1>1. \A x \in S : a =< x OBVIOUS
  <1>2. \A b \in S : (\A x \in S : b =< x) => b = a OBVIOUS
  <1> QED BY <1>1, <1>2 DEF Min

\* Numbers in a row have a largest one.
LEMMA LargestOf ==
  ASSUME NEW n \in Nat \ {0}, NEW f, \A i \in 1 .. n : f[i] \in Int
  PROVE  \E i \in 1 .. n : \A j \in 1 .. n : f[j] <= f[i]
  <1> DEFINE T == {k \in 0 .. n : k = 0 \/ \E i \in 1 .. k : \A j \in 1 .. k : f[j] <= f[i]}
  <1>1. 0 \in T OBVIOUS
  <1>2. ASSUME NEW k \in 0 .. n - 1, k \in T PROVE k + 1 \in T
    <2>1. k + 1 \in 1 .. n /\ f[k + 1] \in Int OBVIOUS
    <2>2. CASE k = 0
      <3>1. \A j \in 1 .. k + 1 : f[j] <= f[1] BY <2>1, <2>2
      <3> QED BY <2>1, <2>2, <3>1
    <2>3. CASE k # 0
      <3>1. PICK i \in 1 .. k : \A j \in 1 .. k : f[j] <= f[i] BY <1>2, <2>3
      <3>2. i \in 1 .. n /\ f[i] \in Int BY <2>1
      <3>3. CASE f[k + 1] <= f[i]
        <4>1. \A j \in 1 .. k + 1 : f[j] <= f[i] BY <3>1, <3>3
        <4> QED BY <2>1, <4>1
      <3>4. CASE ~(f[k + 1] <= f[i])
        <4>1. \A j \in 1 .. k : f[j] \in Int BY <2>1
        <4>2. \A j \in 1 .. k + 1 : f[j] <= f[k + 1] BY <2>1, <3>1, <3>2, <3>4, <4>1
        <4> QED BY <2>1, <4>2
      <3> QED BY <3>3, <3>4
    <2> QED BY <2>2, <2>3
  <1> HIDE DEF T
  <1>3. n \in T BY <1>1, <1>2, InductionUpTo
  <1> QED BY <1>3 DEF T

\* Packets that are the same have the same times, however they are numbered.
LEMMA SameTimes ==
  ASSUME NEW D, NEW E, NEW q, NEW p,
         \A i \in D : \E j \in E : q[i] = p[j],
         \A j \in E : \E i \in D : p[j] = q[i]
  PROVE  /\ {q[i].send : i \in D} = {p[j].send : j \in E}
         /\ {q[i].receive : i \in D} = {p[j].receive : j \in E}
  <1>1. ASSUME NEW i \in D PROVE /\ q[i].send \in {p[j].send : j \in E}
                                /\ q[i].receive \in {p[j].receive : j \in E}
    <2>1. PICK j \in E : q[i] = p[j] OBVIOUS
    <2> QED BY <2>1
  <1>2. ASSUME NEW j \in E PROVE /\ p[j].send \in {q[i].send : i \in D}
                                /\ p[j].receive \in {q[i].receive : i \in D}
    <2>1. PICK i \in D : p[j] = q[i] OBVIOUS
    <2> QED BY <2>1
  <1> QED BY <1>1, <1>2

\* The times of a part of a history.
LEMMA TimesOfPart ==
  ASSUME NEW p \in Seq(Packet), NEW m \in 1 .. Len(p) + 1, NEW n \in 0 .. Len(p)
  PROVE  /\ SubSeq(p, m, n) \in Seq(Packet)
         /\ Len(SubSeq(p, m, n)) = (IF m <= n THEN n - m + 1 ELSE 0)
         /\ SendTimes(SubSeq(p, m, n)) = {p[i].send : i \in m .. n}
         /\ ReceiveTimes(SubSeq(p, m, n)) = {p[i].receive : i \in m .. n}
  <1> DEFINE q == SubSeq(p, m, n)
  <1>1. \A i \in m .. n : p[i] \in Packet BY ElementOfSeq
  <1>2. /\ q \in Seq(Packet) /\ Len(q) = (IF m <= n THEN n - m + 1 ELSE 0)
        /\ \A i \in 1 .. n - m + 1 : q[i] = p[m + i - 1]
    BY <1>1, SubSeqProperties
  <1> HIDE DEF q
  <1>3. DOMAIN q = 1 .. Len(q) BY <1>2, LenProperties
  <1>4. \A i \in DOMAIN q : m + i - 1 \in m .. n /\ q[i] = p[m + i - 1] BY <1>2, <1>3
  <1>5. \A i \in m .. n : i - m + 1 \in DOMAIN q /\ q[i - m + 1] = p[i]
    <2> SUFFICES ASSUME NEW i \in m .. n
                 PROVE  i - m + 1 \in DOMAIN q /\ q[i - m + 1] = p[i]
      OBVIOUS
    <2>1. i - m + 1 \in 1 .. n - m + 1 /\ m + (i - m + 1) - 1 = i OBVIOUS
    <2> QED BY <1>2, <1>3, <2>1
  <1>6. \A i \in DOMAIN q : \E j \in m .. n : q[i] = p[j] BY <1>4
  <1>7. \A j \in m .. n : \E i \in DOMAIN q : p[j] = q[i] BY <1>5
  <1> DEFINE D == DOMAIN q
             E == m .. n
  <1>8. (\A i \in D : \E j \in E : q[i] = p[j]) /\ (\A j \in E : \E i \in D : p[j] = q[i])
    BY <1>6, <1>7
  <1>9. SendTimes(q) = {q[i].send : i \in D} /\ ReceiveTimes(q) = {q[i].receive : i \in D}
    BY DEF SendTimes, ReceiveTimes
  <1> HIDE DEF D, E
  <1>10. /\ {q[i].send : i \in D} = {p[j].send : j \in E}
         /\ {q[i].receive : i \in D} = {p[j].receive : j \in E}
    BY <1>8, SameTimes
  <1>11. SendTimes(q) = {p[j].send : j \in E} /\ ReceiveTimes(q) = {p[j].receive : j \in E}
    BY <1>9, <1>10
  <1> QED BY <1>2, <1>11 DEF q, E

(***************************************************************************)
(* One packet                                                              *)
(***************************************************************************)

\* What is described by a history is described by a longer one.
LEMMA DescribesLonger ==
  ASSUME NEW p \in Seq(Packet), NEW r \in Seq(Packet), NEW c, NEW packets,
         Describes(c, p, Len(p), packets)
  PROVE  Describes(c, p \o r, Len(p), packets)
  <1> DEFINE n == Len(p)
             t == p \o r
  <1>1. n \in Nat /\ Len(r) \in Nat BY LenProperties
  <1>2. \A i \in 1 .. n : t[i] = p[i] BY <1>1, ConcatProperties
  <1>3. CASE n = 0 BY <1>3 DEF Describes
  <1>4. CASE n # 0
    <2>1. PICK m \in 1 .. n : /\ StartsStream(p, m) /\ Spans(c, p, m, n)
                              /\ packets = SubSeq(p, m, n)
      BY <1>4 DEF Describes
    <2>2. SubSeq(t, m, n) = SubSeq(p, m, n) BY <1>1, <1>4, SubSeqOfConcat1
    <2>3. StartsStream(t, m)
      <3>1. CASE m = 1 BY <3>1 DEF StartsStream
      <3>2. CASE m # 1
        <4>1. 1 \in 1 .. Len(p) /\ m - 1 \in 1 .. Len(p) BY <1>1, <3>2
        <4>2. SubSeq(t, 1, m - 1) = SubSeq(p, 1, m - 1) BY <4>1, SubSeqOfConcat1
        <4> QED BY <1>2, <2>1, <3>2, <4>2 DEF StartsStream
      <3> QED BY <3>1, <3>2
    <2> HIDE DEF t, n
    <2>4. \A i \in m .. n : i \in 1 .. n BY <1>1
    <2>5. Spans(c, t, m, n) BY <1>2, <2>1, <2>4 DEF Spans
    <2>6. packets = SubSeq(t, m, n) BY <2>1, <2>2 DEF t, n
    <2>7. Describes(c, t, n, packets) BY <1>4, <2>3, <2>5, <2>6 DEF Describes
    <2> QED BY <2>7 DEF t, n
  <1> QED BY <1>3, <1>4

\* The ends of a cluster are the extremes of its packets' times.
LEMMA EndsOf ==
  ASSUME NEW p \in Seq(Packet), NEW n \in 1 .. Len(p), NEW m \in 1 .. n, NEW c,
         Spans(c, p, m, n)
  PROVE  LET q == SubSeq(p, m, n) IN
         /\ {c.firstSend, c.lastSend, c.firstReceive, c.lastReceive} \subseteq Int
         /\ Min(SendTimes(q)) = c.firstSend /\ Max(SendTimes(q)) = c.lastSend
         /\ Min(ReceiveTimes(q)) = c.firstReceive /\ Max(ReceiveTimes(q)) = c.lastReceive
         /\ Max(ReceiveTimes(SubSeq(p, 1, n))) = c.lastReceive
         /\ c.firstSend <= c.lastSend /\ c.firstReceive <= c.lastReceive
         /\ m = n => c.firstReceive = c.lastReceive
         /\ q # <<>> /\ Len(q) = n - m + 1
  <1> DEFINE q == SubSeq(p, m, n)
             sends == {p[i].send : i \in m .. n}
             receives == {p[i].receive : i \in m .. n}
             all == {p[i].receive : i \in 1 .. n}
  <1>1. Len(p) \in Nat /\ m \in 1 .. Len(p) + 1 /\ n \in 0 .. Len(p) /\ 1 \in 1 .. Len(p) + 1
    BY LenProperties
  <1>2. SendTimes(q) = sends /\ ReceiveTimes(q) = receives /\ Len(q) = n - m + 1
        /\ ReceiveTimes(SubSeq(p, 1, n)) = all
    BY <1>1, TimesOfPart
  <1>3. \A i \in 1 .. n : p[i] \in Packet /\ p[i].send \in Int /\ p[i].receive \in Int
    <2>1. \A i \in 1 .. n : p[i] \in Packet BY <1>1, ElementOfSeq
    <2> QED BY <2>1 DEF Packet
  <1>4. \A i \in m .. n : i \in 1 .. n OBVIOUS
  <1>5. sends \subseteq Int /\ receives \subseteq Int /\ all \subseteq Int BY <1>3, <1>4
  <1>6. c.firstSend \in sends /\ c.lastSend \in sends BY DEF Spans
  <1>7. c.firstReceive \in receives /\ c.lastReceive \in receives /\ c.lastReceive \in all
    BY <1>4 DEF Spans
  <1>8. \A x \in sends : c.firstSend <= x /\ x <= c.lastSend BY DEF Spans
  <1>9. \A x \in receives : c.firstReceive <= x /\ x <= c.lastReceive BY <1>4 DEF Spans
  <1>10. \A x \in all : x <= c.lastReceive BY DEF Spans
  <1>11. m = n => receives = {p[n].receive}
    BY DEF receives
  <1>12. q # <<>>
    <2>1. Len(<<>>) = 0 /\ Len(q) # 0 BY <1>2, EmptySeq
    <2> QED BY <2>1
  <1> HIDE DEF q, sends, receives, all
  <1>13. Min(sends) = c.firstSend /\ Max(sends) = c.lastSend
    BY <1>5, <1>6, <1>8, MinIs, MaxIs
  <1>14. Min(receives) = c.firstReceive /\ Max(receives) = c.lastReceive
    BY <1>5, <1>7, <1>9, MinIs, MaxIs
  <1>15. Max(all) = c.lastReceive BY <1>5, <1>7, <1>10, MaxIs
  <1>16. {c.firstSend, c.lastSend, c.firstReceive, c.lastReceive} \subseteq Int
    BY <1>5, <1>6, <1>7
  <1>17. c.firstSend <= c.lastSend /\ c.firstReceive <= c.lastReceive
    BY <1>6, <1>7, <1>8, <1>9
  <1> QED BY <1>2, <1>7, <1>11, <1>12, <1>13, <1>14, <1>15, <1>16, <1>17 DEF q

\* A cluster that has packets is not NoCluster.
LEMMA SpansIsCluster ==
  ASSUME NEW p, NEW m, NEW n, NEW c, Spans(c, p, m, n)
  PROVE  c # NoCluster
  <1>1. DOMAIN c = {"firstSend", "lastSend", "firstReceive", "lastReceive", "total"}
    BY DEF Spans
  <1>2. DOMAIN NoCluster = {"none"} BY DEF NoCluster
  <1> QED BY <1>1, <1>2

\* A cluster of one packet.
LEMMA OpensCluster ==
  ASSUME NEW p \in Seq(Packet), NEW n \in 0 .. Len(p) - 1,
         \A i \in 1 .. n : p[i].receive <= p[n + 1].receive
  PROVE  /\ Spans(Aggregate(NoCluster, p[n + 1]), p, n + 1, n + 1)
         /\ SubSeq(p, n + 1, n + 1) = <<p[n + 1]>>
  <1> DEFINE x == p[n + 1]
             c == Aggregate(NoCluster, x)
  <1>1. Len(p) \in Nat BY LenProperties
  <1>2. n + 1 \in 1 .. Len(p) BY <1>1
  <1>3. x \in Packet /\ x.send \in Int /\ x.receive \in Int
    <2>1. x \in Packet BY <1>2, ElementOfSeq
    <2> QED BY <2>1 DEF Packet
  <1>4. c = [firstSend |-> x.send, lastSend |-> x.send, firstReceive |-> x.receive,
             lastReceive |-> x.receive, total |-> PacketLength]
    BY DEF Aggregate
  <1>5. ((n + 1) - (n + 1) + 1) * PacketLength = PacketLength
    BY ProbeConstants DEF ProbeConstants
  <1>6. SubSeq(p, n + 1, n + 1) = <<x>>
    <2>1. \A i \in n + 1 .. n + 1 : p[i] \in Packet BY <1>3
    <2> DEFINE s == SubSeq(p, n + 1, n + 1)
    <2>2. s \in Seq(Packet) /\ Len(s) = 1 /\ s[1] = p[(n + 1) + 1 - 1]
      BY <2>1, SubSeqProperties
    <2>3. s[1] = x BY <2>2
    <2> HIDE DEF s, x
    <2>4. s = <<x>> BY <2>2, <2>3, <1>3
    <2> QED BY <2>4 DEF s
  <1> HIDE DEF c
  <1>7. \A i \in n + 1 .. n + 1 : i = n + 1 OBVIOUS
  <1>8. \A i \in 1 .. n + 1 : i \in 1 .. n \/ i = n + 1 OBVIOUS
  <1>9. Spans(c, p, n + 1, n + 1)
    BY <1>3, <1>4, <1>5, <1>7, <1>8 DEF Spans
  <1> QED BY <1>6, <1>9 DEF c

\* A packet that joins a cluster.
LEMMA JoinsCluster ==
  ASSUME NEW p \in Seq(Packet), NEW n \in 1 .. Len(p) - 1, NEW m \in 1 .. n, NEW c,
         Spans(c, p, m, n)
  PROVE  /\ Spans(Aggregate(c, p[n + 1]), p, m, n + 1)
         /\ SubSeq(p, m, n + 1) = Append(SubSeq(p, m, n), p[n + 1])
  <1> DEFINE x == p[n + 1]
             d == Aggregate(c, x)
  <1>1. Len(p) \in Nat BY LenProperties
  <1>2. n + 1 \in m .. Len(p) /\ m \in 1 .. Len(p) /\ n \in 1 .. Len(p) BY <1>1
  <1>3. \A i \in 1 .. n + 1 : p[i] \in Packet /\ p[i].send \in Int /\ p[i].receive \in Int
    <2>1. \A i \in 1 .. n + 1 : p[i] \in Packet BY <1>1, ElementOfSeq
    <2> QED BY <2>1 DEF Packet
  <1>4. {c.firstSend, c.lastSend, c.firstReceive, c.lastReceive} \subseteq Int
    BY <1>2, EndsOf
  <1>5. c # NoCluster BY SpansIsCluster
  <1>6. c.total = (n - m + 1) * PacketLength BY DEF Spans
  <1>7. (n - m + 1) * PacketLength + PacketLength = ((n + 1) - m + 1) * PacketLength
    BY ProbeConstants DEF ProbeConstants
  <1>8. d = [firstSend |-> IF x.send < c.firstSend THEN x.send ELSE c.firstSend,
             lastSend |-> IF x.send > c.lastSend THEN x.send ELSE c.lastSend,
             firstReceive |-> IF x.receive < c.firstReceive THEN x.receive
                              ELSE c.firstReceive,
             lastReceive |-> IF x.receive > c.lastReceive THEN x.receive
                             ELSE c.lastReceive,
             total |-> ((n + 1) - m + 1) * PacketLength]
    BY <1>5, <1>6, <1>7 DEF Aggregate
  <1> HIDE DEF d
  <1>9. /\ d.firstSend = IF x.send < c.firstSend THEN x.send ELSE c.firstSend
        /\ d.lastSend = IF x.send > c.lastSend THEN x.send ELSE c.lastSend
        /\ d.firstReceive = IF x.receive < c.firstReceive THEN x.receive ELSE c.firstReceive
        /\ d.lastReceive = IF x.receive > c.lastReceive THEN x.receive ELSE c.lastReceive
    BY <1>8
  <1>10. d = [firstSend |-> d.firstSend, lastSend |-> d.lastSend,
              firstReceive |-> d.firstReceive, lastReceive |-> d.lastReceive,
              total |-> ((n + 1) - m + 1) * PacketLength]
    BY <1>8, <1>9
  <1>11. n + 1 \in m .. n + 1 /\ \A i \in m .. n : i \in m .. n + 1 OBVIOUS
  <1>12. /\ \E i \in m .. n + 1 : d.firstSend = p[i].send
         /\ \E i \in m .. n + 1 : d.lastSend = p[i].send
         /\ \E i \in m .. n + 1 : d.firstReceive = p[i].receive
         /\ \E i \in m .. n + 1 : d.lastReceive = p[i].receive
    <2> HIDE DEF x
    <2>1. \E i \in m .. n + 1 : d.firstSend = p[i].send
      <3>1. x.send = p[n + 1].send BY DEF x
      <3>2. d.firstSend = x.send \/ d.firstSend = c.firstSend BY <1>9
      <3> QED BY <1>11, <3>1, <3>2 DEF Spans
    <2>2. \E i \in m .. n + 1 : d.lastSend = p[i].send
      <3>1. x.send = p[n + 1].send BY DEF x
      <3>2. d.lastSend = x.send \/ d.lastSend = c.lastSend BY <1>9
      <3> QED BY <1>11, <3>1, <3>2 DEF Spans
    <2>4. x.receive = p[n + 1].receive BY DEF x
    <2>5. \E i \in m .. n + 1 : d.firstReceive = p[i].receive
      <3>1. d.firstReceive = x.receive \/ d.firstReceive = c.firstReceive BY <1>9
      <3> QED BY <1>11, <2>4, <3>1 DEF Spans
    <2>6. \E i \in m .. n + 1 : d.lastReceive = p[i].receive
      <3>1. d.lastReceive = x.receive \/ d.lastReceive = c.lastReceive BY <1>9
      <3> QED BY <1>11, <2>4, <3>1 DEF Spans
    <2> QED BY <2>1, <2>2, <2>5, <2>6
  <1>13. /\ d.firstSend <= c.firstSend /\ d.firstSend <= x.send
         /\ c.lastSend <= d.lastSend /\ x.send <= d.lastSend
         /\ d.firstReceive <= c.firstReceive /\ d.firstReceive <= x.receive
         /\ c.lastReceive <= d.lastReceive /\ x.receive <= d.lastReceive
         /\ {d.firstSend, d.lastSend, d.firstReceive, d.lastReceive} \subseteq Int
    BY <1>3, <1>4, <1>9
  <1>14. \A i \in m .. n + 1 : d.firstSend <= p[i].send /\ p[i].send <= d.lastSend
                               /\ d.firstReceive <= p[i].receive
    <2> SUFFICES ASSUME NEW i \in m .. n + 1
                 PROVE  d.firstSend <= p[i].send /\ p[i].send <= d.lastSend
                        /\ d.firstReceive <= p[i].receive
      OBVIOUS
    <2>1. i \in 1 .. n + 1 /\ (i = n + 1 \/ i \in m .. n) OBVIOUS
    <2>2. CASE i = n + 1 BY <1>13, <2>2
    <2>3. CASE i \in m .. n
      <3>1. c.firstSend <= p[i].send /\ p[i].send <= c.lastSend
            /\ c.firstReceive <= p[i].receive
        BY <2>3 DEF Spans
      <3>2. p[i].send \in Int /\ p[i].receive \in Int BY <1>3, <2>1
      <3> DEFINE send == p[i].send
                 receive == p[i].receive
      <3>3. c.firstSend <= send /\ send <= c.lastSend /\ c.firstReceive <= receive
        BY <3>1
      <3>4. send \in Int /\ receive \in Int BY <3>2
      <3> HIDE DEF x, send, receive
      <3>5. d.firstSend <= send /\ send <= d.lastSend /\ d.firstReceive <= receive
        BY <1>4, <1>13, <3>3, <3>4
      <3> QED BY <3>5 DEF send, receive
    <2> QED BY <2>1, <2>2, <2>3
  <1>15. \A i \in 1 .. n + 1 : p[i].receive <= d.lastReceive
    <2> SUFFICES ASSUME NEW i \in 1 .. n + 1 PROVE p[i].receive <= d.lastReceive
      OBVIOUS
    <2>1. CASE i = n + 1 BY <1>13, <2>1
    <2>2. CASE i \in 1 .. n
      <3>1. p[i].receive <= c.lastReceive BY <2>2 DEF Spans
      <3> HIDE DEF x
      <3> QED BY <1>3, <1>4, <1>13, <3>1
    <2> QED BY <2>1, <2>2
  <1> HIDE DEF x
  <1>16. Spans(d, p, m, n + 1) BY <1>10, <1>12, <1>14, <1>15 DEF Spans
  <1>17. SubSeq(p, m, n + 1) = Append(SubSeq(p, m, n), p[n + 1])
    <2> DEFINE s == SubSeq(p, m, n)
               y == p[n + 1]
    <2>1. SubSeq(p, m, n + 1) = SubSeq(p, m, (n + 1) - 1) \o <<p[n + 1]>>
      BY <1>2, SubSeqRecursiveSecond
    <2>2. (n + 1) - 1 = n OBVIOUS
    <2>3. s \in Seq(Packet) BY <1>2, TimesOfPart
    <2>4. y \in Packet BY <1>3
    <2> HIDE DEF s, y
    <2>5. s \o <<y>> = Append(s, y) BY <2>3, <2>4
    <2> QED BY <2>1, <2>2, <2>5 DEF s, y
  <1> QED BY <1>16, <1>17 DEF d, x

\* Handling a packet keeps the description.
LEMMA OneMore ==
  ASSUME NEW p \in Seq(Packet), NEW n \in 0 .. Len(p) - 1, NEW c, NEW packets,
         Describes(c, p, n, packets)
  PROVE  Describes(Aggregate(EraseOldClusters(c, p[n + 1].receive), p[n + 1]),
                   p, n + 1, Joined(packets, p[n + 1]))
  <1> DEFINE x == p[n + 1]
  <1>1. Len(p) \in Nat BY LenProperties
  <1>2. n + 1 \in 1 .. n + 1 /\ n + 1 # 0 BY <1>1
  <1>3. x \in Packet /\ x.receive \in Int
    <2>1. x \in Packet BY <1>1, ElementOfSeq
    <2> QED BY <2>1 DEF Packet
  <1>4. CASE n = 0
    <2>1. c = NoCluster /\ packets = <<>> BY <1>4 DEF Describes
    <2>2. EraseOldClusters(c, x.receive) = NoCluster BY <2>1 DEF EraseOldClusters
    <2>3. Joined(packets, x) = <<x>> BY <2>1 DEF Joined
    <2>4. \A i \in 1 .. n : p[i].receive <= p[n + 1].receive BY <1>4
    <2>5. Spans(Aggregate(NoCluster, x), p, n + 1, n + 1) /\ SubSeq(p, n + 1, n + 1) = <<x>>
      BY <2>4, OpensCluster
    <2>6. StartsStream(p, n + 1) BY <1>4 DEF StartsStream
    <2> QED BY <1>2, <2>2, <2>3, <2>5, <2>6 DEF Describes
  <1>5. CASE n # 0
    <2>1. PICK m \in 1 .. n : /\ StartsStream(p, m) /\ Spans(c, p, m, n)
                              /\ packets = SubSeq(p, m, n)
      BY <1>5 DEF Describes
    <2>2. n \in 1 .. Len(p) /\ n \in 1 .. Len(p) - 1 BY <1>1, <1>5
    <2>3. /\ c.lastReceive \in Int
          /\ Max(ReceiveTimes(packets)) = c.lastReceive
          /\ Max(ReceiveTimes(SubSeq(p, 1, n))) = c.lastReceive
          /\ packets # <<>>
      BY <2>1, <2>2, EndsOf
    <2>4. c # NoCluster BY <2>1, SpansIsCluster
    <2>5. CASE c.lastReceive + kMaxClusterHistory < x.receive
      <3>1. EraseOldClusters(c, x.receive) = NoCluster BY <2>4, <2>5 DEF EraseOldClusters
      <3>2. Joined(packets, x) = <<x>> BY <2>3, <2>5 DEF Joined
      <3>3. \A i \in 1 .. n : p[i].receive <= p[n + 1].receive
        <4> SUFFICES ASSUME NEW i \in 1 .. n PROVE p[i].receive <= p[n + 1].receive
          OBVIOUS
        <4>1. p[i] \in Packet BY <2>2, ElementOfSeq
        <4>2. p[i].receive \in Int BY <4>1 DEF Packet
        <4>3. p[i].receive <= c.lastReceive BY <2>1 DEF Spans
        <4> DEFINE r == p[i].receive
                   s == x.receive
        <4>4. r \in Int /\ s \in Int /\ r <= c.lastReceive
              /\ c.lastReceive + kMaxClusterHistory < s
          BY <1>3, <2>5, <4>2, <4>3
        <4> HIDE DEF r, s
        <4>5. r <= s BY <2>3, <4>4 DEF kMaxClusterHistory
        <4> QED BY <4>5 DEF r, s
      <3>4. Spans(Aggregate(NoCluster, x), p, n + 1, n + 1)
            /\ SubSeq(p, n + 1, n + 1) = <<x>>
        BY <3>3, OpensCluster
      <3>5. StartsStream(p, n + 1)
        <4>1. (n + 1) - 1 = n BY <1>1
        <4>2. x.receive > Max(ReceiveTimes(SubSeq(p, 1, n))) + kMaxClusterHistory
          BY <1>3, <2>3, <2>5 DEF kMaxClusterHistory
        <4> QED BY <4>1, <4>2 DEF StartsStream
      <3> QED BY <1>2, <3>1, <3>2, <3>4, <3>5 DEF Describes
    <2>6. CASE ~(c.lastReceive + kMaxClusterHistory < x.receive)
      <3>1. EraseOldClusters(c, x.receive) = c BY <2>6 DEF EraseOldClusters
      <3>2. Joined(packets, x) = Append(packets, x) BY <2>3, <2>6 DEF Joined
      <3>3. Spans(Aggregate(c, x), p, m, n + 1) /\ SubSeq(p, m, n + 1) = Append(packets, x)
        BY <2>1, <2>2, JoinsCluster
      <3>4. m \in 1 .. n + 1 BY <1>1
      <3> QED BY <1>2, <2>1, <3>1, <3>2, <3>3, <3>4 DEF Describes
    <2> QED BY <2>5, <2>6
  <1> QED BY <1>4, <1>5

(***************************************************************************)
(* The result of a probe                                                   *)
(***************************************************************************)

\* The rate is at most that of the packets n of p from m on.
MeasuredOver(p, m, n, rate) ==
  LET times == ReceiveTimes(SubSeq(p, m, n))
      span == Max(times) - Min(times)
  IN /\ StartsStream(p, m)
     /\ span \in 1 .. kMaxProbeInterval
     /\ rate <= RateOf((n - m) * PacketLength, span)

LEMMA RateIsNatural ==
  ASSUME NEW bytes \in Nat, NEW ms \in Nat \ {0}
  PROVE  RateOf(bytes, ms) \in Nat
  <1> DEFINE a == bytes * 8000
  <1>1. a \in Nat OBVIOUS
  <1> HIDE DEF a
  <1>2. a \div ms \in Nat BY <1>1
  <1> QED BY <1>2 DEF RateOf, a

\* A result is at most the rate at which packets were received.
LEMMA ResultAtMost ==
  ASSUME NEW sent \in Nat, NEW received \in Nat
  PROVE  ResultOf(sent, received) \in Nat /\ ResultOf(sent, received) <= received
  <1>1. (19 * received) \div 20 \in Nat /\ (19 * received) \div 20 <= received OBVIOUS
  <1>2. ResultOf(sent, received) \in {NoRate, (19 * received) \div 20, sent, received}
        /\ (ResultOf(sent, received) = sent => sent < received \/ sent = NoRate
                                               \/ ResultOf(sent, received) <= received)
    BY DEF ResultOf
  <1> QED BY <1>1, <1>2 DEF ResultOf, NoRate

LEMMA EstimateAtMost ==
  ASSUME NEW p \in Seq(Packet), NEW n \in 1 .. Len(p), NEW m \in 1 .. n, NEW c,
         Spans(c, p, m, n), StartsStream(p, m)
  PROVE  /\ EstimateOf(c) \in Nat
         /\ EstimateOf(c) # NoRate => m \in 1 .. n - 1 /\ MeasuredOver(p, m, n, EstimateOf(c))
  <1> DEFINE q == SubSeq(p, m, n)
             bytes == (n - m) * PacketLength
  <1>1. /\ {c.firstSend, c.lastSend, c.firstReceive, c.lastReceive} \subseteq Int
        /\ Min(ReceiveTimes(q)) = c.firstReceive /\ Max(ReceiveTimes(q)) = c.lastReceive
        /\ m = n => c.firstReceive = c.lastReceive
    BY EndsOf
  <1>2. Len(p) \in Nat /\ n - m \in Nat BY LenProperties
  <1>3. c.total - PacketLength = bytes
    <2>1. c.total = (n - m + 1) * PacketLength BY DEF Spans
    <2> QED BY <1>2, <2>1, ProbeConstants DEF ProbeConstants
  <1>4. bytes \in Nat BY <1>2, ProbeConstants DEF ProbeConstants
  <1> HIDE DEF bytes, q
  <1>5. CASE Enough(c) /\ ValidInterval(Sent(c)) /\ ValidInterval(Received(c))
    <2>1. Sent(c) \in Nat \ {0} /\ Received(c) \in 1 .. kMaxProbeInterval
          /\ Received(c) \in Nat \ {0}
      <3>1. Sent(c) \in Int /\ Received(c) \in Int BY <1>1 DEF Sent, Received
      <3> DEFINE s == Sent(c)
                 r == Received(c)
      <3>2. s > 0 /\ r > 0 /\ r <= 1000 BY <1>5 DEF ValidInterval, kMaxProbeInterval
      <3>3. s \in Int /\ r \in Int BY <3>1
      <3> HIDE DEF s, r
      <3>4. s \in Nat \ {0} /\ r \in 1 .. 1000 /\ r \in Nat \ {0} BY <3>2, <3>3
      <3> QED BY <3>4 DEF s, r, kMaxProbeInterval
    <2> DEFINE s == RateOver(c, Sent(c))
               r == RateOver(c, Received(c))
    <2>2. s \in Nat /\ r \in Nat /\ r = RateOf(bytes, Received(c))
      BY <1>3, <1>4, <2>1, RateIsNatural DEF RateOver
    <2>3. EstimateOf(c) = ResultOf(s, r) BY <1>5 DEF EstimateOf
    <2> HIDE DEF s, r
    <2>4. EstimateOf(c) \in Nat /\ EstimateOf(c) <= RateOf(bytes, Received(c))
      BY <2>2, <2>3, ResultAtMost
    <2>5. Received(c) = Max(ReceiveTimes(q)) - Min(ReceiveTimes(q))
      BY <1>1 DEF Received
    <2>6. m # n BY <1>1, <2>1 DEF Received
    <2> QED BY <1>2, <2>1, <2>4, <2>5, <2>6 DEF MeasuredOver, q, bytes
  <1>6. CASE ~(Enough(c) /\ ValidInterval(Sent(c)) /\ ValidInterval(Received(c)))
    BY <1>6 DEF EstimateOf, NoRate
  <1> QED BY <1>5, <1>6

(***************************************************************************)
(* A feedback                                                              *)
(***************************************************************************)

\* The recursive functions are what their definitions say.
LEMMA AfterEachStep ==
  ASSUME NEW c, NEW packets, Len(packets) \in Nat
  PROVE  LET after == AfterEach(c, packets) IN
         /\ after[0] = [cluster |-> c, rate |-> NoRate]
         /\ \A k \in 0 .. Len(packets) - 1 :
              after[k + 1] = HandleProbeAndEstimateBitrate(after[k], packets[k + 1])
  <1> DEFINE n == Len(packets)
             base == [cluster |-> c, rate |-> NoRate]
             Handled(acc, k) == HandleProbeAndEstimateBitrate(acc, packets[k])
             Defines(f, m) ==
               f = [k \in 0 .. m |-> IF k = 0 THEN base ELSE Handled(f[k - 1], k)]
             T == {m \in 0 .. n : \E f : Defines(f, m)}
  <1> HIDE DEF base, Handled
  <1>1. 0 \in T
    <2> DEFINE f == [k \in 0 .. 0 |-> base]
    <2>1. Defines(f, 0) OBVIOUS
    <2> HIDE DEF f, Defines
    <2> QED BY <2>1
  <1>2. ASSUME NEW m \in 0 .. n - 1, m \in T PROVE m + 1 \in T
    <2>1. PICK f : Defines(f, m) BY <1>2
    <2> DEFINE g == [k \in 0 .. m + 1 |-> IF k <= m THEN f[k] ELSE Handled(f[m], k)]
    <2>2. \A k \in 0 .. m + 1 : g[k] = IF k = 0 THEN base ELSE Handled(g[k - 1], k)
      <3> SUFFICES ASSUME NEW k \in 0 .. m + 1
                   PROVE  g[k] = IF k = 0 THEN base ELSE Handled(g[k - 1], k)
        OBVIOUS
      <3>1. CASE k <= m
        <4>1. g[k] = f[k] /\ f[k] = IF k = 0 THEN base ELSE Handled(f[k - 1], k)
          BY <2>1, <3>1
        <4>2. k # 0 => g[k - 1] = f[k - 1] BY <3>1
        <4> QED BY <4>1, <4>2
      <3>2. CASE k = m + 1
        <4>1. k # 0 /\ k - 1 = m /\ g[m] = f[m] /\ g[k] = Handled(f[m], k) BY <3>2
        <4> QED BY <4>1
      <3> QED BY <3>1, <3>2
    <2>3. Defines(g, m + 1) BY <2>2
    <2> HIDE DEF g, Defines
    <2> QED BY <2>3
  <1>3. n \in T
    <2>1. n \in Nat OBVIOUS
    <2>2. \A k \in 0 .. n - 1 : k \in T => k + 1 \in T BY <1>2
    <2> HIDE DEF T, n, Defines
    <2>3. \A k \in 0 .. n : k \in T BY <1>1, <2>1, <2>2, InductionUpTo
    <2> QED BY <2>1, <2>3
  <1> DEFINE after == AfterEach(c, packets)
  <1>4. Defines(after, n)
    <2>1. after = CHOOSE f : Defines(f, n) BY DEF AfterEach, base, Handled
    <2> HIDE DEF after
    <2> QED BY <1>3, <2>1
  <1> HIDE DEF after
  <1>5. after[0] = base BY <1>4
  <1>6. \A k \in 0 .. n - 1 : after[k + 1] = Handled(after[k], k + 1) BY <1>4
  <1> QED BY <1>5, <1>6 DEF after, base, Handled

LEMMA JoinedEachStep ==
  ASSUME NEW packets, NEW more, Len(more) \in Nat
  PROVE  LET joined == JoinedEach(packets, more) IN
         /\ joined[0] = packets
         /\ \A k \in 0 .. Len(more) - 1 : joined[k + 1] = Joined(joined[k], more[k + 1])
  <1> DEFINE n == Len(more)
             With(q, k) == Joined(q, more[k])
             Defines(f, m) ==
               f = [k \in 0 .. m |-> IF k = 0 THEN packets ELSE With(f[k - 1], k)]
             T == {m \in 0 .. n : \E f : Defines(f, m)}
  <1> HIDE DEF With
  <1>1. 0 \in T
    <2> DEFINE f == [k \in 0 .. 0 |-> packets]
    <2>1. Defines(f, 0) OBVIOUS
    <2> HIDE DEF f, Defines
    <2> QED BY <2>1
  <1>2. ASSUME NEW m \in 0 .. n - 1, m \in T PROVE m + 1 \in T
    <2>1. PICK f : Defines(f, m) BY <1>2
    <2> DEFINE g == [k \in 0 .. m + 1 |-> IF k <= m THEN f[k] ELSE With(f[m], k)]
    <2>2. \A k \in 0 .. m + 1 : g[k] = IF k = 0 THEN packets ELSE With(g[k - 1], k)
      <3> SUFFICES ASSUME NEW k \in 0 .. m + 1
                   PROVE  g[k] = IF k = 0 THEN packets ELSE With(g[k - 1], k)
        OBVIOUS
      <3>1. CASE k <= m
        <4>1. g[k] = f[k] /\ f[k] = IF k = 0 THEN packets ELSE With(f[k - 1], k)
          BY <2>1, <3>1
        <4>2. k # 0 => g[k - 1] = f[k - 1] BY <3>1
        <4> QED BY <4>1, <4>2
      <3>2. CASE k = m + 1
        <4>1. k # 0 /\ k - 1 = m /\ g[m] = f[m] /\ g[k] = With(f[m], k) BY <3>2
        <4> QED BY <4>1
      <3> QED BY <3>1, <3>2
    <2>3. Defines(g, m + 1) BY <2>2
    <2> HIDE DEF g, Defines
    <2> QED BY <2>3
  <1>3. n \in T
    <2>1. n \in Nat OBVIOUS
    <2>2. \A k \in 0 .. n - 1 : k \in T => k + 1 \in T BY <1>2
    <2> HIDE DEF T, n, Defines
    <2>3. \A k \in 0 .. n : k \in T BY <1>1, <2>1, <2>2, InductionUpTo
    <2> QED BY <2>1, <2>3
  <1> DEFINE joined == JoinedEach(packets, more)
  <1>4. Defines(joined, n)
    <2>1. joined = CHOOSE f : Defines(f, n) BY DEF JoinedEach, With
    <2> HIDE DEF joined
    <2> QED BY <1>3, <2>1
  <1> HIDE DEF joined
  <1>5. joined[0] = packets BY <1>4
  <1>6. \A k \in 0 .. n - 1 : joined[k + 1] = With(joined[k], k + 1) BY <1>4
  <1> QED BY <1>5, <1>6 DEF joined, With

\* The next packet of a feedback: the cluster describes the history with it, and
\* a new result is measured up to it.
LEMMA HandledNext ==
  ASSUME NEW p \in Seq(Packet), NEW n \in 0 .. Len(p) - 1, NEW acc, NEW packets,
         Describes(acc.cluster, p, n, packets), acc.rate \in Nat
  PROVE  LET next == HandleProbeAndEstimateBitrate(acc, p[n + 1]) IN
         /\ Describes(next.cluster, p, n + 1, Joined(packets, p[n + 1]))
         /\ \/ next.rate = acc.rate
            \/ /\ next.rate \in Nat
               /\ \E m \in 1 .. n : MeasuredOver(p, m, n + 1, next.rate)
  <1> DEFINE x == p[n + 1]
             d == Aggregate(EraseOldClusters(acc.cluster, x.receive), x)
             next == HandleProbeAndEstimateBitrate(acc, x)
  <1>1. next = [cluster |-> d,
                rate |-> IF EstimateOf(d) = NoRate THEN acc.rate ELSE EstimateOf(d)]
    BY DEF HandleProbeAndEstimateBitrate
  <1>2. Describes(d, p, n + 1, Joined(packets, x)) BY OneMore
  <1>3. Len(p) \in Nat BY LenProperties
  <1>4. n + 1 # 0 /\ n + 1 \in 1 .. Len(p) BY <1>3
  <1> HIDE DEF d, next
  <1>5. PICK m \in 1 .. n + 1 : StartsStream(p, m) /\ Spans(d, p, m, n + 1)
    BY <1>2, <1>4 DEF Describes
  <1>6. /\ EstimateOf(d) \in Nat
        /\ EstimateOf(d) # NoRate => m \in 1 .. (n + 1) - 1
                                     /\ MeasuredOver(p, m, n + 1, EstimateOf(d))
    BY <1>4, <1>5, EstimateAtMost
  <1>7. (n + 1) - 1 = n OBVIOUS
  <1>8. CASE EstimateOf(d) = NoRate
    <2>1. next.rate = acc.rate BY <1>1, <1>8
    <2>2. next.cluster = d BY <1>1
    <2> QED BY <1>2, <2>1, <2>2 DEF next, x
  <1>9. CASE EstimateOf(d) # NoRate
    <2>1. next.rate = EstimateOf(d) BY <1>1, <1>9
    <2>2. next.cluster = d BY <1>1
    <2>3. next.rate \in Nat /\ m \in 1 .. n /\ MeasuredOver(p, m, n + 1, next.rate)
      BY <1>6, <1>7, <1>9, <2>1
    <2> HIDE DEF x
    <2>4. \E k \in 1 .. n : MeasuredOver(p, k, n + 1, next.rate) BY <2>3
    <2>5. Describes(next.cluster, p, n + 1, Joined(packets, x)) BY <1>2, <2>2
    <2> QED BY <2>3, <2>4, <2>5 DEF next, x
  <1> QED BY <1>8, <1>9

\* After a feedback the cluster describes the history with it, and a result is
\* that of one of its packets.
LEMMA FeedbackHandled ==
  ASSUME NEW p \in Seq(Packet), NEW r \in Seq(Packet), NEW c, NEW packets,
         Describes(c, p, Len(p), packets)
  PROVE  LET t == p \o r
             handled == AfterEach(c, r)[Len(r)]
         IN /\ Describes(handled.cluster, t, Len(t), JoinedEach(packets, r)[Len(r)])
            /\ handled.rate \in Nat
            /\ handled.rate # NoRate =>
                 \E n \in Len(p) + 1 .. Len(t) : \E m \in 1 .. n - 1 :
                   MeasuredOver(t, m, n, handled.rate)
  <1> DEFINE t == p \o r
             l == Len(p)
             j == Len(r)
             after == AfterEach(c, r)
             joined == JoinedEach(packets, r)
             Measured(n, rate) == \E m \in 1 .. n - 1 : MeasuredOver(t, m, n, rate)
             From(k, rate) == \E n \in l + 1 .. l + k : Measured(n, rate)
             Right(k) ==
               /\ Describes(after[k].cluster, t, l + k, joined[k])
               /\ after[k].rate \in Nat
               /\ after[k].rate # NoRate => From(k, after[k].rate)
             T == {k \in 0 .. j : Right(k)}
  <1>1. l \in Nat /\ j \in Nat BY LenProperties
  <1>2. t \in Seq(Packet) /\ Len(t) = l + j
        /\ \A i \in 1 .. l + j : t[i] = IF i <= l THEN p[i] ELSE r[i - l]
    BY ConcatProperties
  <1>3. /\ after[0] = [cluster |-> c, rate |-> NoRate]
        /\ \A k \in 0 .. j - 1 :
             after[k + 1] = HandleProbeAndEstimateBitrate(after[k], r[k + 1])
    BY <1>1, AfterEachStep
  <1>4. /\ joined[0] = packets
        /\ \A k \in 0 .. j - 1 : joined[k + 1] = Joined(joined[k], r[k + 1])
    BY <1>1, JoinedEachStep
  <1>5. Describes(c, t, l, packets) BY DescribesLonger
  <1> HIDE DEF t, after, joined, l, j, Measured
  <1>6. 0 \in T
    <2>1. l + 0 = l BY <1>1
    <2>2. Describes(after[0].cluster, t, l + 0, joined[0]) BY <1>3, <1>4, <1>5, <2>1
    <2>3. after[0].rate = NoRate /\ NoRate \in Nat BY <1>3 DEF NoRate
    <2> HIDE DEF From
    <2> QED BY <1>1, <2>2, <2>3
  <1>7. ASSUME NEW k \in 0 .. j - 1, k \in T PROVE k + 1 \in T
    <2> DEFINE n == l + k
               x == t[n + 1]
               next == HandleProbeAndEstimateBitrate(after[k], x)
    <2>1. /\ n \in 0 .. Len(t) - 1 /\ n + 1 \in 1 .. Len(t) /\ n + 1 = l + (k + 1)
          /\ n + 1 \in l + 1 .. l + (k + 1) /\ (n + 1) - 1 = n
      BY <1>1, <1>2
    <2>2. x = r[k + 1]
      <3>1. n + 1 \in 1 .. l + j /\ ~(n + 1 <= l) /\ (n + 1) - l = k + 1
        BY <1>1
      <3> QED BY <1>2, <3>1
    <2>3. Right(k) BY <1>7
    <2>4. /\ Describes(next.cluster, t, n + 1, Joined(joined[k], x))
          /\ \/ next.rate = after[k].rate
             \/ /\ next.rate \in Nat
                /\ \E m \in 1 .. n : MeasuredOver(t, m, n + 1, next.rate)
      BY <1>2, <2>1, <2>3, HandledNext
    <2>5. after[k + 1] = next BY <1>3, <2>2
    <2>6. joined[k + 1] = Joined(joined[k], x) BY <1>4, <2>2
    <2> HIDE DEF n, x, next
    <2>7. Describes(after[k + 1].cluster, t, l + (k + 1), joined[k + 1])
      BY <2>1, <2>4, <2>5, <2>6
    <2>8. CASE next.rate = after[k].rate
      <3>1. \A i \in l + 1 .. l + k : i \in l + 1 .. l + (k + 1) BY <1>1
      <3>2. From(k, after[k].rate) => From(k + 1, after[k].rate) BY <3>1, Zenon
      <3>3. after[k + 1].rate = after[k].rate BY <2>5, <2>8
      <3> HIDE DEF From
      <3> QED BY <1>1, <2>3, <2>7, <3>2, <3>3
    <2>9. CASE next.rate \in Nat /\ \E m \in 1 .. n : MeasuredOver(t, m, n + 1, next.rate)
      <3>1. Measured(n + 1, next.rate) BY <2>1, <2>9 DEF Measured
      <3>2. From(k + 1, next.rate) BY <2>1, <3>1
      <3> HIDE DEF From
      <3> QED BY <1>1, <2>5, <2>7, <2>9, <3>2
    <2> QED BY <2>4, <2>8, <2>9
  <1>8. j \in T
    <2>1. \A k \in 0 .. j - 1 : k \in T => k + 1 \in T BY <1>7
    <2> HIDE DEF T
    <2>2. \A k \in 0 .. j : k \in T BY <1>1, <1>6, <2>1, InductionUpTo
    <2> QED BY <1>1, <2>2
  <1>9. Right(j) BY <1>8
  <1> HIDE DEF Right
  <1> QED BY <1>2, <1>9 DEF Right, From, Measured, t, after, joined, l, j

(***************************************************************************)
(* The packets that come                                                   *)
(***************************************************************************)
LEMMA PacketsAfterTyped ==
  ASSUME NEW q \in Seq(Packet)
  PROVE  PacketsAfter(q) \subseteq Packet
  <1>1. CASE q = <<>> BY <1>1 DEF PacketsAfter, Packet
  <1>2. CASE q # <<>>
    <2>1. Len(q) \in Nat \ {0} /\ DOMAIN q = 1 .. Len(q) BY <1>2, EmptySeq, LenProperties
    <2>2. \A i \in 1 .. Len(q) : q[i].send \in Int /\ q[i].receive \in Int
      <3>1. \A i \in 1 .. Len(q) : q[i] \in Packet BY ElementOfSeq
      <3> QED BY <3>1 DEF Packet
    <2> DEFINE sends == [i \in 1 .. Len(q) |-> q[i].send]
               receives == [i \in 1 .. Len(q) |-> q[i].receive]
    <2>3. \A i \in 1 .. Len(q) : sends[i] = q[i].send /\ receives[i] = q[i].receive
      OBVIOUS
    <2> HIDE DEF sends, receives
    <2>4. PICK i \in 1 .. Len(q) : \A j \in 1 .. Len(q) : sends[j] <= sends[i]
      BY <2>1, <2>2, <2>3, LargestOf
    <2>5. PICK k \in 1 .. Len(q) : \A j \in 1 .. Len(q) : receives[j] <= receives[k]
      BY <2>1, <2>2, <2>3, LargestOf
    <2>6. Max(SendTimes(q)) = q[i].send
      <3>1. SendTimes(q) \subseteq Int /\ q[i].send \in SendTimes(q)
        BY <2>1, <2>2 DEF SendTimes
      <3>2. \A x \in SendTimes(q) : x <= q[i].send BY <2>1, <2>3, <2>4 DEF SendTimes
      <3> QED BY <3>1, <3>2, MaxIs
    <2>7. Max(ReceiveTimes(q)) = q[k].receive
      <3>1. ReceiveTimes(q) \subseteq Int /\ q[k].receive \in ReceiveTimes(q)
        BY <2>1, <2>2 DEF ReceiveTimes
      <3>2. \A x \in ReceiveTimes(q) : x <= q[k].receive
        BY <2>1, <2>3, <2>5 DEF ReceiveTimes
      <3> QED BY <3>1, <3>2, MaxIs
    <2>8. \A s \in SendSteps, r \in ReceiveSteps :
            Max(SendTimes(q)) + s \in Int /\ Max(ReceiveTimes(q)) + r \in Int
      BY <2>2, <2>6, <2>7, ProbeConstants DEF ProbeConstants
    <2> QED BY <1>2, <2>8 DEF PacketsAfter, Packet
  <1> QED BY <1>1, <1>2

\* The feedbacks of n packets that Next takes.
LEMMA FeedbacksStep ==
  /\ Feedbacks[0] = {<<>>}
  /\ \A n \in 0 .. MaxReported - 1 :
       Feedbacks[n + 1] =
         UNION {{Append(q, x) : x \in {y \in PacketsAfter(arrivals \o q) :
                                       q # <<>> => y.receive >= q[n].receive}} :
                  q \in Feedbacks[n]}
  <1> DEFINE size == MaxReported
             Longer(Q, k) ==
               UNION {{Append(q, x) : x \in {y \in PacketsAfter(arrivals \o q) :
                                             q # <<>> => y.receive >= q[k - 1].receive}} :
                        q \in Q}
             base == {<<>>}
             Defines(f, m) ==
               f = [k \in 0 .. m |-> IF k = 0 THEN base ELSE Longer(f[k - 1], k)]
             T == {m \in 0 .. size : \E f : Defines(f, m)}
  <1>0. size \in Nat BY ProbeConstants DEF ProbeConstants
  <1> HIDE DEF Longer, base, size
  <1>1. 0 \in T
    <2> DEFINE f == [k \in 0 .. 0 |-> base]
    <2>1. Defines(f, 0) OBVIOUS
    <2> HIDE DEF f, Defines
    <2> QED BY <1>0, <2>1
  <1>2. ASSUME NEW m \in 0 .. size - 1, m \in T PROVE m + 1 \in T
    <2>1. PICK f : Defines(f, m) BY <1>2
    <2> DEFINE g == [k \in 0 .. m + 1 |-> IF k <= m THEN f[k] ELSE Longer(f[m], k)]
    <2>2. \A k \in 0 .. m + 1 : g[k] = IF k = 0 THEN base ELSE Longer(g[k - 1], k)
      <3> SUFFICES ASSUME NEW k \in 0 .. m + 1
                   PROVE  g[k] = IF k = 0 THEN base ELSE Longer(g[k - 1], k)
        OBVIOUS
      <3>1. CASE k <= m
        <4>1. g[k] = f[k] /\ f[k] = IF k = 0 THEN base ELSE Longer(f[k - 1], k)
          BY <2>1, <3>1
        <4>2. k # 0 => g[k - 1] = f[k - 1] BY <3>1
        <4> QED BY <4>1, <4>2
      <3>2. CASE k = m + 1
        <4>1. k # 0 /\ k - 1 = m /\ g[m] = f[m] /\ g[k] = Longer(f[m], k) BY <3>2
        <4> QED BY <4>1
      <3> QED BY <3>1, <3>2
    <2>3. Defines(g, m + 1) BY <2>2
    <2> HIDE DEF g, Defines
    <2> QED BY <1>0, <2>3
  <1>3. size \in T
    <2>1. \A k \in 0 .. size - 1 : k \in T => k + 1 \in T BY <1>2
    <2> HIDE DEF T, Defines
    <2>2. \A k \in 0 .. size : k \in T BY <1>0, <1>1, <2>1, InductionUpTo
    <2> QED BY <1>0, <2>2
  <1> DEFINE all == Feedbacks
  <1>4. Defines(all, size)
    <2>1. all = CHOOSE f : Defines(f, size) BY DEF Feedbacks, Longer, base, size
    <2> HIDE DEF all
    <2> QED BY <1>3, <2>1
  <1> HIDE DEF all
  <1>5. all[0] = base BY <1>0, <1>4
  <1>6. \A k \in 0 .. size - 1 : all[k + 1] = Longer(all[k], k + 1) BY <1>0, <1>4
  <1>7. \A k \in 0 .. size - 1 : (k + 1) - 1 = k BY <1>0
  <1> QED BY <1>5, <1>6, <1>7 DEF all, base, size, Longer

LEMMA FeedbacksTyped ==
  ASSUME arrivals \in Seq(Packet), NEW n \in 0 .. MaxReported
  PROVE  \A q \in Feedbacks[n] : q \in Seq(Packet) /\ Len(q) = n
  <1> DEFINE Typed(k) == \A q \in Feedbacks[k] : q \in Seq(Packet) /\ Len(q) = k
             T == {k \in 0 .. n : Typed(k)}
  <1>0. MaxReported \in Nat BY ProbeConstants DEF ProbeConstants
  <1>1. n \in Nat /\ \A k \in 0 .. n - 1 : k \in 0 .. MaxReported - 1 BY <1>0
  <1>2. Typed(0)
    <2>1. <<>> \in Seq(Packet) /\ Len(<<>>) = 0 BY EmptySeq
    <2> QED BY <2>1, FeedbacksStep
  <1>3. ASSUME NEW k \in 0 .. n - 1, Typed(k) PROVE Typed(k + 1)
    <2> SUFFICES ASSUME NEW r \in Feedbacks[k + 1]
                 PROVE  r \in Seq(Packet) /\ Len(r) = k + 1
      OBVIOUS
    <2> DEFINE After(q) == {y \in PacketsAfter(arrivals \o q) :
                              q # <<>> => y.receive >= q[k].receive}
    <2>0. Feedbacks[k + 1] = UNION {{Append(q, x) : x \in After(q)} : q \in Feedbacks[k]}
      BY <1>1, FeedbacksStep
    <2>1. PICK q \in Feedbacks[k] :
            \E x \in PacketsAfter(arrivals \o q) : r = Append(q, x)
      <3>1. \A q : After(q) \subseteq PacketsAfter(arrivals \o q) OBVIOUS
      <3> HIDE DEF After
      <3>2. PICK q \in Feedbacks[k] : r \in {Append(q, x) : x \in After(q)} BY <2>0
      <3> QED BY <3>1, <3>2
    <2> HIDE DEF After
    <2>2. q \in Seq(Packet) /\ Len(q) = k BY <1>3
    <2>3. arrivals \o q \in Seq(Packet) BY <2>2, ConcatProperties
    <2>4. PICK x \in Packet : r = Append(q, x) BY <2>1, <2>3, PacketsAfterTyped
    <2> QED BY <2>2, <2>4, AppendProperties
  <1> HIDE DEF Typed
  <1>4. 0 \in T BY <1>1, <1>2
  <1>5. \A k \in 0 .. n - 1 : k \in T => k + 1 \in T BY <1>1, <1>3
  <1>6. n \in T
    <2> HIDE DEF T
    <2>1. \A k \in 0 .. n : k \in T BY <1>1, <1>4, <1>5, InductionUpTo
    <2> QED BY <1>1, <2>1
  <1> QED BY <1>6 DEF Typed

(***************************************************************************)
(* The invariant                                                           *)
(***************************************************************************)
LEMMA InitEstimatorInv == Init => EstimatorInv
  <1>1. <<>> \in Seq(Packet) /\ Len(<<>>) = 0 BY EmptySeq
  <1> QED BY <1>1 DEF Init, EstimatorInv, Describes, NoRate

\* What a feedback does, for the invariant and the result.
LEMMA FeedbackStep ==
  ASSUME EstimatorInv, Next
  PROVE  /\ EstimatorInv'
         /\ probe' # NoRate =>
              \E n \in Len(arrivals) + 1 .. Len(arrivals') : \E m \in 1 .. n - 1 :
                MeasuredOver(arrivals', m, n, probe')
  <1>1. PICK n \in 1 .. MaxReported : \E r \in Feedbacks[n] : OnTransportPacketsFeedback(r)
    BY DEF Next
  <1>2. PICK r \in Feedbacks[n] : OnTransportPacketsFeedback(r) BY <1>1
  <1>3. MaxReported \in Nat BY ProbeConstants DEF ProbeConstants
  <1>4. n \in 0 .. MaxReported BY <1>3
  <1>5. arrivals \in Seq(Packet) /\ Describes(cluster, arrivals, Len(arrivals), members)
    BY DEF EstimatorInv
  <1>6. r \in Seq(Packet) BY <1>4, <1>5, FeedbacksTyped
  <1> DEFINE t == arrivals \o r
             handled == AfterEach(cluster, r)[Len(r)]
             more == JoinedEach(members, r)[Len(r)]
  <1>7. /\ Describes(handled.cluster, t, Len(t), more)
        /\ handled.rate \in Nat
        /\ handled.rate # NoRate =>
             \E i \in Len(arrivals) + 1 .. Len(t) : \E m \in 1 .. i - 1 :
               MeasuredOver(t, m, i, handled.rate)
    BY <1>5, <1>6, FeedbackHandled
  <1>8. t \in Seq(Packet) BY <1>5, <1>6, ConcatProperties
  <1>9. cluster' = handled.cluster /\ probe' = handled.rate /\ arrivals' = t
        /\ members' = more
    BY <1>2 DEF OnTransportPacketsFeedback
  <1> HIDE DEF handled, t, more
  <1>10. arrivals' \in Seq(Packet) /\ probe' \in Nat BY <1>7, <1>8, <1>9
  <1>11. Describes(cluster', arrivals', Len(arrivals'), members') BY <1>7, <1>9
  <1>12. EstimatorInv' BY <1>10, <1>11 DEF EstimatorInv
  <1> QED BY <1>7, <1>9, <1>12

LEMMA NextEstimatorInv == EstimatorInv /\ [Next]_vars => EstimatorInv'
  <1> SUFFICES ASSUME EstimatorInv, [Next]_vars PROVE EstimatorInv'
    OBVIOUS
  <1>1. CASE Next BY <1>1, FeedbackStep
  <1>2. CASE UNCHANGED vars BY <1>2 DEF vars, EstimatorInv, Describes
  <1> QED BY <1>1, <1>2

LEMMA AlwaysEstimatorInv == Spec => []EstimatorInv
  BY InitEstimatorInv, NextEstimatorInv, PTL DEF Spec

LEMMA EstimatorInvDescribed ==
  ASSUME EstimatorInv, members # <<>>
  PROVE  \E n \in 1 .. Len(arrivals) : \E m \in 1 .. n :
           Spans(cluster, arrivals, m, n) /\ members = SubSeq(arrivals, m, n)
  <1> DEFINE l == Len(arrivals)
  <1>1. l \in Nat BY LenProperties DEF EstimatorInv
  <1>2. l # 0 BY DEF EstimatorInv, Describes
  <1>3. \E m \in 1 .. l : Spans(cluster, arrivals, m, l) /\ members = SubSeq(arrivals, m, l)
    BY <1>2 DEF EstimatorInv, Describes
  <1>4. l \in 1 .. l BY <1>1, <1>2
  <1> HIDE DEF l
  <1>5. \E n \in 1 .. l : \E m \in 1 .. n :
          Spans(cluster, arrivals, m, n) /\ members = SubSeq(arrivals, m, n)
    BY <1>3, <1>4
  <1> QED BY <1>5 DEF l

LEMMA EstimatorInvClusterExact == EstimatorInv => ClusterExact
  <1> SUFFICES ASSUME EstimatorInv, members # <<>>
               PROVE  cluster = [firstSend |-> Min(SendTimes(members)),
                                 lastSend |-> Max(SendTimes(members)),
                                 firstReceive |-> Min(ReceiveTimes(members)),
                                 lastReceive |-> Max(ReceiveTimes(members)),
                                 total |-> Len(members) * PacketLength]
    BY DEF ClusterExact
  <1>1. PICK n \in 1 .. Len(arrivals) : \E m \in 1 .. n :
          Spans(cluster, arrivals, m, n) /\ members = SubSeq(arrivals, m, n)
    BY EstimatorInvDescribed
  <1>2. PICK m \in 1 .. n : Spans(cluster, arrivals, m, n) /\ members = SubSeq(arrivals, m, n)
    BY <1>1
  <1>3. arrivals \in Seq(Packet) BY DEF EstimatorInv
  <1>4. /\ Min(SendTimes(members)) = cluster.firstSend
        /\ Max(SendTimes(members)) = cluster.lastSend
        /\ Min(ReceiveTimes(members)) = cluster.firstReceive
        /\ Max(ReceiveTimes(members)) = cluster.lastReceive
        /\ Len(members) = n - m + 1
    BY <1>2, <1>3, EndsOf
  <1>5. cluster = [firstSend |-> cluster.firstSend, lastSend |-> cluster.lastSend,
                   firstReceive |-> cluster.firstReceive,
                   lastReceive |-> cluster.lastReceive,
                   total |-> (n - m + 1) * PacketLength]
    BY <1>2 DEF Spans
  <1>6. (n - m + 1) * PacketLength = Len(members) * PacketLength BY <1>4
  <1> HIDE <1>2
  <1> QED BY <1>4, <1>5, <1>6, Zenon

LEMMA EstimatorInvTypeOK == EstimatorInv => TypeOK
  <1> SUFFICES ASSUME EstimatorInv PROVE TypeOK
    OBVIOUS
  <1>1. ASSUME cluster # NoCluster
        PROVE  /\ {cluster.firstSend, cluster.lastSend, cluster.firstReceive,
                   cluster.lastReceive} \subseteq Int
               /\ Sent(cluster) >= 0 /\ Received(cluster) >= 0
               /\ cluster.total \in Nat \ {0}
    <2> DEFINE l == Len(arrivals)
    <2>1. l # 0 BY <1>1 DEF EstimatorInv, Describes
    <2>2. PICK m \in 1 .. l : Spans(cluster, arrivals, m, l)
      BY <2>1 DEF EstimatorInv, Describes
    <2>3. l \in Nat BY LenProperties DEF EstimatorInv
    <2>4. l \in 1 .. l BY <2>1, <2>3
    <2>5. arrivals \in Seq(Packet) BY DEF EstimatorInv
    <2>6. /\ {cluster.firstSend, cluster.lastSend, cluster.firstReceive,
              cluster.lastReceive} \subseteq Int
          /\ cluster.firstSend <= cluster.lastSend
          /\ cluster.firstReceive <= cluster.lastReceive
      BY <2>2, <2>4, <2>5, EndsOf
    <2>7. cluster.total = (l - m + 1) * PacketLength BY <2>2 DEF Spans
    <2>8. cluster.total \in Nat \ {0}
      <3>1. \A i \in Nat \ {0} : i * PacketLength \in Nat \ {0}
        BY ProbeConstants DEF ProbeConstants
      <3>2. l - m + 1 \in Nat \ {0} BY <2>3
      <3> HIDE DEF l
      <3> QED BY <2>7, <3>1, <3>2
    <2>9. Sent(cluster) >= 0 /\ Received(cluster) >= 0 BY <2>6 DEF Sent, Received
    <2> QED BY <2>6, <2>8, <2>9
  <1>2. probe \in Nat BY DEF EstimatorInv
  <1> QED BY <1>1, <1>2 DEF TypeOK

\* The cluster of Aggregate is either absent or a record of times whose ends are in
\* order and whose bytes are positive, whatever the order of the reports.
THEOREM EstimatorTypeCorrect == Spec => []TypeOK
  BY AlwaysEstimatorInv, EstimatorInvTypeOK, PTL

\* However late or out of order feedbacks are, Aggregate and EraseOldClusters keep
\* exactly the packets received since the last second of silence.
THEOREM ClusterIsExact == Spec => []ClusterExact
  BY AlwaysEstimatorInv, EstimatorInvClusterExact, PTL

\* A result of FetchAndResetLastEstimatedBitrate is at most the rate of the first
\* second of a stream, up to one of the feedback's packets, the first not counted.
THEOREM ResultIsOfFirstSecond == Spec => ResultOfFirstSecond
  <1>1. EstimatorInv /\ [Next]_vars =>
          [probe' # NoRate =>
             \E n \in Len(arrivals) + 1 .. Len(arrivals') : \E m \in 1 .. n - 1 :
               LET times == ReceiveTimes(SubSeq(arrivals', m, n))
                   span == Max(times) - Min(times)
               IN /\ StartsStream(arrivals', m)
                  /\ span \in 1 .. kMaxProbeInterval
                  /\ probe' <= RateOf((n - m) * PacketLength, span)]_vars
    BY FeedbackStep DEF MeasuredOver
  <1> QED BY <1>1, AlwaysEstimatorInv, PTL DEF Spec, ResultOfFirstSecond
================================================================================
