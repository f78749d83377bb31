---------------------------- MODULE UdpServerProofs ----------------------------
(* Theorems about UdpServer, for every set of sockets and of datagrams. *)
EXTENDS UdpServer, SequenceTheorems, TLAPS

\* Type correctness: no handler takes a variable out of its range, whatever the
\* order in which asio completes sends, receives, closures and timer waits.
LEMMA TypeCorrect == Spec => []TypeOK
<1>1. Init => TypeOK
  <2>1. <<>> \in Seq(Packets) /\ <<>> \in Seq(Result)
    OBVIOUS
  <2>2. ASSUME Init
        PROVE  /\ posted \in [Sockets -> Seq(Packets)]
               /\ sendPackets \in [Sockets -> Seq(Packets)]
               /\ sendOps \in [Sockets -> Seq(Packets)]
               /\ tried \in [Sockets -> Seq(Result)]
    BY <2>1, <2>2, Zenon DEF Init
  <2>3. ASSUME Init
        PROVE  /\ running \in BOOLEAN /\ timerDead \in BOOLEAN
               /\ unsent \in SUBSET Packets /\ aborted \in SUBSET Sockets
               /\ recvOps \in [Sockets -> Nat] /\ timerWaits \in Nat
    BY <2>3 DEF Init
  <2> QED
    BY <2>2, <2>3, Zenon DEF TypeOK
<1>2. TypeOK /\ [Next]_vars => TypeOK'
  <2> SUFFICES ASSUME TypeOK, [Next]_vars
               PROVE  TypeOK'
    OBVIOUS
  <2> USE DEF TypeOK
  <2>1. CASE Run
    BY <2>1 DEF Run, sendVars
  <2>2. ASSUME NEW i \in Sockets, HandleReceiveAborted(i)
        PROVE  TypeOK'
    BY <2>2 DEF HandleReceiveAborted, sendVars, timerVars
  <2>3. ASSUME NEW i \in Sockets, HandleReceiveError(i)
        PROVE  TypeOK'
    BY <2>3 DEF HandleReceiveError, sendVars, timerVars
  <2>4. ASSUME NEW i \in Sockets, HandleReceiveFrom(i)
        PROVE  TypeOK'
    <3>1. posted' \in [Sockets -> Seq(Packets)] /\ unsent' \in SUBSET Packets
      <4>1. CASE UNCHANGED <<unsent, posted>>
        BY <4>1
      <4>2. ASSUME NEW j \in Sockets, NEW p \in unsent, AsyncSendTo(j, p)
            PROVE  posted' \in [Sockets -> Seq(Packets)] /\ unsent' \in SUBSET Packets
        <5>1. Append(posted[j], p) \in Seq(Packets)
          OBVIOUS
        <5> QED
          BY <4>2, <5>1 DEF AsyncSendTo
      <4> QED
        BY <2>4, <4>1, <4>2 DEF HandleReceiveFrom, RecvUdpCb
    <3>2. recvOps' \in [Sockets -> Nat]
      BY <2>4 DEF HandleReceiveFrom
    <3> QED
      BY <2>4, <3>1, <3>2 DEF HandleReceiveFrom, timerVars
  <2>5. ASSUME NEW i \in Sockets, RunPosted(i)
        PROVE  TypeOK'
    BY <2>5 DEF RunPosted, recvVars, timerVars
  <2>6. ASSUME NEW i \in Sockets, NEW ok \in BOOLEAN, HandleSendTo(i, ok)
        PROVE  TypeOK'
    <3>1. Tail(sendPackets[i]) \in Seq(Packets) /\ Tail(sendOps[i]) \in Seq(Packets)
      BY <2>6, HeadTailProperties DEF HandleSendTo
    <3>2. Tail(sendPackets[i]) # <<>> =>
            Append(Tail(sendOps[i]), Head(Tail(sendPackets[i]))) \in Seq(Packets)
      BY <3>1, HeadTailProperties
    <3>3. [pkt |-> Head(sendOps[i]), ok |-> ok] \in Result
      BY <2>6, HeadTailProperties DEF HandleSendTo, Result
    <3>4. Append(tried[i], [pkt |-> Head(sendOps[i]), ok |-> ok]) \in Seq(Result)
      BY <3>3
    <3> QED
      BY <2>6, <3>1, <3>2, <3>4 DEF HandleSendTo, recvVars, timerVars
  <2>7. ASSUME NEW ec \in BOOLEAN, HandleCrudeTimer(ec)
        PROVE  TypeOK'
    BY <2>7 DEF HandleCrudeTimer, sendVars, recvVars
  <2>8. CASE UNCHANGED vars
    BY <2>8 DEF vars, sendVars, recvVars, timerVars
  <2> QED
    BY <2>1, <2>2, <2>3, <2>4, <2>5, <2>6, <2>7, <2>8 DEF Next
<1> QED
  BY <1>1, <1>2, PTL DEF Spec

--------------------------------------------------------------------------------
(* The send queue *)

\* Moving the head of one sequence to the end of another keeps their
\* concatenation: what the posted closure does to a socket's debt.
LEMMA MoveHead ==
  ASSUME NEW S, NEW q \in Seq(S), NEW r \in Seq(S), r # <<>>
  PROVE  Append(q, Head(r)) \o Tail(r) = q \o r
<1> DEFINE a == Append(q, Head(r))
<1>1. /\ Head(r) \in S /\ Tail(r) \in Seq(S) /\ Len(Tail(r)) = Len(r) - 1
      /\ \A k \in 1 .. Len(Tail(r)) : Tail(r)[k] = r[k + 1]
      /\ Len(r) \in Nat \ {0} /\ Head(r) = r[1]
  BY HeadTailProperties, EmptySeq
<1>2. /\ a \in Seq(S) /\ Len(a) = Len(q) + 1 /\ a[Len(q) + 1] = Head(r)
      /\ \A k \in 1 .. Len(q) : a[k] = q[k]
  BY <1>1
<1> HIDE DEF a
<1>3. /\ a \o Tail(r) \in Seq(S)
      /\ Len(a \o Tail(r)) = Len(a) + Len(Tail(r))
      /\ \A k \in 1 .. Len(a) + Len(Tail(r)) :
           (a \o Tail(r))[k] = IF k <= Len(a) THEN a[k] ELSE Tail(r)[k - Len(a)]
  BY <1>1, <1>2, ConcatProperties
<1>4. /\ q \o r \in Seq(S)
      /\ Len(q \o r) = Len(q) + Len(r)
      /\ \A k \in 1 .. Len(q) + Len(r) :
           (q \o r)[k] = IF k <= Len(q) THEN q[k] ELSE r[k - Len(q)]
  BY ConcatProperties
<1>5. Len(q) \in Nat /\ Len(r) \in Nat
  BY LenProperties
<1>6. ASSUME NEW k \in 1 .. Len(q) + Len(r)
      PROVE  (a \o Tail(r))[k] = (q \o r)[k]
  <2>1. CASE k <= Len(q)
    BY <2>1, <1>1, <1>2, <1>3, <1>4, <1>5
  <2>2. CASE k = Len(q) + 1
    BY <2>2, <1>1, <1>2, <1>3, <1>4, <1>5
  <2>3. CASE k > Len(q) + 1
    <3>1. k - Len(a) \in 1 .. Len(Tail(r)) /\ (k - Len(a)) + 1 = k - Len(q)
      BY <2>3, <1>1, <1>2, <1>5
    <3> QED
      BY <3>1, <2>3, <1>1, <1>2, <1>3, <1>4, <1>5
  <2>4. k <= Len(q) \/ k = Len(q) + 1 \/ k > Len(q) + 1
    BY <1>5
  <2> QED
    BY <2>1, <2>2, <2>3, <2>4
<1>7. Len(a \o Tail(r)) = Len(q \o r)
  BY <1>1, <1>2, <1>3, <1>4, <1>5
<1> QED
  BY <1>3, <1>4, <1>6, <1>7, SeqEqual DEF a

\* A closure posted behind a socket's debt ends up at the end of the debt.
LEMMA AppendToConcat ==
  ASSUME NEW S, NEW q \in Seq(S), NEW r \in Seq(S), NEW p \in S
  PROVE  q \o Append(r, p) = Append(q \o r, p)
<1> DEFINE t == <<p>>
<1>1. t \in Seq(S)
  OBVIOUS
<1>2. q \o r \in Seq(S)
  BY ConcatProperties
<1>3. Append(r, p) = r \o t /\ Append(q \o r, p) = (q \o r) \o t
  BY <1>2, AppendIsConcat
<1> HIDE DEF t
<1>4. (q \o r) \o t = q \o (r \o t)
  BY <1>1, ConcatAssociative
<1> QED
  BY <1>3, <1>4

\* Removing the head of the first of two sequences removes it from both.
LEMMA TailOfConcat ==
  ASSUME NEW S, NEW q \in Seq(S), NEW r \in Seq(S), q # <<>>
  PROVE  /\ q \o r # <<>>
         /\ Head(q \o r) = Head(q)
         /\ Tail(q \o r) = Tail(q) \o r
<1>1. /\ Tail(q) \in Seq(S) /\ Len(Tail(q)) = Len(q) - 1
      /\ \A k \in 1 .. Len(Tail(q)) : Tail(q)[k] = q[k + 1]
      /\ Len(q) \in Nat \ {0} /\ Len(r) \in Nat
  BY HeadTailProperties, EmptySeq, LenProperties
<1>2. /\ q \o r \in Seq(S)
      /\ Len(q \o r) = Len(q) + Len(r)
      /\ \A k \in 1 .. Len(q) + Len(r) :
           (q \o r)[k] = IF k <= Len(q) THEN q[k] ELSE r[k - Len(q)]
  BY ConcatProperties
<1>3. q \o r # <<>>
  BY <1>1, <1>2
<1>4. Head(q \o r) = Head(q)
  BY <1>1, <1>2
<1>5. /\ Tail(q \o r) \in Seq(S) /\ Len(Tail(q \o r)) = Len(q) + Len(r) - 1
      /\ \A k \in 1 .. Len(Tail(q \o r)) : Tail(q \o r)[k] = (q \o r)[k + 1]
  BY <1>1, <1>2, <1>3, HeadTailProperties
<1>6. /\ Tail(q) \o r \in Seq(S)
      /\ Len(Tail(q) \o r) = Len(q) + Len(r) - 1
      /\ \A k \in 1 .. Len(q) + Len(r) - 1 :
           (Tail(q) \o r)[k] = IF k <= Len(q) - 1 THEN Tail(q)[k] ELSE r[k - (Len(q) - 1)]
  BY <1>1, ConcatProperties
<1>7. ASSUME NEW k \in 1 .. Len(q) + Len(r) - 1
      PROVE  Tail(q \o r)[k] = (Tail(q) \o r)[k]
  <2>1. CASE k <= Len(q) - 1
    BY <2>1, <1>1, <1>2, <1>5, <1>6
  <2>2. CASE k > Len(q) - 1
    BY <2>2, <1>1, <1>2, <1>5, <1>6
  <2> QED
    BY <2>1, <2>2, <1>1
<1> QED
  BY <1>3, <1>4, <1>5, <1>6, <1>7, SeqEqual

\* At most one send is outstanding on a socket, it is the send of the front of
\* the queue, and a non-empty queue always has it: what async_send_to's
\* write_in_progress test and the two branches of handle_send_to are for.
THEOREM SendInProgress == Spec => []SendInProgressIffQueued
<1> DEFINE Good(q, o) == o = IF q = <<>> THEN <<>> ELSE <<Head(q)>>
<1>1. Init => SendInProgressIffQueued
  BY DEF Init, SendInProgressIffQueued
<1>2. TypeOK /\ SendInProgressIffQueued /\ [Next]_vars => SendInProgressIffQueued'
  <2> SUFFICES ASSUME TypeOK, SendInProgressIffQueued, [Next]_vars, NEW j \in Sockets
               PROVE  Good(sendPackets'[j], sendOps'[j])
    BY DEF SendInProgressIffQueued
  <2>1. Good(sendPackets[j], sendOps[j])
    BY DEF SendInProgressIffQueued
  <2> HIDE DEF Good
  <2>2. CASE UNCHANGED <<sendPackets, sendOps>>
    BY <2>1, <2>2
  <2>3. ASSUME NEW i \in Sockets, RunPosted(i)
        PROVE  Good(sendPackets'[j], sendOps'[j])
    <3>1. CASE i # j
      <4>1. sendPackets'[j] = sendPackets[j] /\ sendOps'[j] = sendOps[j]
        BY <2>3, <3>1 DEF RunPosted, TypeOK
      <4> QED
        BY <2>1, <4>1
    <3>2. CASE i = j
      <4> DEFINE q == sendPackets[j]
                 p == Head(posted[j])
      <4>1. q \in Seq(Packets) /\ p \in Packets /\ posted[j] # <<>>
        BY <2>3, <3>2, HeadTailProperties DEF RunPosted, TypeOK
      <4>2. /\ sendPackets'[j] = Append(q, p)
            /\ sendOps'[j] = IF q # <<>> THEN sendOps[j]
                             ELSE Append(sendOps[j], Head(Append(q, p)))
        BY <2>3, <3>2 DEF RunPosted, TypeOK
      <4>3. Append(q, p) # <<>>
        BY <4>1
      <4>4. CASE q = <<>>
        <5>1. sendOps[j] = <<>>
          BY <2>1, <4>4 DEF Good
        <5>2. Append(sendOps[j], Head(Append(q, p))) = <<Head(Append(q, p))>>
          BY <5>1
        <5> QED
          BY <4>2, <4>3, <4>4, <5>2 DEF Good
      <4>5. CASE q # <<>>
        <5>1. Head(Append(q, p)) = Head(q)
          BY <4>1, <4>5
        <5>2. sendOps[j] = <<Head(q)>>
          BY <2>1, <4>5 DEF Good
        <5> QED
          BY <4>2, <4>3, <4>5, <5>1, <5>2 DEF Good
      <4> QED
        BY <4>4, <4>5
    <3> QED
      BY <3>1, <3>2
  <2>4. ASSUME NEW i \in Sockets, NEW ok \in BOOLEAN, HandleSendTo(i, ok)
        PROVE  Good(sendPackets'[j], sendOps'[j])
    <3>1. CASE i # j
      <4>1. sendPackets'[j] = sendPackets[j] /\ sendOps'[j] = sendOps[j]
        BY <2>4, <3>1 DEF HandleSendTo, TypeOK
      <4> QED
        BY <2>1, <4>1
    <3>2. CASE i = j
      <4> DEFINE rest == Tail(sendPackets[j])
      <4>1. sendPackets[j] # <<>>
        BY <2>4, <3>2 DEF HandleSendTo
      <4>2. sendOps[j] = <<Head(sendPackets[j])>>
        BY <2>1, <4>1 DEF Good
      <4>3. Tail(sendOps[j]) = <<>>
        BY <4>2
      <4>4. /\ sendPackets'[j] = rest
            /\ sendOps'[j] = IF rest # <<>> THEN Append(Tail(sendOps[j]), Head(rest))
                             ELSE Tail(sendOps[j])
        BY <2>4, <3>2 DEF HandleSendTo, TypeOK
      <4>5. Append(<<>>, Head(rest)) = <<Head(rest)>>
        OBVIOUS
      <4> QED
        BY <4>3, <4>4, <4>5 DEF Good
    <3> QED
      BY <3>1, <3>2
  <2>5. CASE Run
    BY <2>2, <2>5 DEF Run, sendVars
  <2>6. ASSUME NEW i \in Sockets,
               HandleReceiveAborted(i) \/ HandleReceiveError(i) \/ HandleReceiveFrom(i)
        PROVE  Good(sendPackets'[j], sendOps'[j])
    BY <2>2, <2>6
       DEF HandleReceiveAborted, HandleReceiveError, HandleReceiveFrom, sendVars
  <2>7. ASSUME NEW ec \in BOOLEAN, HandleCrudeTimer(ec)
        PROVE  Good(sendPackets'[j], sendOps'[j])
    BY <2>2, <2>7 DEF HandleCrudeTimer, sendVars
  <2>8. CASE UNCHANGED vars
    BY <2>2, <2>8 DEF vars, sendVars
  <2> QED
    BY <2>3, <2>4, <2>5, <2>6, <2>7, <2>8 DEF Next
<1> QED
  BY <1>1, <1>2, TypeCorrect, PTL DEF Spec

\* Each datagram handed to a socket is tried exactly once and in the order of
\* the calls: the event loop implements DatagramQueue.
THEOREM QueueRefinement == Spec => ImplementsQueue
<1> DEFINE debt == [i \in Sockets |-> sendPackets[i] \o posted[i]]
<1>1. Init => Queue!Init
  <2> SUFFICES ASSUME Init
               PROVE  Queue!Init
    OBVIOUS
  <2>1. <<>> \o <<>> = <<>>
    BY ConcatEmptySeq, <<>> \in Seq({})
  <2>2. debt = [i \in Sockets |-> <<>>]
    BY <2>1, Zenon DEF Init
  <2>3. tried = [i \in Sockets |-> <<>>]
    BY DEF Init
  <2> QED
    BY <2>2, <2>3 DEF Queue!Init
<1>2. TypeOK /\ SendInProgressIffQueued /\ [Next]_vars => [Queue!Next]_(Queue!qvars)
  <2> SUFFICES ASSUME TypeOK, SendInProgressIffQueued, [Next]_vars
               PROVE  [Queue!Next]_(Queue!qvars)
    OBVIOUS
  <2>1. CASE UNCHANGED <<sendPackets, posted, tried>>
    BY <2>1 DEF Queue!qvars
  <2>2. ASSUME NEW i \in Sockets, HandleReceiveFrom(i)
        PROVE  [Queue!Next]_(Queue!qvars)
    <3>1. CASE UNCHANGED <<unsent, posted>>
      BY <2>1, <2>2, <3>1 DEF HandleReceiveFrom
    <3>2. ASSUME NEW j \in Sockets, NEW p \in unsent, AsyncSendTo(j, p)
          PROVE  [Queue!Next]_(Queue!qvars)
      <4>1. /\ p \in Packets
            /\ posted' = [posted EXCEPT ![j] = Append(@, p)]
            /\ sendPackets' = sendPackets /\ tried' = tried
        BY <2>2, <3>2 DEF HandleReceiveFrom, AsyncSendTo, TypeOK
      <4>2. sendPackets[j] \o Append(posted[j], p) = Append(sendPackets[j] \o posted[j], p)
        <5>1. /\ sendPackets[j] \in Seq(Packets) /\ posted[j] \in Seq(Packets)
              /\ p \in Packets
          BY <4>1 DEF TypeOK
        <5>2. \A q, r \in Seq(Packets), x \in Packets : q \o Append(r, x) = Append(q \o r, x)
          BY AppendToConcat
        <5> QED
          BY <5>1, <5>2, Zenon
      <4>3. debt' = [debt EXCEPT ![j] = Append(@, p)]
        BY <4>1, <4>2 DEF TypeOK
      <4> QED
        BY <4>1, <4>3 DEF Queue!Next, Queue!Submit
    <3> QED
      BY <2>2, <3>1, <3>2 DEF HandleReceiveFrom, RecvUdpCb
  <2>3. ASSUME NEW i \in Sockets, RunPosted(i)
        PROVE  [Queue!Next]_(Queue!qvars)
    <3>1. /\ posted[i] # <<>>
          /\ sendPackets' = [sendPackets EXCEPT ![i] = Append(@, Head(posted[i]))]
          /\ posted' = [posted EXCEPT ![i] = Tail(@)]
          /\ tried' = tried
      BY <2>3 DEF RunPosted
    <3>2. Append(sendPackets[i], Head(posted[i])) \o Tail(posted[i])
            = sendPackets[i] \o posted[i]
      BY <3>1, MoveHead DEF TypeOK
    <3>3. debt' = debt
      BY <3>1, <3>2 DEF TypeOK
    <3> QED
      BY <3>1, <3>3 DEF Queue!qvars
  <2>4. ASSUME NEW i \in Sockets, NEW ok \in BOOLEAN, HandleSendTo(i, ok)
        PROVE  [Queue!Next]_(Queue!qvars)
    <3>1. /\ sendPackets[i] # <<>>
          /\ sendPackets' = [sendPackets EXCEPT ![i] = Tail(@)]
          /\ posted' = posted
          /\ tried' = [tried EXCEPT ![i] = Append(@, [pkt |-> Head(sendOps[i]), ok |-> ok])]
      BY <2>4 DEF HandleSendTo
    <3>2. Head(sendOps[i]) = Head(sendPackets[i])
      <4>1. sendOps[i] = <<Head(sendPackets[i])>>
        BY <3>1 DEF SendInProgressIffQueued
      <4> QED
        BY <4>1
    <3>3. /\ debt[i] # <<>>
          /\ Head(debt[i]) = Head(sendPackets[i])
          /\ Tail(debt[i]) = Tail(sendPackets[i]) \o posted[i]
      <4>1. sendPackets[i] \in Seq(Packets) /\ posted[i] \in Seq(Packets)
        BY DEF TypeOK
      <4>2. debt[i] = sendPackets[i] \o posted[i]
        OBVIOUS
      <4> QED
        BY <3>1, <4>1, <4>2, TailOfConcat, Zenon
    <3>4. debt' = [debt EXCEPT ![i] = Tail(@)]
      BY <3>1, <3>3 DEF TypeOK
    <3> QED
      BY <3>1, <3>2, <3>3, <3>4 DEF Queue!Next, Queue!Try
  <2>5. CASE Run
    BY <2>1, <2>5 DEF Run, sendVars
  <2>6. ASSUME NEW i \in Sockets, HandleReceiveAborted(i) \/ HandleReceiveError(i)
        PROVE  [Queue!Next]_(Queue!qvars)
    BY <2>1, <2>6 DEF HandleReceiveAborted, HandleReceiveError, sendVars
  <2>7. ASSUME NEW ec \in BOOLEAN, HandleCrudeTimer(ec)
        PROVE  [Queue!Next]_(Queue!qvars)
    BY <2>1, <2>7 DEF HandleCrudeTimer, sendVars
  <2>8. CASE UNCHANGED vars
    BY <2>1, <2>8 DEF vars, sendVars
  <2> QED
    BY <2>2, <2>3, <2>4, <2>5, <2>6, <2>7, <2>8 DEF Next
<1> QED
  BY <1>1, <1>2, TypeCorrect, SendInProgress, PTL DEF Spec, ImplementsQueue, Queue!Spec

\* A running socket has exactly one receive outstanding until it is aborted, and
\* the timer exactly one wait until a wait fails.  The invariant is inductive
\* once it adds that neither has happened before run().
THEOREM OneWait == Spec => []OneWaitEach
<1> DEFINE Inv == OneWaitEach /\ (~running => aborted = {} /\ ~timerDead)
<1>1. Init => Inv
  BY DEF Init, OneWaitEach
<1>2. TypeOK /\ Inv /\ [Next]_vars => Inv'
  <2> SUFFICES ASSUME TypeOK, Inv, [Next]_vars
               PROVE  Inv'
    OBVIOUS
  <2> USE DEF OneWaitEach, TypeOK
  <2>1. CASE Run
    BY <2>1 DEF Run
  <2>2. ASSUME NEW i \in Sockets, HandleReceiveAborted(i)
        PROVE  Inv'
    BY <2>2 DEF HandleReceiveAborted, timerVars
  <2>3. ASSUME NEW i \in Sockets, HandleReceiveError(i) \/ HandleReceiveFrom(i)
        PROVE  Inv'
    BY <2>3 DEF HandleReceiveError, HandleReceiveFrom, timerVars
  <2>4. ASSUME NEW i \in Sockets, NEW ok \in BOOLEAN, RunPosted(i) \/ HandleSendTo(i, ok)
        PROVE  Inv'
    BY <2>4 DEF RunPosted, HandleSendTo, recvVars, timerVars
  <2>5. ASSUME NEW ec \in BOOLEAN, HandleCrudeTimer(ec)
        PROVE  Inv'
    BY <2>5 DEF HandleCrudeTimer, recvVars
  <2>6. CASE UNCHANGED vars
    BY <2>6 DEF vars, recvVars, timerVars
  <2> QED
    BY <2>1, <2>2, <2>3, <2>4, <2>5, <2>6 DEF Next
<1> QED
  BY <1>1, <1>2, TypeCorrect, PTL DEF Spec
================================================================================
