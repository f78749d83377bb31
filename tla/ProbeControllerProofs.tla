------------------------- MODULE ProbeControllerProofs -------------------------
(* Proofs about ProbeController, for all values of its constants. *)
EXTENDS ProbeController, TLAPS, SequenceTheorems, WellFoundedInduction

(***************************************************************************)
(* The rate on its way to the server.  ServerFollowsTarget is not          *)
(* inductive: a target that GetUpdate does not report must be the rate the *)
(* server has, hence ReportedIsAvailable; and the first estimate must      *)
(* count as a change, hence NothingBefore.                                 *)
(***************************************************************************)
ReportedIsAvailable == reported.set => available = reported.rate

NothingBefore == ~started => last = None

FollowInv == ServerFollowsTarget /\ ReportedIsAvailable /\ NothingBefore

\* The control handler: whether or not the target is reported, it is the
\* server's rate afterwards.
LEMMA TargetReaches ==
  ASSUME NEW rate, NEW quality, ReportedIsAvailable, SetTargetRate(Target(rate, quality))
  PROVE  /\ available' = rate
         /\ incoming' = Target(rate, quality)
         /\ ReportedIsAvailable'
  <1>1. CASE UpdateDue(Target(rate, quality))
    BY <1>1 DEF SetTargetRate, Target, ReportedIsAvailable
  <1>2. CASE ~UpdateDue(Target(rate, quality))
    BY <1>2 DEF SetTargetRate, UpdateDue, Target, ReportedIsAvailable
  <1> QED BY <1>1, <1>2

\* PostUpdates with an estimate: either it is a change, which reaches the
\* server, or all rates stay as they are.
LEMMA PostFollows ==
  ASSUME NEW c, NEW rate, NEW quality, ReportedIsAvailable, Post(c, Target(rate, quality)),
         started \/ Changed(Target(rate, quality)),
         ServerFollowsTarget
  PROVE  available' = last'.rate /\ incoming' = last' /\ ReportedIsAvailable'
  <1>1. CASE Changed(Target(rate, quality))
    <2>1. last' = Target(rate, quality) /\ SetTargetRate(Target(rate, quality))
      BY <1>1 DEF Post
    <2>2. Target(rate, quality).rate = rate BY DEF Target
    <2> QED BY <2>1, <2>2, TargetReaches
  <1>2. CASE ~Changed(Target(rate, quality))
    BY <1>2 DEF Post, handler, ServerFollowsTarget, ReportedIsAvailable
  <1> QED BY <1>1, <1>2

\* The first estimate, the start rate, is a change.
LEMMA FirstIsChange ==
  ASSUME NEW quality, last = None
  PROVE  Changed(Target(StartBitrate, quality))
  BY ProbeConstants DEF ProbeConstants, Changed, Target, None

\* The invariant is kept by every step.
LEMMA FollowStep == FollowInv /\ [Next]_vars => FollowInv'
  <1> SUFFICES ASSUME FollowInv, [Next]_vars PROVE FollowInv'
    OBVIOUS
  <1> USE DEF FollowInv
  <1>1. CASE OnProcessInterval
    <2>1. PICK quality \in Qualities :
            LET est == Target(StartBitrate, quality)
            IN Post(Estimated(SetBitrates(p), est), est)
      BY <1>1 DEF OnProcessInterval
    <2>2. Changed(Target(StartBitrate, quality))
      BY <1>1, FirstIsChange DEF OnProcessInterval, NothingBefore
    <2>3. started' BY <1>1 DEF OnProcessInterval
    <2> QED BY <2>1, <2>2, <2>3, PostFollows DEF ServerFollowsTarget, NothingBefore
  <1>2. CASE OnTransportPacketsFeedback
    <2>1. started /\ started' BY <1>2 DEF OnTransportPacketsFeedback
    <2>2. CASE UNCHANGED <<last, clusters, handler, probed>>
      BY <2>1, <2>2 DEF handler, ServerFollowsTarget, ReportedIsAvailable, NothingBefore
    <2>3. ASSUME NEW rate \in Rates, NEW quality \in Qualities, NEW c,
                 Post(c, Target(rate, quality))
          PROVE  FollowInv'
      BY <2>1, <2>3, PostFollows DEF ServerFollowsTarget, NothingBefore
    <2> QED BY <1>2, <2>2, <2>3 DEF OnTransportPacketsFeedback
  <1>3. CASE OnSentPacket \/ Tick \/ UNCHANGED vars
    BY <1>3 DEF OnSentPacket, Tick, vars, handler, ServerFollowsTarget,
                ReportedIsAvailable, NothingBefore
  <1> QED BY <1>1, <1>2, <1>3 DEF Next

\* The server always has the rate of the last target, for every sequence of
\* estimates: no change is lost between MaybeTriggerOnNetworkChanged and
\* OnTargetTransferRate.
THEOREM TargetIsFollowed == Spec => []ServerFollowsTarget
  <1>1. Init => FollowInv
    BY DEF Init, FollowInv, ServerFollowsTarget, ReportedIsAvailable, NothingBefore, None
  <1>2. FollowInv => ServerFollowsTarget BY DEF FollowInv
  <1> QED BY <1>1, <1>2, FollowStep, PTL DEF Spec
(***************************************************************************)
(* The controller and the clusters it asked for.  The facts about clusters *)
(* are stated of any controller c, with those it has not handed over yet:  *)
(* a handler builds c step by step, each step keeps Good, and PostUpdates  *)
(* makes c the state.                                                      *)
(***************************************************************************)
States == {"Init", "WaitingForProbingResult", "ProbingComplete"}

Fields ==
  {"state", "min_to_probe_further", "initiated", "estimated", "drop_probed", "alr_end",
   "drop_time", "before_drop", "next_id", "pending"}

ClusterRates == 1 .. kDefaultMaxProbingBitrateBps

Pendings == [id : Int, rate : ClusterRates, kind : Kinds]
PendingSeqs == Seq(Pendings)

Notes == [kind : Kinds, at : Nat]
Histories == Seq(Notes)

Typed(c) ==
  /\ DOMAIN c = Fields
  /\ c.state \in States
  /\ c.min_to_probe_further \in Nat /\ c.initiated \in Nat /\ c.estimated \in Nat
  /\ c.drop_probed \in Nat /\ c.alr_end \in Int /\ c.drop_time \in Nat
  /\ c.before_drop \in Nat /\ c.next_id \in Nat
  /\ c.pending \in PendingSeqs

\* The clusters created so far and those that are pending.
NoteOf(pending) == [kind |-> pending.kind, at |-> now]

NotesOf(queue) == [i \in DOMAIN queue |-> NoteOf(queue[i])]

Noted(c) == probed \o NotesOf(c.pending)

\* The result of a first probe is waited for at a rate whose double is above the
\* limit; after a further probe nothing is waited for.
OnceAtMost(c, s) ==
  /\ c.min_to_probe_further = kExponentialProbingDisabled
       <=> c.state # "WaitingForProbingResult"
  /\ c.state = "WaitingForProbingResult"
       => /\ 2 * (c.min_to_probe_further + 1) > kDefaultMaxProbingBitrateBps
          /\ \A i \in DOMAIN s : s[i].kind # "further"
  /\ \A i, j \in DOMAIN s : s[i].kind = "further" /\ s[j].kind = "further" => i = j

\* Drop probes are apart, and time is not before the last one.
Spaced(time, s) ==
  /\ \A i \in DOMAIN s : s[i].kind = "drop" => s[i].at <= time
  /\ \A i, j \in DOMAIN s :
       i < j /\ s[i].kind = "drop" /\ s[j].kind = "drop"
         => s[j].at - s[i].at > kMinTimeBetweenAlrProbesMs

Numbered(c, s) ==
  /\ Len(s) = c.next_id - 1
  /\ \A i \in DOMAIN c.pending : c.pending[i].id = c.next_id - Len(c.pending) + i - 1

Good(c, s) ==
  Typed(c) /\ s \in Histories /\ OnceAtMost(c, s) /\ Spaced(c.drop_probed, s) /\ Numbered(c, s)

\* The limit is a rate.
LEMMA LimitIsRate == kDefaultMaxProbingBitrateBps \in Nat \ {0}
  BY SMT DEF kDefaultMaxProbingBitrateBps

\* A cluster is for a rate between 1 bps and the limit.
LEMMA ClampedRate ==
  ASSUME NEW rate \in Nat \ {0}
  PROVE  /\ Clamped(rate) \in ClusterRates
         /\ rate > kDefaultMaxProbingBitrateBps => Clamped(rate) # rate
  BY LimitIsRate, SMT DEF Clamped, ClusterRates

\* The notes of pending clusters, one each.
LEMMA NotesOfSeq ==
  ASSUME NEW q \in PendingSeqs, now \in Nat
  PROVE  /\ NotesOf(q) \in Histories
         /\ Len(NotesOf(q)) = Len(q)
         /\ \A i \in 1 .. Len(q) : NotesOf(q)[i] = NoteOf(q[i])
         /\ \A a \in Pendings : NoteOf(a) \in Notes
  <1>1. \A a \in Pendings : NoteOf(a) \in Notes BY DEF NoteOf, Notes, Pendings
  <1>2. Len(q) \in Nat /\ DOMAIN q = 1 .. Len(q) /\ \A i \in 1 .. Len(q) : q[i] \in Pendings
    BY LenProperties, ElementOfSeq DEF PendingSeqs
  <1>3. NotesOf(q) \in [1 .. Len(q) -> Notes] BY <1>1, <1>2 DEF NotesOf
  <1>4. NotesOf(q) \in Seq(Notes) /\ Len(NotesOf(q)) = Len(q) BY <1>2, <1>3
  <1> QED BY <1>1, <1>2, <1>4 DEF Histories, NotesOf

\* One cluster more is pending, and in the history of them.
LEMMA OneMore ==
  ASSUME NEW c, NEW d, NEW one \in Pendings, c.pending \in PendingSeqs,
         d.pending = Append(c.pending, one), probed \in Histories, now \in Nat
  PROVE  /\ d.pending \in PendingSeqs
         /\ Noted(c) \in Histories
         /\ Noted(d) = Append(Noted(c), NoteOf(one))
         /\ NoteOf(one) \in Notes
  <1>1. d.pending \in PendingSeqs BY AppendProperties DEF PendingSeqs
  <1>2. /\ NotesOf(c.pending) \in Histories /\ NotesOf(d.pending) \in Histories
        /\ Len(NotesOf(c.pending)) = Len(c.pending)
        /\ Len(NotesOf(d.pending)) = Len(d.pending)
        /\ NoteOf(one) \in Notes
    BY <1>1, NotesOfSeq
  <1>3. NotesOf(d.pending) = Append(NotesOf(c.pending), NoteOf(one))
    <2>1. Len(d.pending) = Len(c.pending) + 1 /\ Len(c.pending) \in Nat
      BY AppendProperties, LenProperties DEF PendingSeqs
    <2>2. \A i \in 1 .. Len(d.pending) :
            d.pending[i] = IF i = Len(c.pending) + 1 THEN one ELSE c.pending[i]
      BY <2>1 DEF PendingSeqs
    <2>3. \A i \in 1 .. Len(d.pending) :
            NotesOf(d.pending)[i] = Append(NotesOf(c.pending), NoteOf(one))[i]
      <3> TAKE i \in 1 .. Len(d.pending)
      <3>1. NotesOf(d.pending)[i] = NoteOf(d.pending[i]) BY <1>1, NotesOfSeq
      <3>2. i <= Len(c.pending) => NotesOf(c.pending)[i] = NoteOf(c.pending[i])
        BY NotesOfSeq, <2>1
      <3> QED BY <1>2, <2>1, <2>2, <3>1, <3>2 DEF Histories
    <2> QED BY <1>2, <2>1, <2>3, SeqEqual, AppendProperties DEF Histories
  <1>4. Noted(d) = Append(Noted(c), NoteOf(one))
    BY <1>2, <1>3 DEF Noted, Histories
  <1> QED BY <1>1, <1>2, <1>4, ConcatProperties DEF Noted, Histories

\* What InitiateProbing writes.
Initiated(c, pending, next, state, least) ==
  [c EXCEPT !.pending = pending, !.next_id = next, !.initiated = now, !.state = state,
            !.min_to_probe_further = least]

\* The fields of a controller that has initiated a probe.
LEMMA InitiatedFields ==
  ASSUME NEW c, Typed(c), NEW pending \in PendingSeqs, NEW next \in Nat,
         NEW state \in States, NEW least \in Nat, now \in Nat
  PROVE  /\ Typed(Initiated(c, pending, next, state, least))
         /\ Initiated(c, pending, next, state, least).pending = pending
         /\ Initiated(c, pending, next, state, least).next_id = next
         /\ Initiated(c, pending, next, state, least).state = state
         /\ Initiated(c, pending, next, state, least).min_to_probe_further = least
         /\ Initiated(c, pending, next, state, least).estimated = c.estimated
         /\ Initiated(c, pending, next, state, least).drop_probed = c.drop_probed
         /\ Initiated(c, pending, next, state, least).before_drop = c.before_drop
  BY SMT DEF Typed, Fields, Initiated

\* InitiateProbing for one rate: one cluster more is pending; the result is
\* waited for only if the probe may go on, and the rest stays.
LEMMA InitiateOne ==
  ASSUME NEW c, Typed(c), NEW kind \in Kinds, NEW rate \in Nat \ {0},
         NEW further \in BOOLEAN, now \in Nat,
         NEW d, d = InitiateProbing(c, kind, <<rate>>, further)
  PROVE  /\ Typed(d)
         /\ \E one \in Pendings :
              /\ one.kind = kind /\ one.id = c.next_id /\ one.rate = Clamped(rate)
              /\ d.pending = Append(c.pending, one)
         /\ d.next_id = c.next_id + 1
         /\ d.estimated = c.estimated
         /\ d.drop_probed = c.drop_probed
         /\ d.before_drop = c.before_drop
         /\ ~further \/ rate > kDefaultMaxProbingBitrateBps
              => /\ d.state = "ProbingComplete"
                 /\ d.min_to_probe_further = kExponentialProbingDisabled
  <1> DEFINE one == [id |-> c.next_id + 1 - 1, rate |-> Clamped(rate), kind |-> kind]
             goesOn == GoesOn(<<rate>>, further)
             ones == [i \in DOMAIN <<rate>> |->
                        [id |-> c.next_id + i - 1, rate |-> Clamped(<<rate>>[i]),
                         kind |-> kind]]
             state == IF goesOn THEN "WaitingForProbingResult" ELSE "ProbingComplete"
             least == IF goesOn THEN (Last(<<rate>>) * 7) \div 10
                      ELSE kExponentialProbingDisabled
             pending == c.pending \o ones
             next == c.next_id + Len(<<rate>>)
  <1>1. c.pending \in Seq(Pendings) /\ c.next_id \in Nat BY DEF Typed, PendingSeqs
  <1>2. one \in Pendings /\ one.kind = kind /\ one.id = c.next_id /\ one.rate = Clamped(rate)
    BY <1>1, ClampedRate DEF Pendings
  <1>3. ones = <<one>> BY <1>1
  <1>4. pending = Append(c.pending, one) BY <1>1, <1>2, <1>3
  <1>5. ~further \/ rate > kDefaultMaxProbingBitrateBps => ~goesOn
    BY ClampedRate DEF GoesOn
  <1>6. state \in States /\ least \in Nat
    BY DEF States, Last, kExponentialProbingDisabled
  <1>7. d = Initiated(c, pending, next, state, least)
    BY DEF InitiateProbing, Initiated, Typed, Fields
  <1>8. pending \in PendingSeqs BY <1>1, <1>2, <1>4 DEF PendingSeqs
  <1>9. next = c.next_id + 1 OBVIOUS
  <1>10. ~goesOn => state = "ProbingComplete" /\ least = kExponentialProbingDisabled
    OBVIOUS
  <1> HIDE DEF state, least, pending, next, goesOn, one
  <1>11. next \in Nat BY <1>1, <1>9
  <1>12. /\ Typed(Initiated(c, pending, next, state, least))
         /\ Initiated(c, pending, next, state, least).pending = pending
         /\ Initiated(c, pending, next, state, least).next_id = next
         /\ Initiated(c, pending, next, state, least).state = state
         /\ Initiated(c, pending, next, state, least).min_to_probe_further = least
         /\ Initiated(c, pending, next, state, least).estimated = c.estimated
         /\ Initiated(c, pending, next, state, least).drop_probed = c.drop_probed
         /\ Initiated(c, pending, next, state, least).before_drop = c.before_drop
    BY <1>6, <1>8, <1>11, InitiatedFields
  <1>13. /\ d.pending = pending /\ d.next_id = next /\ d.estimated = c.estimated
         /\ d.drop_probed = c.drop_probed /\ d.state = state
         /\ d.min_to_probe_further = least /\ d.before_drop = c.before_drop /\ Typed(d)
    BY <1>7, <1>12, Zenon
  <1> QED BY <1>2, <1>4, <1>5, <1>9, <1>10, <1>13

(***************************************************************************)
(* A history that grows by one cluster                                     *)
(***************************************************************************)

\* The elements of a sequence with one appended.
LEMMA Grown ==
  ASSUME NEW s \in Histories, NEW n \in Notes
  PROVE  /\ Append(s, n) \in Histories
         /\ Len(s) \in Nat /\ Len(Append(s, n)) = Len(s) + 1
         /\ DOMAIN s = 1 .. Len(s) /\ DOMAIN Append(s, n) = 1 .. Len(s) + 1
         /\ \A i \in 1 .. Len(s) : Append(s, n)[i] = s[i] /\ s[i] \in Notes
         /\ Append(s, n)[Len(s) + 1] = n
  BY AppendProperties, LenProperties, ElementOfSeq DEF Histories

\* Numbers continue.
LEMMA NumberedGrown ==
  ASSUME NEW c, NEW d, NEW s \in Histories, NEW n \in Notes, NEW one \in Pendings,
         Numbered(c, s), c.next_id \in Nat, c.pending \in PendingSeqs,
         d.next_id = c.next_id + 1, one.id = c.next_id, d.pending = Append(c.pending, one)
  PROVE  Numbered(d, Append(s, n))
  <1>1. Len(Append(s, n)) = d.next_id - 1 BY Grown DEF Numbered
  <1>2. /\ Len(c.pending) \in Nat /\ DOMAIN c.pending = 1 .. Len(c.pending)
        /\ Len(d.pending) = Len(c.pending) + 1 /\ DOMAIN d.pending = 1 .. Len(d.pending)
        /\ \A i \in 1 .. Len(c.pending) : d.pending[i] = c.pending[i]
        /\ d.pending[Len(c.pending) + 1] = one
    BY AppendProperties, LenProperties DEF PendingSeqs
  <1>3. \A i \in DOMAIN d.pending : d.pending[i].id = d.next_id - Len(d.pending) + i - 1
    <2> TAKE i \in DOMAIN d.pending
    <2>1. CASE i \in 1 .. Len(c.pending)
      <3>1. c.pending[i].id = c.next_id - Len(c.pending) + i - 1
        BY <1>2, <2>1 DEF Numbered
      <3> QED BY <1>2, <2>1, <3>1
    <2>2. CASE i = Len(c.pending) + 1 BY <1>2, <2>2
    <2> QED BY <1>2, <2>1, <2>2
  <1> QED BY <1>1, <1>3 DEF Numbered

\* Another cluster that is not a further probe leaves OnceAtMost, when nothing is
\* waited for; a further one may only come when a result was.
LEMMA OnceGrown ==
  ASSUME NEW c, NEW d, NEW s \in Histories, NEW n \in Notes, OnceAtMost(c, s),
         d.state = "ProbingComplete",
         d.min_to_probe_further = kExponentialProbingDisabled,
         n.kind = "further" => c.state = "WaitingForProbingResult"
  PROVE  OnceAtMost(d, Append(s, n))
  <1> DEFINE t == Append(s, n)
  <1>1. /\ Len(s) \in Nat /\ DOMAIN s = 1 .. Len(s) /\ DOMAIN t = 1 .. Len(s) + 1
        /\ \A i \in 1 .. Len(s) : t[i] = s[i]
        /\ t[Len(s) + 1] = n
    BY Grown
  <1> HIDE DEF t
  <1>2. \A i, j \in DOMAIN t : t[i].kind = "further" /\ t[j].kind = "further" => i = j
    <2>1. \A i, j \in DOMAIN s : s[i].kind = "further" /\ s[j].kind = "further" => i = j
      BY DEF OnceAtMost
    <2>2. n.kind = "further" => \A i \in DOMAIN s : s[i].kind # "further"
      BY DEF OnceAtMost
    <2> QED BY <1>1, <2>1, <2>2
  <1> QED BY <1>2 DEF OnceAtMost, t

\* A drop probe more, noted at now, when the last one is long ago; or a probe of
\* another kind.
LEMMA SpacedGrown ==
  ASSUME NEW before \in Nat, NEW after \in Nat, NEW s \in Histories, NEW n \in Notes,
         Spaced(before, s),
         \/ n.kind # "drop" /\ after = before
         \/ n.at = after /\ after - before > kMinTimeBetweenAlrProbesMs
  PROVE  Spaced(after, Append(s, n))
  <1> DEFINE t == Append(s, n)
  <1>1. /\ Len(s) \in Nat /\ DOMAIN s = 1 .. Len(s) /\ DOMAIN t = 1 .. Len(s) + 1
        /\ \A i \in 1 .. Len(s) : t[i] = s[i] /\ s[i].at \in Nat
        /\ t[Len(s) + 1] = n
    BY Grown DEF Notes
  <1>2. kMinTimeBetweenAlrProbesMs \in Nat BY SMT DEF kMinTimeBetweenAlrProbesMs
  <1> HIDE DEF t
  <1>3. \A i \in DOMAIN t : t[i].kind = "drop" => t[i].at <= after
    <2>1. \A i \in 1 .. Len(s) : s[i].kind = "drop" => s[i].at <= before
      BY <1>1 DEF Spaced
    <2> QED BY <1>1, <1>2, <2>1
  <1>4. \A i, j \in DOMAIN t :
          i < j /\ t[i].kind = "drop" /\ t[j].kind = "drop"
            => t[j].at - t[i].at > kMinTimeBetweenAlrProbesMs
    <2> SUFFICES ASSUME NEW i \in DOMAIN t, NEW j \in DOMAIN t, i < j,
                        t[i].kind = "drop", t[j].kind = "drop"
                 PROVE  t[j].at - t[i].at > kMinTimeBetweenAlrProbesMs
      OBVIOUS
    <2>1. i \in 1 .. Len(s) /\ t[i] = s[i] BY <1>1
    <2>2. CASE j \in 1 .. Len(s) BY <1>1, <2>1, <2>2 DEF Spaced
    <2>3. CASE j = Len(s) + 1
      <3>1. s[i].at <= before /\ s[i].at \in Nat BY <1>1, <2>1 DEF Spaced
      <3> QED BY <1>1, <1>2, <2>1, <2>3, <3>1
    <2> QED BY <1>1, <2>2, <2>3
  <1> QED BY <1>3, <1>4 DEF Spaced, t

\* A probe for one rate that ends the exponential probing.
LEMMA GoodProbe ==
  ASSUME NEW c, NEW d, NEW kind \in Kinds, NEW rate \in Nat \ {0},
         NEW further \in BOOLEAN, NEW before,
         now \in Nat, probed \in Histories, Typed(c), before \in Nat,
         Numbered(c, Noted(c)), OnceAtMost(c, Noted(c)),
         Spaced(before, Noted(c)),
         d = InitiateProbing(c, kind, <<rate>>, further),
         ~further \/ rate > kDefaultMaxProbingBitrateBps,
         kind = "further" => c.state = "WaitingForProbingResult",
         \/ kind # "drop" /\ c.drop_probed = before
         \/ c.drop_probed = now /\ now - before > kMinTimeBetweenAlrProbesMs
  PROVE  /\ Good(d, Noted(d))
         /\ d.estimated = c.estimated /\ d.drop_probed = c.drop_probed
  <1>1. /\ Typed(d) /\ d.next_id = c.next_id + 1 /\ d.estimated = c.estimated
        /\ d.drop_probed = c.drop_probed /\ d.state = "ProbingComplete"
        /\ d.min_to_probe_further = kExponentialProbingDisabled
    BY InitiateOne
  <1>2. PICK one \in Pendings :
          /\ one.kind = kind /\ one.id = c.next_id
          /\ d.pending = Append(c.pending, one)
    BY InitiateOne
  <1>3. c.pending \in PendingSeqs /\ c.next_id \in Nat BY DEF Typed
  <1>4. /\ Noted(c) \in Histories /\ NoteOf(one) \in Notes
        /\ Noted(d) = Append(Noted(c), NoteOf(one))
    BY <1>2, <1>3, OneMore
  <1>5. NoteOf(one).kind = kind /\ NoteOf(one).at = now BY <1>2 DEF NoteOf
  <1>6. Numbered(d, Noted(d)) BY <1>1, <1>2, <1>3, <1>4, NumberedGrown
  <1>7. OnceAtMost(d, Noted(d)) BY <1>1, <1>4, <1>5, OnceGrown
  <1>8. Spaced(d.drop_probed, Noted(d))
    <2>1. d.drop_probed \in Nat BY <1>1 DEF Typed
    <2> QED BY <1>1, <1>4, <1>5, <2>1, SpacedGrown
  <1>9. Noted(d) \in Histories BY <1>4, Grown
  <1> QED BY <1>1, <1>6, <1>7, <1>8, <1>9 DEF Good

(***************************************************************************)
(* The operations of the controller                                        *)
(***************************************************************************)

\* A change of the other fields.
LEMMA GoodSame ==
  ASSUME NEW c, NEW d, Good(c, Noted(c)), Typed(d), d.pending = c.pending,
         d.state = c.state, d.min_to_probe_further = c.min_to_probe_further,
         d.next_id = c.next_id, d.drop_probed = c.drop_probed
  PROVE  Good(d, Noted(d))
  <1>1. Noted(d) = Noted(c) BY DEF Noted
  <1> QED BY <1>1 DEF Good, OnceAtMost, Numbered

\* A further probe: twice a rate above the least is above the limit.
LEMMA GoodFurther ==
  ASSUME NEW c, Good(c, Noted(c)), NEW rate \in Nat, now \in Nat, probed \in Histories
  PROVE  /\ Good(ProbeFurther(c, rate), Noted(ProbeFurther(c, rate)))
         /\ ProbeFurther(c, rate).estimated = c.estimated
         /\ ProbeFurther(c, rate).drop_probed = c.drop_probed
  <1>1. CASE c.state = "WaitingForProbingResult" /\ rate > c.min_to_probe_further
    <2>1. c.min_to_probe_further \in Nat /\ c.drop_probed \in Nat BY DEF Good, Typed
    <2>2. 2 * (c.min_to_probe_further + 1) > kDefaultMaxProbingBitrateBps
      BY <1>1 DEF Good, OnceAtMost
    <2>3. 2 * rate \in Nat \ {0} /\ 2 * rate > kDefaultMaxProbingBitrateBps
      BY <1>1, <2>1, <2>2, LimitIsRate
    <2>4. ProbeFurther(c, rate) = InitiateProbing(c, "further", <<2 * rate>>, TRUE)
      BY <1>1 DEF ProbeFurther
    <2>5. "further" \in Kinds BY DEF Kinds
    <2>6. /\ Typed(c) /\ Numbered(c, Noted(c)) /\ OnceAtMost(c, Noted(c))
          /\ Spaced(c.drop_probed, Noted(c))
      BY DEF Good
    <2> DEFINE r == 2 * rate
               d == ProbeFurther(c, rate)
    <2>7. r \in Nat \ {0} /\ r > kDefaultMaxProbingBitrateBps BY <2>3
    <2>8. d = InitiateProbing(c, "further", <<r>>, TRUE) BY <2>4
    <2> HIDE DEF r, d
    <2>9. /\ Good(d, Noted(d))
          /\ d.estimated = c.estimated /\ d.drop_probed = c.drop_probed
      BY <1>1, <2>1, <2>5, <2>6, <2>7, <2>8, GoodProbe
    <2> QED BY <2>9 DEF d
  <1>2. CASE ~(c.state = "WaitingForProbingResult" /\ rate > c.min_to_probe_further)
    BY <1>2 DEF ProbeFurther
  <1> QED BY <1>1, <1>2

\* A new estimate, with a drop remembered or not.
LEMMA GoodEstimate ==
  ASSUME NEW c, Good(c, Noted(c)), NEW rate \in Nat, now \in Nat, probed \in Histories
  PROVE  LET d == SetEstimatedBitrate(c, rate)
         IN Good(d, Noted(d)) /\ d.estimated = rate /\ d.drop_probed = c.drop_probed
  <1> DEFINE f == ProbeFurther(c, rate)
  <1>1. Good(f, Noted(f)) /\ f.drop_probed = c.drop_probed BY GoodFurther
  <1> HIDE DEF f
  <1> DEFINE n == NoteDrop(f, rate)
             d == [n EXCEPT !.estimated = rate]
  <1>2. Typed(f) BY <1>1 DEF Good
  <1>3. /\ Typed(n) /\ n.pending = f.pending /\ n.state = f.state
        /\ n.min_to_probe_further = f.min_to_probe_further
        /\ n.next_id = f.next_id /\ n.drop_probed = f.drop_probed
    BY <1>2, SMT DEF NoteDrop, Typed, Fields
  <1> HIDE DEF n
  <1>4. /\ Typed(d) /\ d.pending = n.pending /\ d.state = n.state
        /\ d.min_to_probe_further = n.min_to_probe_further
        /\ d.next_id = n.next_id /\ d.drop_probed = n.drop_probed /\ d.estimated = rate
    BY <1>3, SMT DEF Typed, Fields
  <1>5. SetEstimatedBitrate(c, rate) = d BY DEF SetEstimatedBitrate, n, f
  <1> HIDE DEF d
  <1> QED BY <1>1, <1>3, <1>4, <1>5, GoodSame

\* The end of the application limited region is remembered.
LEMMA GoodAlr ==
  ASSUME NEW c, Good(c, Noted(c)), now \in Nat
  PROVE  /\ Good(NoteAlr(c), Noted(NoteAlr(c)))
         /\ NoteAlr(c).estimated = c.estimated
         /\ NoteAlr(c).drop_probed = c.drop_probed
  <1>1. Typed(c) BY DEF Good
  <1>2. /\ Typed(NoteAlr(c)) /\ NoteAlr(c).pending = c.pending
        /\ NoteAlr(c).state = c.state
        /\ NoteAlr(c).min_to_probe_further = c.min_to_probe_further
        /\ NoteAlr(c).next_id = c.next_id /\ NoteAlr(c).drop_probed = c.drop_probed
        /\ NoteAlr(c).estimated = c.estimated
    BY <1>1, SMT DEF NoteAlr, Typed, Fields
  <1> QED BY <1>2, GoodSame

\* A probe after a drop: its rate is not zero, and the last one is long ago.
LEMMA GoodRequest ==
  ASSUME NEW c, Good(c, Noted(c)), now \in Nat, probed \in Histories
  PROVE  /\ Good(RequestProbe(c), Noted(RequestProbe(c)))
         /\ RequestProbe(c).estimated = c.estimated
         /\ \/ RequestProbe(c) = c
            \/ /\ MayProbeDrop(c) /\ RequestProbe(c).before_drop = c.before_drop
               /\ \E one \in Pendings :
                    /\ one.rate = Clamped(Suggested(c))
                    /\ RequestProbe(c).pending = Append(c.pending, one)
  <1>1. CASE MayProbeDrop(c)
    <2> DEFINE d == [c EXCEPT !.drop_probed = now]
    <2>1. Typed(c) BY DEF Good
    <2>2. /\ Typed(d) /\ d.pending = c.pending /\ d.state = c.state
          /\ d.min_to_probe_further = c.min_to_probe_further
          /\ d.next_id = c.next_id /\ d.drop_probed = now /\ d.estimated = c.estimated
          /\ d.before_drop = c.before_drop
      BY <2>1, SMT DEF Typed, Fields
    <2>3. RequestProbe(c) = InitiateProbing(d, "drop", <<Suggested(c)>>, FALSE)
      BY <1>1 DEF RequestProbe
    <2> HIDE DEF d
    <2>4. Suggested(c) \in Nat \ {0}
      <3>1. c.before_drop \in Nat /\ c.estimated \in Nat BY <2>1 DEF Typed
      <3>2. MinExpected(c) > c.estimated BY <1>1 DEF MayProbeDrop
      <3> QED BY <3>1, <3>2, SMT DEF MinExpected, Suggested
    <2>5. Noted(d) = Noted(c) BY <2>2 DEF Noted
    <2>6. /\ Numbered(d, Noted(d)) /\ OnceAtMost(d, Noted(d))
          /\ Spaced(c.drop_probed, Noted(d)) /\ c.drop_probed \in Nat
      BY <2>1, <2>2, <2>5 DEF Good, Numbered, OnceAtMost, Typed
    <2>7. now - c.drop_probed > kMinTimeBetweenAlrProbesMs
      BY <1>1 DEF MayProbeDrop
    <2>8. "drop" \in Kinds BY DEF Kinds
    <2> DEFINE r == RequestProbe(c)
               rate == Suggested(c)
               before == c.drop_probed
               further == FALSE
    <2>9. /\ r = InitiateProbing(d, "drop", <<rate>>, further) /\ rate \in Nat \ {0}
          /\ further \in BOOLEAN /\ ~further
          /\ Typed(d) /\ Numbered(d, Noted(d)) /\ OnceAtMost(d, Noted(d))
          /\ before \in Nat /\ Spaced(before, Noted(d))
          /\ d.drop_probed = now /\ now - before > kMinTimeBetweenAlrProbesMs
      BY <2>2, <2>3, <2>4, <2>6, <2>7
    <2> HIDE DEF r, rate, before, further
    <2>10. Good(r, Noted(r)) /\ r.estimated = d.estimated
      BY <2>8, <2>9, GoodProbe
    <2>11. /\ r.before_drop = d.before_drop
           /\ \E one \in Pendings :
                one.rate = Clamped(rate) /\ r.pending = Append(d.pending, one)
      BY <2>8, <2>9, InitiateOne
    <2> QED BY <1>1, <2>2, <2>10, <2>11 DEF r, rate
  <1>2. CASE ~MayProbeDrop(c) BY <1>2 DEF RequestProbe
  <1> QED BY <1>1, <1>2

(***************************************************************************)
(* The prober's queue                                                      *)
(***************************************************************************)
QueuedClusters == [id : Int, rate : ClusterRates, created : Nat]
Queues == Seq(QueuedClusters)

\* The queued clusters are the last ones, oldest first.
QueueInOrder(q, next) ==
  /\ q \in Queues
  /\ \A i \in 1 .. Len(q) :
       q[i].id = next - Len(q) + i - 1 /\ q[i].created \in Start .. now
  /\ \A i, j \in 1 .. Len(q) : i <= j => q[i].created <= q[j].created

\* A non-empty set of natural numbers has a least element.
LEMMA LeastElement ==
  ASSUME NEW T, T \subseteq Nat, T # {}
  PROVE  \E x \in T : \A y \in T : x <= y
  <1>1. PICK x \in T : \A y \in T : ~(<<y, x>> \in OpToRel(<, Nat))
    BY WFMin, NatLessThanWellFounded
  <1>2. \A y \in T : ~(y < x) BY <1>1 DEF OpToRel
  <1> QED BY <1>2

\* The elements of a queue.
LEMMA QueueTyped ==
  ASSUME NEW q \in Queues
  PROVE  /\ Len(q) \in Nat /\ DOMAIN q = 1 .. Len(q)
         /\ \A i \in 1 .. Len(q) : q[i] \in QueuedClusters /\ q[i].created \in Nat
  <1>1. \A c \in QueuedClusters : c.created \in Nat BY DEF QueuedClusters
  <1>2. Len(q) \in Nat /\ DOMAIN q = 1 .. Len(q) BY LenProperties DEF Queues
  <1>3. \A i \in 1 .. Len(q) : q[i] \in QueuedClusters BY ElementOfSeq DEF Queues
  <1> QED BY <1>1, <1>2, <1>3

\* Because the oldest come first, dropping from the front until one is fresh
\* leaves the fresh ones.
LEMMA ExpiredDropped ==
  ASSUME NEW q, NEW next \in Nat, QueueInOrder(q, next), now \in Nat
  PROVE  /\ QueueInOrder(DropExpired(q), next)
         /\ \A i \in 1 .. Len(DropExpired(q)) :
              now - DropExpired(q)[i].created <= kProbeClusterTimeoutMs
  <1> DEFINE fresh == {i \in DOMAIN q : ~Expired(q[i])}
             first == CHOOSE i \in fresh : \A j \in fresh : i <= j
  <1>1. /\ Len(q) \in Nat /\ DOMAIN q = 1 .. Len(q)
        /\ \A i \in 1 .. Len(q) : q[i] \in QueuedClusters /\ q[i].created \in Nat
    BY QueueTyped DEF QueueInOrder
  <1>2. CASE fresh = {}
    <2>1. DropExpired(q) = <<>> BY <1>2 DEF DropExpired
    <2> QED BY <2>1 DEF QueueInOrder, Queues
  <1>3. CASE fresh # {}
    <2>1. fresh \subseteq Nat BY <1>1
    <2>2. first \in fresh BY <1>3, <2>1, LeastElement
    <2> DEFINE r == SubSeq(q, first, Len(q))
    <2>3. DropExpired(q) = r BY <1>3 DEF DropExpired
    <2>4. first \in 1 .. Len(q) /\ now - q[first].created <= kProbeClusterTimeoutMs
      <3>1. kProbeClusterTimeoutMs \in Nat BY SMT DEF kProbeClusterTimeoutMs
      <3> QED BY <1>1, <2>2, <3>1 DEF Expired
    <2> HIDE DEF first, fresh
    <2>5. /\ r \in Queues /\ Len(r) = Len(q) - first + 1
          /\ \A i \in 1 .. Len(r) : r[i] = q[first + i - 1] /\ first + i - 1 \in 1 .. Len(q)
      BY <1>1, <2>4, SubSeqProperties DEF Queues
    <2> HIDE DEF r
    <2>6. QueueInOrder(r, next)
      <3>1. \A i \in 1 .. Len(r) :
              r[i].id = next - Len(r) + i - 1 /\ r[i].created \in Start .. now
        <4> TAKE i \in 1 .. Len(r)
        <4> DEFINE k == first + i - 1
        <4>1. k \in 1 .. Len(q) /\ r[i] = q[k] BY <2>5
        <4>2. q[k].id = next - Len(q) + k - 1 /\ q[k].created \in Start .. now
          BY <4>1 DEF QueueInOrder
        <4> QED BY <1>1, <2>4, <2>5, <4>1, <4>2
      <3>2. \A i, j \in 1 .. Len(r) : i <= j => r[i].created <= r[j].created
        <4> TAKE i, j \in 1 .. Len(r)
        <4> DEFINE k == first + i - 1
                   l == first + j - 1
        <4>1. k \in 1 .. Len(q) /\ l \in 1 .. Len(q) /\ r[i] = q[k] /\ r[j] = q[l]
          BY <2>5
        <4>2. i <= j => k <= l BY <2>4
        <4> HIDE DEF k, l
        <4> QED BY <4>1, <4>2 DEF QueueInOrder
      <3> QED BY <2>5, <3>1, <3>2 DEF QueueInOrder
    <2>7. \A i \in 1 .. Len(r) : now - r[i].created <= kProbeClusterTimeoutMs
      <3> TAKE i \in 1 .. Len(r)
      <3> DEFINE k == first + i - 1
      <3>1. k \in 1 .. Len(q) /\ r[i] = q[k] /\ first <= k BY <2>4, <2>5
      <3> HIDE DEF k
      <3>2. q[first].created <= q[k].created BY <2>4, <3>1 DEF QueueInOrder
      <3>3. kProbeClusterTimeoutMs \in Nat BY SMT DEF kProbeClusterTimeoutMs
      <3> QED BY <1>1, <2>4, <3>1, <3>2, <3>3
    <2> QED BY <2>3, <2>6, <2>7
  <1> QED BY <1>2, <1>3

\* No cluster of the queue is too old at the newest.
QueueFresh(q) ==
  \A i \in DOMAIN q : Last(q).created - q[i].created <= kProbeClusterTimeoutMs

\* A pending cluster once it is queued, now.
QueuedOne(c) == [id |-> c.id, rate |-> c.rate, created |-> now]

QueuedOf(pending) == [i \in DOMAIN pending |-> QueuedOne(pending[i])]

\* The new clusters in the queue are those that were pending, created now.
LEMMA QueuedOfSeq ==
  ASSUME NEW pending \in PendingSeqs, now \in Nat
  PROVE  /\ QueuedOf(pending) \in Queues /\ Len(QueuedOf(pending)) = Len(pending)
         /\ Len(pending) \in Nat /\ DOMAIN pending = 1 .. Len(pending)
         /\ \A i \in 1 .. Len(pending) :
              /\ QueuedOf(pending)[i].id = pending[i].id
              /\ QueuedOf(pending)[i].rate = pending[i].rate
              /\ QueuedOf(pending)[i].created = now
  <1>1. /\ Len(pending) \in Nat /\ DOMAIN pending = 1 .. Len(pending)
        /\ \A i \in 1 .. Len(pending) : pending[i] \in Pendings
    BY LenProperties, ElementOfSeq DEF PendingSeqs
  <1>2. \A c \in Pendings : QueuedOne(c) \in QueuedClusters
    BY DEF QueuedOne, QueuedClusters, Pendings
  <1>3. QueuedOf(pending) \in [1 .. Len(pending) -> QueuedClusters]
    BY <1>1, <1>2 DEF QueuedOf
  <1>4. QueuedOf(pending) \in Queues /\ Len(QueuedOf(pending)) = Len(pending)
    BY <1>1, <1>3 DEF Queues
  <1>5. \A i \in 1 .. Len(pending) : QueuedOf(pending)[i] = QueuedOne(pending[i])
    BY <1>1 DEF QueuedOf
  <1>6. \A c : QueuedOne(c).id = c.id /\ QueuedOne(c).rate = c.rate /\ QueuedOne(c).created = now
    BY DEF QueuedOne
  <1> QED BY <1>1, <1>4, <1>5, <1>6

NumberedFrom(next, pending) == \A i \in DOMAIN pending : pending[i].id = next + i - 1

Grow(q, pending) == DropExpired(q) \o QueuedOf(pending)

\* New clusters behind the fresh ones keep the queue in order and fresh.
LEMMA ClustersQueued ==
  ASSUME NEW q, NEW next \in Nat, QueueInOrder(q, next), now \in Nat, Start <= now,
         NEW pending \in PendingSeqs, pending # <<>>,
         NumberedFrom(next, pending)
  PROVE  /\ QueueInOrder(Grow(q, pending), next + Len(pending))
         /\ QueueFresh(Grow(q, pending))
         /\ Grow(q, pending) # <<>> /\ Last(Grow(q, pending)).rate = Last(pending).rate
  <1> DEFINE r == DropExpired(q)
             new == QueuedOf(pending)
             s == Grow(q, pending)
  <1>1. /\ QueueInOrder(r, next)
        /\ \A i \in 1 .. Len(r) : now - r[i].created <= kProbeClusterTimeoutMs
    BY ExpiredDropped
  <1>2. s = r \o new BY DEF Grow
  <1>3. /\ Len(pending) \in Nat \ {0} /\ DOMAIN pending = 1 .. Len(pending)
    BY LenProperties, EmptySeq DEF PendingSeqs
  <1>4. \A i \in 1 .. Len(pending) :
          new[i].id = next + i - 1 /\ new[i].rate = pending[i].rate /\ new[i].created = now
    BY <1>3, QueuedOfSeq DEF NumberedFrom
  <1>5. new \in Queues /\ Len(new) = Len(pending) BY QueuedOfSeq
  <1> HIDE DEF r, new, s
  <1>6. r \in Queues /\ Len(r) \in Nat BY <1>1, QueueTyped DEF QueueInOrder
  <1>7. /\ s \in Queues /\ Len(s) = Len(r) + Len(pending)
        /\ \A i \in 1 .. Len(r) : s[i] = r[i]
        /\ \A i \in 1 .. Len(pending) : s[Len(r) + i] = new[i]
    <2>1. /\ r \o new \in Queues /\ Len(r \o new) = Len(r) + Len(new)
          /\ \A i \in 1 .. Len(r) + Len(new) :
               (r \o new)[i] = IF i <= Len(r) THEN r[i] ELSE new[i - Len(r)]
      <3>1. r \in Seq(QueuedClusters) /\ new \in Seq(QueuedClusters)
        BY <1>5, <1>6 DEF Queues
      <3> QED BY <3>1, ConcatProperties, Zenon DEF Queues
    <2>2. ASSUME NEW i \in 1 .. Len(pending) PROVE s[Len(r) + i] = new[i]
      <3> DEFINE k == Len(r) + i
      <3>1. k \in 1 .. Len(r) + Len(new) /\ ~(k <= Len(r)) /\ k - Len(r) = i
        BY <1>3, <1>5, <1>6
      <3> HIDE DEF k
      <3>2. s[k] = new[i] BY <1>2, <2>1, <3>1
      <3> QED BY <3>2 DEF k
    <2> QED BY <1>2, <1>3, <1>5, <1>6, <2>1, <2>2
  <1>8. DOMAIN s = 1 .. Len(s) BY <1>7, QueueTyped
  <1>9. \A i \in 1 .. Len(s) :
           \/ i \in 1 .. Len(r)
           \/ \E k \in 1 .. Len(pending) : i = Len(r) + k
    <2> TAKE i \in 1 .. Len(s)
    <2>1. i \notin 1 .. Len(r) => i - Len(r) \in 1 .. Len(pending) /\ i = Len(r) + (i - Len(r))
      BY <1>3, <1>6, <1>7
    <2> QED BY <2>1
  <1>10. \A i \in 1 .. Len(r) :
           /\ s[i].id = next - Len(r) + i - 1
           /\ s[i].created \in Start .. now /\ now - s[i].created <= kProbeClusterTimeoutMs
    BY <1>1, <1>7 DEF QueueInOrder
  <1>11. \A k \in 1 .. Len(pending) :
           s[Len(r) + k].id = next + k - 1 /\ s[Len(r) + k].created = now
    BY <1>4, <1>7
  <1>12. Start \in Nat /\ kProbeClusterTimeoutMs \in Nat
    BY ProbeConstants, SMT DEF ProbeConstants, kProbeClusterTimeoutMs
  <1>13. \A i \in 1 .. Len(s) :
           /\ s[i].id = next + Len(pending) - Len(s) + i - 1
           /\ s[i].created \in Start .. now /\ now - s[i].created <= kProbeClusterTimeoutMs
    <2> TAKE i \in 1 .. Len(s)
    <2>1. CASE i \in 1 .. Len(r) BY <1>3, <1>6, <1>7, <1>10, <2>1
    <2>2. CASE \E k \in 1 .. Len(pending) : i = Len(r) + k
      <3>1. PICK k \in 1 .. Len(pending) : i = Len(r) + k BY <2>2
      <3>2. s[i].id = next + k - 1 /\ s[i].created = now BY <1>11, <3>1
      <3> QED BY <1>3, <1>6, <1>7, <1>12, <3>1, <3>2
    <2> QED BY <1>9, <2>1, <2>2
  <1>14. \A i, j \in 1 .. Len(s) : i <= j => s[i].created <= s[j].created
    <2> SUFFICES ASSUME NEW i \in 1 .. Len(s), NEW j \in 1 .. Len(s), i <= j
                 PROVE  s[i].created <= s[j].created
      OBVIOUS
    <2>1. CASE j \in 1 .. Len(r)
      <3>1. i \in 1 .. Len(r) BY <2>1
      <3> QED BY <1>1, <1>7, <2>1, <3>1 DEF QueueInOrder
    <2>2. CASE \E k \in 1 .. Len(pending) : j = Len(r) + k
      <3>1. s[j].created = now BY <1>11, <2>2
      <3>2. s[i].created \in Start .. now BY <1>13
      <3> QED BY <1>12, <3>1, <3>2
    <2> QED BY <1>9, <2>1, <2>2
  <1>15. /\ s # <<>> /\ Last(s) = s[Len(r) + Len(pending)]
         /\ Last(s).created = now /\ Last(s).rate = Last(pending).rate
    <2>1. Last(s) = s[Len(r) + Len(pending)] BY <1>7 DEF Last
    <2>2. s[Len(r) + Len(pending)] = new[Len(pending)] BY <1>3, <1>7
    <2>3. new[Len(pending)].created = now /\ new[Len(pending)].rate = pending[Len(pending)].rate
      BY <1>3, <1>4
    <2>4. s # <<>> BY <1>3, <1>6, <1>7, EmptySeq
    <2> QED BY <2>1, <2>2, <2>3, <2>4 DEF Last
  <1>16. QueueInOrder(s, next + Len(pending)) BY <1>7, <1>13, <1>14 DEF QueueInOrder
  <1>17. QueueFresh(s) BY <1>8, <1>13, <1>15 DEF QueueFresh
  <1> QED BY <1>15, <1>16, <1>17 DEF s

(***************************************************************************)
(* The invariant of the state                                              *)
(***************************************************************************)
ClusterInv ==
  /\ now \in Start .. MaxTime
  /\ Good(p, probed) /\ p.pending = <<>>
  /\ p.estimated = last.rate
  /\ QueueInOrder(clusters, p.next_id) /\ QueueFresh(clusters)
  /\ ~started => p = NewController /\ probed = <<>> /\ last = None

\* Nothing is pending between two handlers.
LEMMA NothingPending ==
  ASSUME NEW c, c.pending = <<>>, probed \in Histories
  PROVE  Noted(c) = probed
  <1>1. NotesOf(<<>>) = <<>> BY DEF NotesOf
  <1> QED BY <1>1, ConcatEmptySeq DEF Noted, Histories

\* The first probes: two clusters, and a result is waited for unless the start
\* rate is above the limit.
LEMMA GoodFirst ==
  ASSUME p = NewController, probed = <<>>, now \in Nat
  PROVE  /\ Good(SetBitrates(p), Noted(SetBitrates(p)))
         /\ SetBitrates(p).drop_probed = p.drop_probed
  <1> DEFINE e == [p EXCEPT !.estimated = StartBitrate]
             rates == <<3 * StartBitrate, 6 * StartBitrate>>
             one == [id |-> 1, rate |-> Clamped(3 * StartBitrate), kind |-> "first"]
             two == [id |-> 2, rate |-> Clamped(6 * StartBitrate), kind |-> "first"]
             pending == <<one, two>>
             goesOn == GoesOn(rates, TRUE)
             state == IF goesOn THEN "WaitingForProbingResult" ELSE "ProbingComplete"
             least == IF goesOn THEN (Last(rates) * 7) \div 10
                      ELSE kExponentialProbingDisabled
  <1>1. StartBitrate \in Nat \ {0} /\ 3 * StartBitrate \in Nat \ {0}
        /\ 6 * StartBitrate \in Nat \ {0}
    BY ProbeConstants, SMT DEF ProbeConstants
  <1>2. /\ Typed(e) /\ e.pending = <<>> /\ e.next_id = 1 /\ e.drop_probed = 0
    <2>1. Typed(NewController)
      BY <1>1, EmptySeq, SMT DEF NewController, Typed, Fields, States, NoTime,
                                 PendingSeqs, kExponentialProbingDisabled
    <2> QED BY <1>1, <2>1, SMT DEF NewController, Typed, Fields
  <1>3. one \in Pendings /\ two \in Pendings
    BY <1>1, ClampedRate DEF Pendings, Kinds
  <1>4. pending \in PendingSeqs BY <1>3 DEF PendingSeqs
  <1>5. Last(rates) = 6 * StartBitrate BY DEF Last
  <1>6. /\ state \in States /\ least \in Nat
        /\ least = kExponentialProbingDisabled <=> state # "WaitingForProbingResult"
        /\ state = "WaitingForProbingResult"
             => 2 * (least + 1) > kDefaultMaxProbingBitrateBps
    <2> DEFINE high == (42 * StartBitrate) \div 10
    <2>1. (6 * StartBitrate * 7) \div 10 = high BY <1>1
    <2>2. high > 0 /\ high \in Nat BY <1>1, SMT
    <2>3. 2 * (high + 1) > kDefaultMaxProbingBitrateBps BY StartIsHigh DEF StartIsHigh
    <2> HIDE DEF high
    <2>4. CASE goesOn
      <3>1. state = "WaitingForProbingResult" /\ least = high BY <1>5, <2>1, <2>4
      <3> HIDE DEF state, least
      <3> QED BY <2>2, <2>3, <3>1 DEF States, kExponentialProbingDisabled
    <2>5. CASE ~goesOn
      <3>1. state = "ProbingComplete" /\ least = kExponentialProbingDisabled BY <2>5
      <3> HIDE DEF state, least
      <3> QED BY <3>1 DEF States, kExponentialProbingDisabled
    <2> QED BY <2>4, <2>5
  <1> DEFINE ones == [i \in DOMAIN rates |->
                        [id |-> e.next_id + i - 1, rate |-> Clamped(rates[i]),
                         kind |-> "first"]]
             added == e.pending \o ones
             next == e.next_id + Len(rates)
  <1>7. next = 3 /\ added = pending
    <2>1. DOMAIN rates = 1 .. 2 /\ Len(rates) = 2 /\ rates[1] = 3 * StartBitrate
          /\ rates[2] = 6 * StartBitrate
      OBVIOUS
    <2> HIDE DEF e, rates
    <2>2. ones[1] = one /\ ones[2] = two BY <1>2, <2>1
    <2>3. ones \in [1 .. 2 -> {one, two}] BY <1>2, <2>1
    <2> HIDE DEF ones, one, two
    <2>4. ones = <<one, two>> BY <2>2, <2>3
    <2>5. <<>> \o pending = pending BY <1>4, ConcatEmptySeq DEF PendingSeqs
    <2> QED BY <1>2, <2>1, <2>4, <2>5
  <1>8. SetBitrates(p) = Initiated(e, added, next, state, least)
    BY DEF SetBitrates, InitiateProbing, Initiated
  <1> DEFINE d == SetBitrates(p)
  <1> HIDE DEF e, rates, state, least, goesOn, one, two, pending, added, next
  <1>9. /\ Typed(d) /\ d.pending = pending /\ d.next_id = 3 /\ d.state = state
        /\ d.min_to_probe_further = least /\ d.drop_probed = 0
    <2>1. d = Initiated(e, pending, 3, state, least) BY <1>7, <1>8
    <2> HIDE DEF d
    <2>2. LET i == Initiated(e, pending, 3, state, least)
          IN /\ Typed(i) /\ i.pending = pending /\ i.next_id = 3 /\ i.state = state
             /\ i.min_to_probe_further = least /\ i.drop_probed = 0
      BY <1>2, <1>4, <1>6, InitiatedFields
    <2> QED BY <2>1, <2>2, Zenon
  <1> HIDE DEF d
  <1>10. Noted(d) = <<NoteOf(one), NoteOf(two)>>
    BY <1>9 DEF Noted, NotesOf, pending
  <1>11. /\ NoteOf(one) \in Notes /\ NoteOf(two) \in Notes
         /\ NoteOf(one).kind = "first" /\ NoteOf(two).kind = "first"
    BY <1>3 DEF NoteOf, Notes, one, two, Kinds
  <1>12. Noted(d) \in Histories /\ Len(Noted(d)) = 2
         /\ \A i \in DOMAIN Noted(d) : Noted(d)[i].kind = "first"
    BY <1>10, <1>11 DEF Histories
  <1>13. Numbered(d, Noted(d))
    <2>1. one.id = 1 /\ two.id = 2 BY DEF one, two
    <2>2. DOMAIN pending = 1 .. 2 /\ Len(pending) = 2 /\ pending[1] = one /\ pending[2] = two
      BY DEF pending
    <2>3. \A i \in 1 .. 2 : pending[i].id = 3 - 2 + i - 1 BY <2>1, <2>2
    <2> QED BY <1>9, <1>12, <2>2, <2>3 DEF Numbered
  <1>14. OnceAtMost(d, Noted(d)) BY <1>6, <1>9, <1>12 DEF OnceAtMost
  <1>15. Spaced(d.drop_probed, Noted(d)) BY <1>12 DEF Spaced
  <1>16. Good(d, Noted(d)) BY <1>9, <1>12, <1>13, <1>14, <1>15 DEF Good
  <1>17. p.drop_probed = 0 BY DEF NewController
  <1> QED BY <1>9, <1>16, <1>17 DEF d

\* PostUpdates hands the clusters over: none is lost, none is out of order.
LEMMA Posted ==
  ASSUME ClusterInv, NEW c, NEW est, Good(c, Noted(c)), Post(c, est),
         c.estimated = IF Changed(est) THEN est.rate ELSE last.rate,
         now' = now, started'
  PROVE  /\ ClusterInv'
         /\ p'.drop_probed = c.drop_probed /\ p'.before_drop = c.before_drop
         /\ p'.estimated = c.estimated
         /\ c.pending # <<>> => clusters' # <<>> /\ Last(clusters').rate = Last(c.pending).rate
  <1> DEFINE d == [c EXCEPT !.pending = <<>>]
  <1>1. now \in Nat /\ Start <= now BY ProbeConstants DEF ClusterInv, ProbeConstants
  <1>2. Typed(c) /\ Numbered(c, Noted(c)) /\ probed \in Histories BY DEF Good, ClusterInv
  <1>3. /\ Typed(d) /\ d.pending = <<>> /\ d.state = c.state
        /\ d.min_to_probe_further = c.min_to_probe_further /\ d.next_id = c.next_id
        /\ d.drop_probed = c.drop_probed /\ d.estimated = c.estimated
        /\ d.before_drop = c.before_drop
    <2>1. <<>> \in PendingSeqs BY EmptySeq DEF PendingSeqs
    <2> QED BY <1>2, <2>1, SMT DEF Typed, Fields
  <1>4. p' = d BY DEF Post
  <1> HIDE DEF d
  <1>5. Good(d, Noted(c)) BY <1>3 DEF Good, OnceAtMost, Numbered
  <1>6. probed' = Noted(c) BY DEF Post, CreateProbeClusters, Noted, NotesOf, NoteOf
  <1>7. last'.rate = c.estimated BY DEF Post
  <1>8. /\ Len(c.pending) \in Nat /\ c.next_id = p.next_id + Len(c.pending)
        /\ \A i \in DOMAIN c.pending : c.pending[i].id = p.next_id + i - 1
        /\ p.next_id \in Nat /\ c.pending \in PendingSeqs
    <2>1. /\ p.next_id \in Nat /\ c.next_id \in Nat /\ c.pending \in PendingSeqs
          /\ Len(c.pending) \in Nat /\ DOMAIN c.pending = 1 .. Len(c.pending)
      BY <1>2, LenProperties DEF ClusterInv, Good, Typed, PendingSeqs
    <2>2. Len(probed) = p.next_id - 1 /\ Len(Noted(c)) = c.next_id - 1
      BY <1>2 DEF ClusterInv, Good, Numbered
    <2>3. NotesOf(c.pending) \in Histories /\ Len(NotesOf(c.pending)) = Len(c.pending)
      BY <1>1, <2>1, NotesOfSeq
    <2>4. Len(Noted(c)) = Len(probed) + Len(c.pending)
      <3> DEFINE n == NotesOf(c.pending)
      <3>1. Noted(c) = probed \o n BY DEF Noted
      <3>2. probed \in Seq(Notes) /\ n \in Seq(Notes) BY <1>2, <2>3 DEF Histories
      <3> HIDE DEF n
      <3>3. Len(probed \o n) = Len(probed) + Len(n) BY <3>2, ConcatProperties
      <3> QED BY <2>3, <3>1, <3>3 DEF n
    <2>5. c.next_id = p.next_id + Len(c.pending)
      <3> DEFINE len == Len(c.pending)
                 next == c.next_id
      <3>1. len \in Nat /\ next \in Nat /\ p.next_id \in Nat BY <2>1
      <3>2. next - 1 = p.next_id - 1 + len BY <2>2, <2>4
      <3> HIDE DEF len, next
      <3>3. next = p.next_id + len BY <3>1, <3>2
      <3> QED BY <3>3 DEF len, next
    <2> QED BY <1>2, <2>1, <2>5 DEF Numbered
  <1>9. /\ QueueInOrder(clusters', c.next_id) /\ QueueFresh(clusters')
        /\ c.pending # <<>> => clusters' # <<>> /\ Last(clusters').rate = Last(c.pending).rate
    <2>1. CASE c.pending = <<>>
      <3>1. clusters' = clusters BY <2>1 DEF Post, CreateProbeClusters
      <3>2. c.next_id = p.next_id BY <1>8, <2>1
      <3> QED BY <2>1, <3>1, <3>2 DEF ClusterInv
    <2>2. CASE c.pending # <<>>
      <3>1. clusters' = Grow(clusters, c.pending)
        BY <2>2 DEF Post, CreateProbeClusters, Grow, QueuedOf, QueuedOne
      <3>2. QueueInOrder(clusters, p.next_id) BY DEF ClusterInv
      <3> DEFINE pending == c.pending
                 next == p.next_id
      <3>3. /\ pending \in PendingSeqs /\ pending # <<>> /\ next \in Nat
            /\ QueueInOrder(clusters, next) /\ NumberedFrom(next, pending)
        BY <1>8, <2>2, <3>2 DEF NumberedFrom
      <3> HIDE DEF pending, next
      <3>4. /\ QueueInOrder(Grow(clusters, pending), next + Len(pending))
            /\ QueueFresh(Grow(clusters, pending))
            /\ Grow(clusters, pending) # <<>>
            /\ Last(Grow(clusters, pending)).rate = Last(pending).rate
        BY <1>1, <3>3, ClustersQueued
      <3> QED BY <1>8, <3>1, <3>4 DEF pending, next
    <2> QED BY <2>1, <2>2
  <1>10. QueueInOrder(clusters, p.next_id)'
    BY <1>3, <1>4, <1>9 DEF QueueInOrder
  <1>11. QueueFresh(clusters)' BY <1>9 DEF QueueFresh
  <1>12. Good(p, probed)'
    BY <1>4, <1>5, <1>6 DEF Good, Typed, OnceAtMost, Spaced, Numbered
  <1>13. ClusterInv'
    BY <1>3, <1>4, <1>7, <1>10, <1>11, <1>12 DEF ClusterInv
  <1> QED BY <1>3, <1>4, <1>9, <1>13

\* MaybeTriggerOnNetworkChanged: the controller has the new estimate, or the last
\* one when nothing changed.
LEMMA GoodEstimated ==
  ASSUME NEW c, Good(c, Noted(c)), NEW rate \in Nat, NEW quality,
         now \in Nat, probed \in Histories,
         Changed(Target(rate, quality)) \/ c.estimated = last.rate
  PROVE  LET est == Target(rate, quality)
             d == Estimated(c, est)
         IN /\ Good(d, Noted(d)) /\ d.drop_probed = c.drop_probed
            /\ d.estimated = IF Changed(est) THEN est.rate ELSE last.rate
  <1> DEFINE est == Target(rate, quality)
  <1>1. est.rate = rate BY DEF Target
  <1>2. CASE Changed(est)
    <2>1. Estimated(c, est) = SetEstimatedBitrate(c, rate) BY <1>1, <1>2 DEF Estimated
    <2> QED BY <1>1, <1>2, <2>1, GoodEstimate
  <1>3. CASE ~Changed(est)
    <2>1. Estimated(c, est) = c BY <1>3 DEF Estimated
    <2> QED BY <1>3, <2>1
  <1> QED BY <1>2, <1>3

\* The first interval: the invariant holds with the first clusters, and none of
\* them is a probe after a drop.
LEMMA ClusterFirstStep ==
  ASSUME ClusterInv, OnProcessInterval
  PROVE  ClusterInv' /\ p'.drop_probed = p.drop_probed
  <1>1. /\ p = NewController /\ probed = <<>> /\ last = None /\ now' = now /\ started'
        /\ probed \in Histories /\ now \in Nat
    BY ProbeConstants DEF OnProcessInterval, ClusterInv, Good, ProbeConstants
  <1>2. PICK quality \in Qualities :
          LET est == Target(StartBitrate, quality)
          IN Post(Estimated(SetBitrates(p), est), est)
    BY DEF OnProcessInterval
  <1> DEFINE est == Target(StartBitrate, quality)
             c == SetBitrates(p)
             d == Estimated(c, est)
  <1>3. Good(c, Noted(c)) /\ c.drop_probed = p.drop_probed BY <1>1, GoodFirst
  <1>4. Changed(est) BY <1>1, FirstIsChange
  <1> HIDE DEF c
  <1>5. /\ Good(d, Noted(d)) /\ d.drop_probed = c.drop_probed
        /\ d.estimated = IF Changed(est) THEN est.rate ELSE last.rate
    <2>1. StartBitrate \in Nat BY ProbeConstants DEF ProbeConstants
    <2> QED BY <1>1, <1>3, <1>4, <2>1, GoodEstimated
  <1>6. Post(d, est) BY <1>2 DEF c
  <1> HIDE DEF d, est
  <1> QED BY <1>1, <1>3, <1>5, <1>6, Posted

\* Every step but a feedback keeps the invariant.
LEMMA ClusterOtherStep ==
  ASSUME ClusterInv, OnProcessInterval \/ OnSentPacket \/ Tick \/ UNCHANGED vars
  PROVE  ClusterInv'
  <1>1. now \in Nat /\ Start \in Nat /\ MaxTime \in Nat
    BY ProbeConstants DEF ClusterInv, ProbeConstants
  <1>2. CASE OnProcessInterval BY <1>2, ClusterFirstStep
  <1>3. CASE OnSentPacket
    <2>1. ~started' => ~started BY <1>3 DEF OnSentPacket
    <2> QED BY <1>3, <2>1 DEF OnSentPacket, handler, ClusterInv, Good, Typed, OnceAtMost,
                              Spaced, Numbered, QueueInOrder, QueueFresh
  <1>4. CASE Tick
    <2>1. PICK ms \in Elapsed : now + ms <= MaxTime /\ now' = now + ms BY <1>4 DEF Tick
    <2>2. now' \in Start .. MaxTime /\ now <= now'
      BY <1>1, <2>1, ProbeConstants DEF ProbeConstants, ClusterInv
    <2>3. UNCHANGED <<started, last, p, clusters, probed>> BY <1>4 DEF Tick
    <2>4. QueueInOrder(clusters, p.next_id)'
      <3>1. QueueInOrder(clusters, p.next_id) BY DEF ClusterInv
      <3>2. \A t \in Start .. now : t \in Start .. now' BY <1>1, <2>2
      <3> QED BY <2>3, <3>1, <3>2 DEF QueueInOrder
    <2> QED BY <2>2, <2>3, <2>4 DEF ClusterInv, Good, Typed, OnceAtMost, Spaced, Numbered,
                                    QueueFresh
  <1>5. CASE UNCHANGED vars
    BY <1>5 DEF vars, ClusterInv, Good, Typed, OnceAtMost, Spaced, Numbered, QueueInOrder,
                QueueFresh
  <1> QED BY <1>2, <1>3, <1>4, <1>5

\* A feedback with an estimate, and what it asks the prober for.
LEMMA ClusterFeedback ==
  ASSUME ClusterInv, NEW rate \in Rates, NEW quality, NEW recovered \in BOOLEAN,
         LET est == Target(rate, quality)
             estimated == Estimated(NoteAlr(p), est)
         IN Post(IF recovered THEN RequestProbe(estimated) ELSE estimated, est),
         now' = now, started'
  PROVE  /\ ClusterInv'
         /\ p'.drop_probed # p.drop_probed
              => \E c : /\ Typed(c) /\ MayProbeDrop(c)
                        /\ p'.before_drop = c.before_drop /\ p'.estimated = c.estimated
                        /\ clusters' # <<>> /\ Last(clusters').rate = Clamped(Suggested(c))
  <1>1. now \in Nat /\ rate \in Nat /\ probed \in Histories
    BY ProbeConstants DEF ClusterInv, ProbeConstants, Good
  <1>2. Good(p, Noted(p)) /\ p.estimated = last.rate
    BY <1>1, NothingPending DEF ClusterInv
  <1> DEFINE est == Target(rate, quality)
             a == NoteAlr(p)
             c == Estimated(a, est)
             d == IF recovered THEN RequestProbe(c) ELSE c
  <1>3. Good(a, Noted(a)) /\ a.estimated = last.rate /\ a.drop_probed = p.drop_probed
    BY <1>1, <1>2, GoodAlr
  <1>4. Post(d, est) OBVIOUS
  <1> HIDE DEF a
  <1>5. /\ Good(c, Noted(c)) /\ c.drop_probed = p.drop_probed
        /\ c.estimated = IF Changed(est) THEN est.rate ELSE last.rate
    BY <1>1, <1>3, GoodEstimated
  <1> HIDE DEF c, est
  <1>6. /\ Good(d, Noted(d)) /\ d.estimated = c.estimated
        /\ \/ d = c
           \/ /\ MayProbeDrop(c) /\ d.before_drop = c.before_drop
              /\ \E one \in Pendings :
                   one.rate = Clamped(Suggested(c)) /\ d.pending = Append(c.pending, one)
    BY <1>1, <1>5, GoodRequest
  <1> HIDE DEF d
  <1>7. /\ ClusterInv' /\ p'.drop_probed = d.drop_probed /\ p'.before_drop = d.before_drop
        /\ p'.estimated = d.estimated
        /\ d.pending # <<>> => clusters' # <<>> /\ Last(clusters').rate = Last(d.pending).rate
    BY <1>4, <1>5, <1>6, Posted
  <1>8. ASSUME p'.drop_probed # p.drop_probed
        PROVE  /\ Typed(c) /\ MayProbeDrop(c)
               /\ p'.before_drop = c.before_drop /\ p'.estimated = c.estimated
               /\ clusters' # <<>> /\ Last(clusters').rate = Clamped(Suggested(c))
    <2>1. d # c BY <1>5, <1>7, <1>8
    <2>2. PICK one \in Pendings :
            one.rate = Clamped(Suggested(c)) /\ d.pending = Append(c.pending, one)
      BY <1>6, <2>1
    <2>3. Typed(c) /\ c.pending \in Seq(Pendings) BY <1>5 DEF Good, Typed, PendingSeqs
    <2>4. d.pending # <<>> /\ Last(d.pending) = one
      BY <2>2, <2>3, AppendProperties DEF Last
    <2> QED BY <1>6, <1>7, <2>1, <2>2, <2>3, <2>4
  <1> QED BY <1>7, <1>8

\* The invariant is kept by every step.
LEMMA ClusterStep == ClusterInv /\ [Next]_vars => ClusterInv'
  <1> SUFFICES ASSUME ClusterInv, [Next]_vars PROVE ClusterInv'
    OBVIOUS
  <1>1. CASE OnTransportPacketsFeedback
    <2>1. now' = now /\ started' BY <1>1 DEF OnTransportPacketsFeedback
    <2>2. CASE p' = NoteAlr(p) /\ UNCHANGED <<last, clusters, handler, probed>>
      <3>1. now \in Nat BY ProbeConstants DEF ClusterInv, ProbeConstants
      <3>2. Good(p, Noted(p)) /\ Noted(p) = probed BY NothingPending DEF ClusterInv, Good
      <3>3. Typed(p) BY DEF ClusterInv, Good
      <3>4. /\ Typed(p') /\ p'.pending = p.pending /\ p'.state = p.state
            /\ p'.min_to_probe_further = p.min_to_probe_further
            /\ p'.next_id = p.next_id /\ p'.drop_probed = p.drop_probed
            /\ p'.estimated = p.estimated
        <4> DEFINE a == NoteAlr(p)
        <4>1. /\ Typed(a) /\ a.pending = p.pending /\ a.state = p.state
              /\ a.min_to_probe_further = p.min_to_probe_further
              /\ a.next_id = p.next_id /\ a.drop_probed = p.drop_probed
              /\ a.estimated = p.estimated
          BY <3>1, <3>3, SMT DEF NoteAlr, Typed, Fields
        <4> HIDE DEF a
        <4> QED BY <2>2, <4>1 DEF a
      <3> QED BY <2>1, <2>2, <3>4 DEF ClusterInv, Good, Typed, OnceAtMost, Spaced, Numbered,
                                      QueueInOrder, QueueFresh
    <2>3. CASE \E rate \in Rates, quality \in Qualities, recovered \in BOOLEAN :
                 LET est == Target(rate, quality)
                     estimated == Estimated(NoteAlr(p), est)
                 IN Post(IF recovered THEN RequestProbe(estimated) ELSE estimated, est)
      BY <2>1, <2>3, ClusterFeedback
    <2> QED BY <1>1, <2>2, <2>3 DEF OnTransportPacketsFeedback
  <1>2. CASE OnProcessInterval \/ OnSentPacket \/ Tick \/ UNCHANGED vars
    BY <1>2, ClusterOtherStep
  <1> QED BY <1>1, <1>2 DEF Next

\* A controller just reset, no clusters, no estimate.
LEMMA ClusterInit == Init => ClusterInv
  <1> SUFFICES ASSUME Init PROVE ClusterInv
    OBVIOUS
  <1>1. now \in Start .. MaxTime BY ProbeConstants DEF Init, ProbeConstants
  <1>2. /\ p = NewController /\ probed = <<>> /\ clusters = <<>> /\ last = None
    BY DEF Init
  <1>3. /\ Typed(NewController) /\ NewController.pending = <<>>
        /\ NewController.next_id = 1 /\ NewController.estimated = None.rate
        /\ NewController.state = "Init"
        /\ NewController.min_to_probe_further = kExponentialProbingDisabled
    BY EmptySeq, SMT DEF NewController, Typed, Fields, States, NoTime, PendingSeqs, None,
                         kExponentialProbingDisabled
  <1>4. probed \in Histories BY <1>2, EmptySeq DEF Histories
  <1>5. Good(p, probed)
    BY <1>2, <1>3, <1>4 DEF Good, OnceAtMost, Spaced, Numbered
  <1>6. QueueInOrder(clusters, p.next_id) /\ QueueFresh(clusters)
    BY <1>2, EmptySeq DEF QueueInOrder, QueueFresh, Queues
  <1> QED BY <1>1, <1>2, <1>3, <1>5, <1>6 DEF ClusterInv

\* The invariant holds of every behaviour.
LEMMA ClusterInvariant == Spec => []ClusterInv
  <1> QED BY ClusterInit, ClusterStep, PTL DEF Spec

\* The types: the queued clusters are the last ones created, numbered without a
\* gap, each for a rate from 1 bps to the limit.
THEOREM ProbeTypeCorrect == Spec => []TypeOK
  <1>1. ClusterInv => TypeOK
    <2> SUFFICES ASSUME ClusterInv PROVE TypeOK
      OBVIOUS
    <2>1. clusters \in Queues BY DEF ClusterInv, QueueInOrder
    <2>2. DOMAIN clusters = 1 .. Len(clusters)
          /\ \A i \in 1 .. Len(clusters) : clusters[i] \in QueuedClusters
      BY <2>1, QueueTyped
    <2>3. \A c \in QueuedClusters : c.rate \in ClusterRates BY DEF QueuedClusters
    <2>4. \A i \in DOMAIN clusters :
            /\ clusters[i].rate \in 1 .. kDefaultMaxProbingBitrateBps
            /\ clusters[i].id = p.next_id - Len(clusters) + i - 1
            /\ clusters[i].created \in Start .. now
      BY <2>2, <2>3 DEF ClusterInv, QueueInOrder, ClusterRates
    <2> QED BY <2>4 DEF ClusterInv, Good, Typed, States, OnceAtMost, Numbered, TypeOK
  <1> QED BY <1>1, ClusterInvariant, PTL

\* Exponential probing comes to an end after one further probe, for every sequence
\* of estimates: twice a sufficient result is above the limit of the bitrate.
THEOREM OneFurtherProbe == Spec => []AtMostOneFurther
  <1>1. ClusterInv => AtMostOneFurther
    BY DEF ClusterInv, Good, OnceAtMost, AtMostOneFurther
  <1> QED BY <1>1, ClusterInvariant, PTL

\* Probes after a drop are apart, whatever else was probed for in between.
THEOREM DropsApart == Spec => []DropProbesApart
  <1>1. ClusterInv => DropProbesApart
    BY DEF ClusterInv, Good, Spaced, DropProbesApart
  <1> QED BY <1>1, ClusterInvariant, PTL

\* What nobody probed with makes room: no queued cluster is older than the time
\* out, at the newest.
THEOREM QueueIsFresh == Spec => []ClustersFresh
  <1>1. ClusterInv => ClustersFresh BY DEF ClusterInv, QueueFresh, ClustersFresh
  <1> QED BY <1>1, ClusterInvariant, PTL

\* What is asked for after a drop.
LEMMA DropRate ==
  ASSUME NEW c, Typed(c), MayProbeDrop(c)
  PROVE  /\ Clamped(Suggested(c)) < c.before_drop
         /\ \/ Clamped(Suggested(c)) > c.estimated
            \/ c.estimated >= kDefaultMaxProbingBitrateBps
  <1>1. c.before_drop \in Nat /\ c.estimated \in Nat BY DEF Typed
  <1>2. (95 * Suggested(c)) \div 100 > c.estimated BY DEF MayProbeDrop, MinExpected
  <1>3. Suggested(c) = (85 * c.before_drop) \div 100 BY DEF Suggested
  <1>4. Suggested(c) > c.estimated /\ Suggested(c) \in Nat /\ Suggested(c) < c.before_drop
    BY <1>1, <1>2, <1>3
  <1> QED BY <1>1, <1>4, LimitIsRate, SMT DEF Clamped

\* A probe after a drop asks for less than what was lost and, unless the estimate
\* is at the limit, for more than the estimate.
THEOREM DropProbesBetween == Spec => DropProbeBetween
  <1> DEFINE Between ==
        p'.drop_probed # p.drop_probed
          => /\ clusters' # <<>>
             /\ Last(clusters').rate < p'.before_drop
             /\ \/ Last(clusters').rate > p'.estimated
                \/ p'.estimated >= kDefaultMaxProbingBitrateBps
  <1>1. ClusterInv /\ [Next]_vars => [Between]_vars
    <2> SUFFICES ASSUME ClusterInv, Next, p'.drop_probed # p.drop_probed
                 PROVE  /\ clusters' # <<>>
                        /\ Last(clusters').rate < p'.before_drop
                        /\ \/ Last(clusters').rate > p'.estimated
                           \/ p'.estimated >= kDefaultMaxProbingBitrateBps
      OBVIOUS
    <2>1. CASE OnTransportPacketsFeedback
      <3>1. now' = now /\ started' BY <2>1 DEF OnTransportPacketsFeedback
      <3>2. CASE p' = NoteAlr(p)
        <4>1. Typed(p) BY DEF ClusterInv, Good
        <4>2. NoteAlr(p).drop_probed = p.drop_probed
          BY <4>1, SMT DEF NoteAlr, Typed, Fields
        <4> QED BY <3>2, <4>2
      <3>3. CASE \E rate \in Rates, quality \in Qualities, recovered \in BOOLEAN :
                   LET est == Target(rate, quality)
                       estimated == Estimated(NoteAlr(p), est)
                   IN Post(IF recovered THEN RequestProbe(estimated) ELSE estimated, est)
        <4>1. PICK c : /\ Typed(c) /\ MayProbeDrop(c)
                       /\ p'.before_drop = c.before_drop /\ p'.estimated = c.estimated
                       /\ clusters' # <<>> /\ Last(clusters').rate = Clamped(Suggested(c))
          BY <3>1, <3>3, ClusterFeedback
        <4>2. /\ Clamped(Suggested(c)) < c.before_drop
              /\ \/ Clamped(Suggested(c)) > c.estimated
                 \/ c.estimated >= kDefaultMaxProbingBitrateBps
          BY <4>1, DropRate
        <4> QED BY <4>1, <4>2
      <3> QED BY <2>1, <3>2, <3>3 DEF OnTransportPacketsFeedback
    <2>2. CASE OnProcessInterval BY <2>2, ClusterFirstStep
    <2>3. CASE OnSentPacket \/ Tick
      BY <2>3 DEF OnSentPacket, Tick
    <2> QED BY <2>1, <2>2, <2>3 DEF Next
  <1> QED BY <1>1, ClusterInvariant, PTL DEF Spec, DropProbeBetween
=============================================================================
