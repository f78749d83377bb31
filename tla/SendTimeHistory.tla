---------------------------- MODULE SendTimeHistory ----------------------------
(***************************************************************************)
(* SendTimeHistory and its sequence number unwrapper, at the sender: what  *)
(* was sent, when, and how much of it is still in flight.  A history is a  *)
(* record; every operation is a function from records to records.          *)
(* Left out: untracked data (every packet this program sends has an id, so *)
(* AddUntracked is not reached) and last_send_time_ms_ and the first       *)
(* unacked send time, which nothing reads.                                 *)
(***************************************************************************)
EXTENDS Integers, FiniteSetsExt, Functions

CONSTANTS
  SeqSpace,   \* values of a sequence number on the wire (65536 in the code)
  AgeLimit    \* packet_age_limit_ms_ (60000 in the code)

ASSUME HistoryConstants ==
  /\ SeqSpace \in Nat /\ SeqSpace > 2 /\ SeqSpace % 2 = 0
  /\ AgeLimit \in Nat

Half == SeqSpace \div 2
Unset == -1   \* an empty optional: an unwrapped number is never negative
kNoSendTime == -1

EmptyHistory ==
  [history |-> <<>>,      \* history_: long sequence number -> what was sent
   inFlight |-> 0,        \* in_flight_bytes_ of the only network id
   lastAck |-> Unset,     \* last_ack_seq_num_
   lastUnwrapped |-> Unset]

--------------------------------------------------------------------------------
(* Unwrapper<uint16_t> *)

IsNewer(value, prev) ==
  IF value - prev = Half THEN value > prev
  ELSE value # prev /\ (value - prev) % SeqSpace < Half

\* (Faulty variant: numbers only ever wrap forwards.)
UnwrapForwards(h, value) ==
  IF h.lastUnwrapped = Unset THEN value
  ELSE h.lastUnwrapped + ((value - h.lastUnwrapped) % SeqSpace)

\* UnwrapWithoutUpdate
Unwrapped(h, value) ==
  LET cropped == h.lastUnwrapped % SeqSpace
      delta == value - cropped
  IN IF h.lastUnwrapped = Unset THEN value
     ELSE IF IsNewer(value, cropped)
     THEN h.lastUnwrapped + (IF delta < 0 THEN delta + SeqSpace ELSE delta)
     ELSE IF delta > 0 /\ h.lastUnwrapped + delta - SeqSpace >= 0
     THEN h.lastUnwrapped + delta - SeqSpace
     ELSE h.lastUnwrapped + delta

--------------------------------------------------------------------------------
(* The history *)

\* A packet counts as in flight from its sending until a feedback acknowledges
\* it or a later one.
Counts(h, long) == h.history[long].sent >= 0 /\ long > h.lastAck

Sizes(h) == [long \in DOMAIN h.history |-> h.history[long].size]

\* RemovePacketBytes over the entries longs.
RemoveBytes(h, longs) ==
  [h EXCEPT !.inFlight =
     @ - SumFunctionOnSet(Sizes(h), {long \in longs : Counts(h, long)})]

Forget(h, longs) == [h EXCEPT !.history = Restrict(@, DOMAIN @ \ longs)]

\* (Faulty variant: entries are erased without taking their bytes off.)
RemoveOldKeepsBytes(h, now) ==
  Forget(h, {l \in DOMAIN h.history : now - h.history[l].created > AgeLimit})

\* (Faulty variant: a call erases at most one entry.)
RemoveOldOne(h, now) ==
  LET old == {l \in DOMAIN h.history : now - h.history[l].created > AgeLimit}
      front == {l \in old : \A k \in DOMAIN h.history : l <= k}
  IN Forget(RemoveBytes(h, front), front)

\* RemoveOld: from the front, up to the first entry that is not too old.
RemoveOld(h, now) ==
  LET young == {l \in DOMAIN h.history : now - h.history[l].created <= AgeLimit}
      old == {l \in DOMAIN h.history : \A y \in young : l < y}
  IN Forget(RemoveBytes(h, old), old)

\* AddNewPacket: std::map::insert keeps an entry that is already there.
AddNewPacket(h, seq, entry) ==
  LET long == Unwrapped(h, seq)
  IN [h EXCEPT !.lastUnwrapped = long,
               !.history = [l \in DOMAIN @ \cup {long} |->
                              IF l \in DOMAIN @ THEN @[l] ELSE entry]]

\* OnSentPacket: the bytes are added the first time a packet is sent.
OnSentPacket(h, seq, now) ==
  LET long == Unwrapped(h, seq)
      unwrapped == [h EXCEPT !.lastUnwrapped = long]
      stamped == [unwrapped EXCEPT !.history[long].sent = now]
      retransmit == h.history[long].sent >= 0
  IN IF long \notin DOMAIN h.history THEN unwrapped
     ELSE IF retransmit \/ ~Counts(stamped, long) THEN stamped
     ELSE [stamped EXCEPT !.inFlight = @ + h.history[long].size]

\* (Faulty variant: the bytes of the packet last acknowledged are not skipped.)
UpdateAckedSeqNumTwice(h, acked) ==
  LET newly == {l \in DOMAIN h.history : h.lastAck <= l /\ l <= acked}
  IN IF h.lastAck >= acked THEN h
     ELSE [h EXCEPT !.lastAck = acked,
                    !.inFlight = @ - SumFunctionOnSet(Sizes(h), newly)]

\* UpdateAckedSeqNum: every packet up to acked is no longer in flight.
UpdateAckedSeqNum(h, acked) ==
  LET newly == {l \in DOMAIN h.history : h.lastAck <= l /\ l <= acked}
  IN IF h.lastAck >= acked THEN h
     ELSE [RemoveBytes(h, newly) EXCEPT !.lastAck = acked]

\* (Faulty variant: a packet reported as received stays in the history.)
GetFeedbackKeeps(h, seq, remove) ==
  LET long == Unwrapped(h, seq)
  IN [UpdateAckedSeqNum(h, long) EXCEPT !.lastUnwrapped = long]

\* (Faulty variant: a packet reported as lost is removed as well.)
GetFeedbackRemovesLost(h, seq, remove) ==
  LET long == Unwrapped(h, seq)
  IN Forget([UpdateAckedSeqNum(h, long) EXCEPT !.lastUnwrapped = long], {long})

\* GetFeedback: what it leaves; a packet reported as lost stays in the history.
GetFeedback(h, seq, remove) ==
  LET long == Unwrapped(h, seq)
      acked == [UpdateAckedSeqNum(h, long) EXCEPT !.lastUnwrapped = long]
  IN IF remove THEN Forget(acked, {long}) ELSE acked

\* ... and whether it finds the packet.
Finds(h, seq) == Unwrapped(h, seq) \in DOMAIN h.history
================================================================================
