------------------------------ MODULE PacingLoop ------------------------------
(***************************************************************************)
(* The sender's thread test: one packet per iteration, recorded as sent    *)
(* and queued, and every few milliseconds as many queued packets sent as   *)
(* the budget allows.  The budget is the estimate's, refreshed once a      *)
(* second.  main creates the server, and the event loop changes the        *)
(* estimate, at any time in between.                                       *)
(*                                                                         *)
(* Times are the unsigned differences the code computes: one that is       *)
(* negative here, because the wall clock was set back, is huge there.      *)
(***************************************************************************)
EXTENDS Integers, Sequences, SequencesExt

CONSTANTS
  SeqSpace,    \* 2^16
  BudgetMod,   \* 2^32: pacing_bitrates is a uint32_t
  Length,      \* bytes of a packet, all alike
  Second,      \* ms between two refreshes (1000)
  FlushAfter,  \* ms after which the queue is flushed (5)
  Rates,       \* values of GetavailableBitrate
  Elapsed      \* ms of wall clock an iteration takes

ASSUME PacingConstants ==
  /\ SeqSpace \in Nat \ {0, 1} /\ Length \in Nat \ {0}
  /\ Second \in Nat /\ FlushAfter \in Nat
  /\ Rates \subseteq Nat /\ Rates # {} /\ Elapsed \subseteq Int
  /\ BudgetMod \in Nat /\ \A rate \in Rates : rate < BudgetMod

VARIABLES
  pc,               \* the part of the iteration that comes next
  server,           \* gcc_server is set
  available,        \* GetavailableBitrate, once gcc_server is set
  seq,              \* number of the packet of this iteration
  sincePre,         \* tick - pre_tick
  sinceSend,        \* tick - send_tick
  pacing_bitrates,  \* budget left, in bytes
  send_packets,     \* numbers in the map, in the order they were produced
  granted,          \* the budget given in this second (history)
  spent,            \* bytes sent in this second (history)
  inForce           \* the estimates there were in this second (history)

clock == <<sincePre, sinceSend>>
budget == <<pacing_bitrates, granted, spent>>
vars == <<pc, server, available, seq, clock, send_packets, budget, inForce>>

TypeOK ==
  /\ pc \in {"refresh", "produce", "flush", "sleep", "ended"}
  /\ server \in BOOLEAN
  /\ available \in Rates
  /\ seq \in 0 .. SeqSpace - 1
  /\ sincePre \in Int /\ sinceSend \in Int
  /\ pacing_bitrates \in 0 .. BudgetMod - 1
  /\ send_packets \in Seq(0 .. SeqSpace - 1) /\ IsInjective(send_packets)
  /\ granted \in Nat /\ spent \in Nat
  /\ inForce \in SUBSET Rates

Init ==
  /\ pc = "refresh"
  /\ server = FALSE
  /\ available \in Rates
  /\ seq = 1
  /\ sincePre = 0 /\ sinceSend = 0
  /\ pacing_bitrates = 0 /\ granted = 0 /\ spent = 0 /\ inForce = {available}
  /\ send_packets = <<>>

\* An unsigned difference of two clock readings is above limit.
Exceeds(ms, limit) == ms < 0 \/ ms > limit

\* gcc_server = new GCCServer: its constructor has already set the estimate.
MainCreatesServer ==
  /\ pc # "ended"
  /\ ~server
  /\ server' = TRUE
  /\ UNCHANGED <<pc, available, seq, clock, send_packets, budget, inForce>>

OnTargetTransferRate ==
  /\ pc # "ended"
  /\ server
  /\ available' \in Rates \ {available}
  /\ inForce' = inForce \cup {available'}
  /\ UNCHANGED <<pc, server, seq, clock, send_packets, budget>>

\* The start of an iteration: refresh the budget, once a second and while it
\* is 0; the second ends whether or not there is a server to ask.
SecondOver == Exceeds(sincePre, Second)

\* (Faulty variant: a new budget is given only once the old one is used up.)
RefreshUsedUp ==
  /\ pc = "refresh"
  /\ IF (pacing_bitrates = 0 \/ (SecondOver /\ pacing_bitrates <= Length)) /\ server
     THEN pacing_bitrates' = available \div 5 /\ granted' = available \div 5
     ELSE granted' = pacing_bitrates + (IF SecondOver THEN 0 ELSE spent)
          /\ UNCHANGED pacing_bitrates
  /\ sincePre' = IF SecondOver THEN 0 ELSE sincePre
  /\ spent' = IF SecondOver THEN 0 ELSE spent
  /\ inForce' = IF SecondOver THEN {available} ELSE inForce
  /\ pc' = "produce"
  /\ UNCHANGED <<server, available, seq, sinceSend, send_packets>>

Refresh ==
  /\ pc = "refresh"
  /\ IF (pacing_bitrates = 0 \/ SecondOver) /\ server
     THEN pacing_bitrates' = available \div 5 /\ granted' = available \div 5
     ELSE UNCHANGED <<pacing_bitrates, granted>>
  /\ sincePre' = IF SecondOver THEN 0 ELSE sincePre
  /\ spent' = IF SecondOver THEN 0 ELSE spent
  /\ inForce' = IF SecondOver THEN {available} ELSE inForce
  /\ pc' = "produce"
  /\ UNCHANGED <<server, available, seq, sinceSend, send_packets>>

\* (Faulty variant: a packet of the same number stays in the queue.)
EnqueuedAgain == Append(send_packets, seq)

\* send_packets[seq] = udp_packet replaces a packet of the same number.
Enqueued == Append(RemoveFirst(send_packets, seq), seq)

FlushDue == Exceeds(sinceSend, FlushAfter)

\* (Faulty variant: send_tick is set in every iteration.)
ProduceTicks ==
  /\ pc = "produce"
  /\ send_packets' = IF server THEN Enqueued ELSE send_packets
  /\ pc' = IF FlushDue THEN "flush" ELSE "sleep"
  /\ sinceSend' = 0
  /\ UNCHANGED <<server, available, seq, sincePre, budget, inForce>>

\* The packet is recorded as sent and queued; without a server it is dropped.
Produce ==
  /\ pc = "produce"
  /\ send_packets' = IF server THEN Enqueued ELSE send_packets
  /\ pc' = IF FlushDue THEN "flush" ELSE "sleep"
  /\ sinceSend' = IF FlushDue THEN 0 ELSE sinceSend
  /\ UNCHANGED <<server, available, seq, sincePre, budget, inForce>>

\* (Faulty variant: the newest packet first.)
Newest == Last(send_packets)

\* The map is iterated by number.
First == CHOOSE n \in ToSet(send_packets) : \A m \in ToSet(send_packets) : n <= m

\* (Faulty variant: the whole budget may be spent.)
MaySendAll == send_packets # <<>> /\ pacing_bitrates >= Length

MaySend == send_packets # <<>> /\ pacing_bitrates > Length

\* One packet of the flush, sent with the blocking send_to and erased.
SendOne ==
  /\ pc = "flush"
  /\ MaySend
  /\ send_packets' = RemoveFirst(send_packets, First)
  /\ pacing_bitrates' = (pacing_bitrates - Length) % BudgetMod
  /\ spent' = spent + Length
  /\ UNCHANGED <<pc, server, available, seq, clock, granted, inForce>>

\* send_to throws when the socket reports an error.  Nothing catches it on this
\* thread, so that the program ends, with its other threads.
SendFails ==
  /\ pc = "flush"
  /\ MaySend
  /\ pc' = "ended"
  /\ UNCHANGED <<server, available, seq, clock, send_packets, budget, inForce>>

EndFlush ==
  /\ pc = "flush"
  /\ ~MaySend
  /\ pc' = "sleep"
  /\ UNCHANGED <<server, available, seq, clock, send_packets, budget, inForce>>

\* The end of the iteration: seq never equals 65536, the loop's ++ wraps it.
Sleep ==
  /\ pc = "sleep"
  /\ \E ms \in Elapsed : sincePre' = sincePre + ms /\ sinceSend' = sinceSend + ms
  /\ seq' = (seq + 1) % SeqSpace
  /\ pc' = "refresh"
  /\ UNCHANGED <<server, available, send_packets, budget, inForce>>

Test == Refresh \/ Produce \/ SendOne \/ SendFails \/ EndFlush \/ Sleep

Next == Test \/ MainCreatesServer \/ OnTargetTransferRate

Spec == Init /\ [][Next]_vars

\* Both threads run: a send returns or throws, which of the two is not said.
FairSpec == Spec /\ WF_vars(Test) /\ WF_vars(MainCreatesServer)

-----------------------------------------------------------------------------

\* No more is sent in a second than the budget that was given for it, and the
\* budget is given once: it never reaches 0 by being spent, which would give it
\* anew, and never wraps below 0.
RateKept == spent + pacing_bitrates = granted

\* An estimate that falls takes effect within a second: what has been sent in a
\* second is at most a fifth of an estimate that there was in it.
SentWithinEstimate == \E rate \in inForce : spent <= rate \div 5

\* The backlog reaches across the wrap of the number.
Straddles(queue) == \E i \in 1 .. Len(queue) - 1 : queue[i] > queue[i + 1]

\* Packets leave in the order they were produced, unless the backlog reaches
\* across the wrap of the sequence number.
OldestFirst ==
  [][Len(send_packets') < Len(send_packets) /\ ~Straddles(send_packets)
       => send_packets' = Tail(send_packets)]_vars

\* As long as every budget admits a packet, the stream goes on: once there is a
\* server, packets are sent again and again, whatever the estimate and the clock do
\* and however often main and the thread meet, unless a send fails, which ends the
\* program.  (The backlog may grow all the same: a packet is produced every ms.)
StreamGoesOn == []<><<SendOne>>_vars \/ <>(pc = "ended")
=============================================================================
