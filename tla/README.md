# Verification of GCC_test

GCC_test is two C++ programs, `src/sender` and `src/receiver`, that exercise WebRTC's
congestion control (GCC) over plain UDP.  The sender produces RTP packets, the receiver
answers with transport-wide feedback (RFC draft holmer-rmcat-transport-wide-cc), and the
sender's GCC turns the feedback into a bitrate.  The code is adapted from mediasoup and
libwebrtc.  The repository has no README and no tests; the reference is the code and its
comments.

This directory models the parts that carry the program's own logic: the event loop, the
feedback packet and the receiver that fills it, the sender's history of what was sent, the
estimation of a rate from the feedbacks, what the sender does with a new estimate, and the loop that
sends packets at that rate.

## 1. Inventory

| Component | Source | State | Operations |
|---|---|---|---|
| UDP server | `rtc/udp_server.cc` (same file in both programs) | a send queue per socket, asio's outstanding operations, a timer | `run`, `async_send_to`, `handle_receive_from`, `handle_send_to`, `handle_crude_timer` |
| Feedback packet | `gcc_server/FeedbackRtpTransport.{cpp,hpp}`, `SeqManager.cpp` | base, latest packet, chunks, deltas, pending statuses | `AddPacket`, `FillChunk`, `AddPendingChunks`, `Serialize`, `Parse`, `GetPacketResults` |
| Receiver | `receiver/gcc_server/gcc_server.cpp` | the feedback in progress and its number | `rtp_handler`, `SendTransportCcFeedback` |
| Sender | `sender/gcc_server/gcc_server.cpp` | the transport controller, the estimate | `OnPacketSend`, `rtcp_handler`, `OnTargetTransferRate` |
| Producing and pacing loop | `sender/main.cpp` | sequence number, queue ordered by it, byte budget | `test` (a thread of its own) |
| Send time history | `rtp/send_time_history.cc`, `module_common_types_public.h` | packets by unwrapped number, bytes in flight, last acknowledged number, unwrapper | `RemoveOld`, `AddNewPacket`, `OnSentPacket`, `GetFeedback` |
| Transport feedback adapter | `rtp/transport_feedback_adapter.cc`, `mediasoup_helpers.h` | the history, the arrival time base | `AddPacket`, `ProcessSentPacket`, `ProcessTransportFeedback` |
| RtpTransportControllerSend | `call/rtp_transport_controller_send.cc` | adapter, pacer, controller, last report | `OnAddPacket`, `OnSentPacket`, `OnTransportFeedback`, `PostUpdates` |
| Paced sender, budget, prober | `pacing/*.cc` | outstanding bytes, budgets, probe clusters | `InsertPacket`, `Process` (never called here), `CreateProbeCluster` |
| GoogCc controller | `goog_cc/goog_cc_network_control.cc` | losses not yet passed on, what was last reported | `OnTransportPacketsFeedback`, `OnProcessInterval`, `MaybeTriggerOnNetworkChanged` |
| Send side bandwidth estimation | `bitrate_controller/send_side_bandwidth_estimation.cc` | the estimate, its minimum history, loss rate, times of updates | `SetSendBitrate`, `UpdateDelayBasedEstimate`, `UpdatePacketsLost`, `UpdateRtt`, `UpdateEstimate` |
| AIMD rate control, delay-based estimate | `remote_bitrate_estimator/aimd_rate_control.cc`, `goog_cc/delay_based_bwe.cc` | a rate, hold or increase, throughput | `Update`, `SetEstimate`, `IncomingPacketFeedbackVector` |
| Probe bitrate estimator | `goog_cc/probe_bitrate_estimator.cc` | clusters of received packets, the last result | `HandleProbeAndEstimateBitrate`, `FetchAndResetLastEstimatedBitrate` |
| Probe controller | `goog_cc/probe_controller.cc` | probing state, thresholds, the last drop | `SetBitrates`, `SetEstimatedBitrate`, `RequestProbe`, `Process` |
| Control handler | `rtp/control_handler.cc` | last target and last report | `SetTargetRate`, `GetUpdate` |

How they interact.  In both programs one thread runs the event loop (`ios_.run`), so the
handlers of `UDPServer` and the observer callbacks they make (`recv_udp_cb`) are atomic with
respect to each other; what varies is the order in which asio completes things.  The
receiver's `recv_udp_cb` enters each RTP packet in the feedback in progress and, when that is
full or too large, hands a datagram to `async_send_to`, which *posts* a closure and returns.
At the sender a second thread (`test`) produces a packet per millisecond and calls
`OnPacketSend` directly, while `rtcp_handler` runs on the event loop: the adapter, the
history and the pacer are shared by the two threads without any lock.

Hard behaviours.  Order of completions and of posted closures; failed sends; lost, repeated,
late and reordered datagrams in both directions; results that come long after they were asked for; 16-bit numbers that wrap, a 29-bit time that
wraps, a wall clock that may be set back; a chunk encoding whose next step depends on the
whole sequence of statuses before; limits (MTU, 16-bit status count, 13-bit run length, 15-bit
delta) that are checked before it is known what will be written; packets that leave the history
in three different ways.  Nothing is persisted, so there is no crash recovery.

What makes each component correct:

- UDP server: sends are serial and in order, no wait is lost or doubled, each datagram is tried
  exactly once and eventually.
- Feedback packet: what is sent reads back as exactly what arrived; limits are respected.
- Receiver: feedbacks are consecutive, every arrival entered is reported unless the format
  cannot carry it.
- History and adapter: each status finds its own packet; bytes in flight are exact; a packet is
  delivered at most once; arrival times have one constant offset.
- Pacing loop: packets leave in order, within the budget of the second, and
  as long as sends succeed and a budget admits a packet the stream goes on.
- Probing: it comes to an end, repeats itself only after a pause, and asks for sensible rates.
- Control handler: the server's rate is always the last target.
- Bandwidth estimation: within its limits and below the delay-based estimate after any sequence of
  reports; each packet in exactly one loss rate; moves by losses a second apart; the program knows the
  estimate.
- Probe bitrate estimator: the cluster is what was received since the last silence, and results
  come from intervals of at most a second.

## 2. Modules

| Module | Models | Kind |
|---|---|---|
| `DatagramQueue` | what the send side promises: a FIFO per socket, each datagram tried once | abstract specification |
| `UdpServer` | `UDPServer`, one action per handler or posted closure | component |
| `UdpServerProofs` | theorems about `UdpServer` | proofs |
| `FeedbackPacket` | `FeedbackRtpTransportPacket` as functions on a record | operators |
| `FeedbackServer` | the receiver's `GCCServer`, filling and sending feedbacks | component, uses `FeedbackPacket` |
| `FeedbackServerProofs` | theorems about the two | proofs |
| `SendTimeHistory` | `SendTimeHistory` and `Unwrapper` as functions on a record | operators |
| `TransportFeedback` | the sender's threads, the adapter, the pacer's outstanding bytes, a lossy network and an abstract receiver | component, uses `SendTimeHistory` |
| `TransportFeedbackProofs` | theorems about the two | proofs |
| `PacingLoop` | the thread `test` of `main.cpp`, `main`, the changes of the estimate | component |
| `PacingLoopProofs` | theorems about `PacingLoop` | proofs |
| `SendSideBandwidth` | `SendSideBandwidthEstimation` as functions on a record | operators |
| `AimdRateControl` | `AimdRateControl` and `DelayBasedBwe` as functions on a record | operators, extend `SendSideBandwidth` |
| `BandwidthEstimation` | what `GoogCcNetworkController` makes of a feedback: losses, delay-based result, probe result, target | component, uses `AimdRateControl` |
| `BandwidthEstimationProofs` | theorems about the three | proofs |
| `ProbeBitrateEstimator` | `ProbeBitrateEstimator`, fed by the feedbacks | component |
| `ProbeBitrateEstimatorProofs` | theorems about `ProbeBitrateEstimator` | proofs |
| `ProbeController` | `ProbeController`, the clusters of `BitrateProber`, `CongestionControlHandler`, and the calls of `GoogCcNetworkController` and `PostUpdates` that connect them | composition |
| `ProbeControllerProofs` | theorems about `ProbeController` | proofs |
| `Induction` | induction, recursive functions and sums over finite sets, in a form that can be cited | lemmas |
| `MC...` | instances for TLC | |

Definitions headed "(Faulty variant: ...)" are not part of the specifications: each is a
plausible bug in the definition after it, which a run's property detects.

### UdpServer

`sendPackets` is `send_packets_`, `posted` the closures given to `ios_.post`, `sendOps` the
asynchronous sends asio holds, `recvOps` and `timerWaits` count the outstanding waits.  Each
completion may carry an error.  `tried` is a history of completed sends.  `RecvUdpCb` stands for
both observers: a received datagram makes them send nothing or one datagram.  The statistics
counters and the test code at the end of `handle_receive_from` change nothing else and are left
out, as is `add_defer_task`, which nothing calls.

### FeedbackPacket and FeedbackServer

A feedback packet is a record with the fields of the class; `FillChunk`, `AddPacket`, ... are
functions from records to records, with the code's own constants (65536 sequence numbers,
gaps to 8191, deltas to 32767 units, 64 ms reference time).  Bytes are not modelled, but every
width is: a run's count is cut to 13 bits when serialized, the status count is taken modulo
2^16, sizes are counted byte for byte, the reference time wraps at 2^29 ms.  `ParsesAsWritten`
and `GetPacketResults` are the sender's reading of what was written.

`FeedbackServer` is `rtp_handler`: an arrival has a sequence number (a jump from the last one,
also backwards) and a wall clock time (also backwards), and the outcomes of `AddPacket` are
handled as in the code.  What may happen (size limit, first number, jumps, times, length) is a member
of `Networks`, fixed by `network` for a behaviour, so that one run covers several scenarios.  A size limit is one that
holds at least one arrival with its chunk and delta, and at most a datagram; the clock is past its first
64 ms (`Epoch`), because the code takes a time of 0 for "no packet yet".  `log` is a history of the arrivals the feedback in progress owes.

### SendTimeHistory and TransportFeedback

A history is a record (`history_`, `in_flight_bytes_`, `last_ack_seq_num_`, the unwrapper's last
value).  `TransportFeedback` interleaves the three calls of `OnPacketSend` with
`OnTransportFeedback`, each an atomic step: a data race *inside* a call (two threads in one
`std::map`) is undefined and outside the model.  The receiver is reduced to what `FeedbackServer`
is shown to promise: consecutive feedbacks, each ending with a received packet, and a restart
after a FATAL result.  Feedbacks stay in `net`: they may never be delivered (loss), be delivered
several times, and in any order.  Packets are numbered without wrap; the history sees the number
modulo `SeqSpace`, so a mismatch is visible.  Arrivals of one feedback happen at one time: the
deltas inside a feedback are `FeedbackServer`'s subject, what is studied here is the time base
across feedbacks.  `network` again fixes a scenario; `InTime` says of it that feedbacks are less than
half the sequence space late, the condition of `NoAliasing`, `HistoryInWindow` and `LostStaysKnown`.
`now` and `time` are the sender's and the receiver's wall clocks (`GetCurrentStamp64`), each read anew
with a packet and set forwards or back by any step of `elapsed`.  After the sender's is set back, the order of
the numbers is no longer the order of creation, on which `RemoveOld` relies: an over-age packet stays behind
one that seems younger.  `highest` and `behind` are histories of the clock, and `HistoryInWindow` bounds
what is left by the window and the most that the clock was ever `behind` its highest.
The sequence space has more than two values: with two, the unwrapper takes the number after the last for
the one before it, which 65536 never do.

### PacingLoop

`pc` divides an iteration of the thread into the refresh of the budget, the production of a packet
(`OnPacketSend` and the insertion, in one step: what happens inside is `TransportFeedback`'s
subject), the flush, one packet at a time, and the sleep.  Between any two steps `main` may set
`gcc_server` and the event loop may change the estimate.  `sincePre` and `sinceSend` are
`tick - pre_tick` and `tick - send_tick`, signed: where one is negative the code's unsigned
difference is huge, which `Exceeds` says.  `send_packets` lists the numbers in the order in which
they were produced, while `First` is the order of the `std::map`; the two differ when the backlog
reaches across the wrap, and then new packets overtake old ones, which the receiver ignores as
late.  The `send_to` of the flush is the overload that throws: `SendFails` is the exception, which
nothing on the thread catches, so that the program has `ended` (an `async_send_to` on the event loop
that fails is only logged).  `granted`, `spent` and `inForce` (the estimates there were) are histories of the second.  The end of `main` is not modelled: the
event loop does not return.

### ProbeController

The probe controller is a record, its operations functions on it; `clusters` is the prober's
queue, `incoming` and `reported` the two values of the control handler, `last` what
`MaybeTriggerOnNetworkChanged` remembers, `probed` a history.  The estimate, its quality (loss and
round trip time), recovery from overuse and the ALR detector are the environment's: a feedback
brings any of `Rates`, which over-approximates the estimators (`BandwidthEstimation` says what they
do).  Recovery over-approximates too: as the program is built the detector never changes its state, so
that `RequestProbe` is there but is not called; its properties show what restoring `Detect` relies on.  Three facts of this program are in
the model: the interval is processed once, when the observer is registered; no field trial is set,
so that `RequestProbe` is called on recovery only; and the prober is never asked for a probe, so
that clusters leave its queue by age alone.

### SendSideBandwidth, AimdRateControl and BandwidthEstimation

The two estimators are records and functions on them, named as the methods; `BandwidthEstimation`
is the part of `OnTransportPacketsFeedback` that drives them.  A report says how many packets of a
feedback were received and lost, and what the filters measured from it (round trip time, acknowledged
rate, result of a probe).  `Collect` and `WithLosses` are the controller's accumulators, which pass losses on
once a second; `UpdatePacketsLost` has its own, which waits for 20 packets.  `FollowResult` is a feedback
with a received packet, after which the delay-based part always has a result and the program is told the
target; `KeepTarget` is one without.  `reported`, `decided` and `moved` are histories.  Time only goes forward
from feedback to feedback (`Elapsed`), which is an assumption: the code reads the wall clock here too, and what
`MovesApart` says of a second is shown for a clock that is not set back.

Facts of this program that make the model smaller than the classes: `TrendlineEstimator::Update` has
its call of `Detect` commented out (`trendline_estimator.cc:172`), so that the detector is at
`kBwNormal` for good and all branches for over- and under-use are dead (`NoFallForDelay` is what this
comes to); no field trial is set, which leaves out the loss-based estimation, the backoff on the round trip
time and the network state estimate; there is no REMB.  The products of the code are exact in
floating point; they are split here so that they stay within 31 bits.  `1.08 ^ s - 1` is its
chord `0.08 * s`, exact at both ends and at most 0.0008 off between.

### ProbeBitrateEstimator

`main.cpp` stamps every packet with probe cluster 1, 600000 bytes and no least number of packets: all of
the stream is one probe.  `cluster` is the entry of `clusters_`, erased only by a second without a
packet; `probe` is what the controller fetches after a feedback.  Packets come in feedbacks of up to `MaxReported`,
sorted within a feedback only.  `members` is a history of the packets since the last silence.

## 3. Runs

| Run | Instance | Shows |
|---|---|---|
| `udp` | 2 sockets, 3 datagrams | serial sends, waits neither lost nor doubled, refinement of `DatagramQueue`, every datagram eventually tried |
| `feedback` | the code's constants; four networks: MTU 32, jumps 1 and 9, delays 1 and 70 ms, 9 packets, across both wraps; real MTU, jumps 7, 8191, 8193, 10 packets; MTU 24, late, repeated and missing packets, clock steps back and far ahead, 7 packets; MTU 28, jumps 1 and 2, delays 1 and 8190 ms, 6 packets | faithful feedback, bounded overshoot, nothing owed is lost, an arrival is entered unless it is refused, consecutive numbers and bases through resets |
| `history` | 8 sequence numbers; 5 packets, feedbacks less than half the space late, 6 packets, feedbacks later than that, and 4 packets under clocks that are set back, the sender's by steps of 4 and -2, the receiver's by 1 and -1 | no aliasing, exact bytes in flight, delivered once, arrival clock, history in its window; what survives wrong unwrapping |
| `pacing` | 5 sequence numbers, budgets of 3 to 6 bytes for packets of 2, iterations of 1 and 3 ms, clock set back | budget kept and within an estimate in force, order except across the wrap, no end of sending but by a failed send |
| `probing` | 4 estimates around the thresholds, 2 qualities, 7 s in steps of 1 and 4 s | end of exponential probing, drop probes, fresh clusters, the server's rate |
| `estimation` | the code's constants but a largest rate of 1.4 Mbit/s; 7 reports, 400 or 1001 ms apart, 6 of them | limits, conservation of packets, moves a second apart, no fall for delay, the target in step |
| `probe_result` | packets of 1312 bytes, 4000 bytes a probe, 7 packets in feedbacks of up to 3, late, overtaken, after a silence | the cluster is exact, results are of the first second of a stream |
| `feedback_full`, `feedback_wrap`, `history_wrap`, `probing_wait`, `estimation_stuck` | | comments of the code that the code does not keep, see section 5 |

Bounds and why they are enough.  The server's handlers touch one socket and its queue, so two
sockets show independence, and three datagrams a queue with one in the middle.  The feedback
networks keep the code's constants and choose the inputs around the limits: the size limit is
the smallest that lets a feedback hold several chunks (32), respectively one or two packets (24); nine
arrivals pass a vector chunk of 7 and a run, with a second feedback after it.  The fourth network
combines little room with delays that a delta only just holds: a packet then goes to a new feedback and is
refused there, its delay being counted from a base that is rounded down.  Each history
network lets sequence numbers wrap, feedbacks overlap in time, and packets get older than the
window (`AgeLimit` 3, steps of 2; in the network with clocks set back, a packet then stays up to 2
longer than the window behind one that seems younger).  The pacing instance lets the queue outgrow the sequence space, so
that packets are replaced and the backlog straddles the wrap; its smallest budget admits one packet,
the other two are multiples of the packet's length, of which `>` leaves one packet's worth, and 8 ms
are a second, more than two flushes.
The state space is finite without a bound: sequence numbers wrap, and the ages are reset.  The
probing instance keeps the code's constants; its rates are the start rate, below the first
threshold (0.7 of 6 times the start rate, 2 520 000); 4.4 Mbit/s, above it and 0.86 of the next; 5.1
Mbit/s, just above the limit of a probe; and 9 Mbit/s, of which 0.85 is above that limit while the
estimate need not be.  They give drops below 0.66, and probes after them that are below and at the
limit: with the estimate already above it, `DropProbeBetween` allows a probe for less.  Seven seconds
hold two probes after drops and a cluster that expires.
The estimation's reports are chosen for the branches: enough packets without loss, with 5% and with 30%
(a start phase, a hold, a decrease), too few for a loss rate, only losses, acknowledged rates that do and do
not clamp the increase, a probe below the least and one above the largest rate, a round trip time that
puts off the next decrease.  Six reports pass the 2 s of the start phase, two loss updates and both
accumulators.  `estimation_stuck` has 20 s between reports, time for the 20 packets of a report at one
packet a second.  A probe of 4 packets, of which 3.2 suffice, has results and more packets after them; two
steps of 600 ms make an interval of more than a second, one of 1001 ms a silence.
`CHECK_DEADLOCK FALSE` in the `udp`, `feedback`, `history`, `estimation` and `probe_result` runs: they end when their packets
or reports are used up, and the programs do nothing without input; and in `pacing`, where a failed send ends the
program.

Fairness (`udp` and `pacing`).  `RunPosted` and `HandleSendTo` are weakly fair: asio runs every posted
closure and completes every send, with or without an error, as long as the loop runs.  Receives
and timer completions depend on the network and need no fairness.  In `pacing` both threads run:
`Test`, whose blocking sends return or throw (that they succeed is not assumed), and `MainCreatesServer`;
that the estimate changes is not assumed.  `StreamGoesOn` says that packets are sent again and again unless a
send fails; it does not say that the backlog shrinks, and it does not: a packet is produced every ms, far more
than the budgets admit.  It needs a budget that admits a packet.  The code does not guarantee one:
`estimation_stuck` shows losses leading to a target of 5080 bps, 1016 bytes a second, less than a packet;
there nothing is sent, no feedback comes and the target stays.

## 4. Proofs

Every safety and action property that a passing run checks is the statement of a theorem, proved for all values
of the constants that satisfy the named assumptions (`ArrivalClock` up to the wrap of the reference time); what is left to TLC alone is at the end of this section.

`UdpServerProofs` proves, for every set of sockets and datagrams and without assumptions:

- `SendInProgress`: a socket has one send outstanding, of the front of its queue, exactly while
  the queue is not empty.  It is inductive together with the type invariant (lemma `TypeCorrect`); it is what lets the
  code infer "a write is in progress" from the queue alone, and why the buffer given to asio
  stays alive;
- `QueueRefinement`: every step is a step of `DatagramQueue` or a stutter, with
  `pending` = queue followed by posted closures.  The completion of a send is `Try` because the
  outstanding send is the front of the queue (`SendInProgress`); running a closure moves one
  datagram across the concatenation and is a stutter (lemmas `MoveHead`, `AppendToConcat`,
  `TailOfConcat`);
- `OneWait`: waits are neither lost nor doubled.

`PacingLoopProofs` proves `RateIsKept` for every packet length, sequence space, pair of time limits,
set of clock steps and set of estimates that fit in 32 bits (`PacingConstants`): what was spent in a
second and what is left are what was granted.  The property is not inductive.  The code also grants
a budget when the old one is 0, within the second; the invariant therefore adds
`NothingSpentOfNothing`, a budget of 0 was never touched, which holds because `MaySend` demands
more than the packet's length and leaves at least a byte, and `NoBudgetWithoutServer`, for the
seconds that end before there is a server.  `NoWrap` is the lemma about the unsigned subtraction,
`BudgetInit` and `BudgetStep` the two halves of the induction.

`SentIsWithinEstimate` is about the fall of an estimate: what a second sends is at most a fifth of an
estimate that was in force in that second.  The invariant adds `GrantedInForce`, that the budget granted was a fifth of one
of them; the rest is `RateKept`.

`PacingTypeCorrect` and `OldestGoesFirst` are about the queue, for every sequence space of at least two numbers.
That no number is in the queue twice is the type invariant, which is inductive because a packet that comes back
with the same number first removes the one there (`Removed`).  `OldestFirst` follows: if there is no
step down in the list of numbers, its front is the least of them (`FrontIsLeast`).

`ProbeControllerProofs` is about all start rates, estimates, qualities and times that satisfy
`ProbeConstants` (positive rates) and `StartIsHigh` (twice a sufficient result of the first probes is above
5 Mbit/s, as with the code's 600 kbit/s; a start rate of less than 595 kbit/s could have more further
probes).

- `TargetIsFollowed`: the server's rate is the last target.  `ServerFollowsTarget` is not inductive: that a
  target `GetUpdate` does not report is the rate the server has already needs `ReportedIsAvailable`, and
  that the first estimate counts as a change needs `NothingBefore`.  Both filters can then be shown to
  drop only what changes nothing (`TargetReaches`, `PostFollows`).
- `ProbeTypeCorrect`, `OneFurtherProbe`, `DropsApart`, `QueueIsFresh` and `DropProbesBetween` have one
  invariant, `ClusterInv`.  A handler calls up to three operations of the controller before `PostUpdates`
  takes the pending clusters, so the facts are stated of a controller *with* its pending
  clusters: `Good(c, Noted(c))`, where `Noted(c)` is the history as it will be.  Each operation keeps it
  (`GoodFirst`, `GoodFurther`, `GoodEstimate`, `GoodAlr`, `GoodRequest`), and `Posted` makes it the
  state.  Its parts: `OnceAtMost`, a result is waited for only before there is a further probe, and at a
  rate whose double is above the limit; `Spaced`, the last drop probe's time is remembered;
  `Numbered`, ids are consecutive.  That dropping expired clusters from the *front* leaves only fresh ones
  needs `QueueInOrder`, the oldest are in front (`ExpiredDropped`, `ClustersQueued`).  `Tick` only goes
  forward, while the code reads the wall clock: after it is set back, an expired cluster could stay
  behind one that is not.

`BandwidthEstimationProofs` proves all the safety properties of the `estimation` run, for every set of reports,
paces between feedbacks and limits that satisfy `LimitsAssumption` (the limits are ordered, the least is
positive) and `EstimationConstants` (the start rate is within them; a report is of at least one packet):
`TypeCorrect`, `EstimateIsCapped`, `PacketsAreConserved`, `TargetIsInStep`, `DelayNeverLowers`,
`MovesAreApart`.  The invariant `BandwidthInv` has `PacketsConserved` and `TargetInStep` as they are, and adds:

- `FitsRateControl`: the estimate is within the rate control's rate, which is at least the least rate and the
  delay-based estimate, so that capping by either is capping by the lower;
- `UpdatesTimed`: the last report, the last move and the entries of the minimum history are at least a loss
  interval before the next losses are passed on; before the first, no entry is below the estimate;
- `OnlyLossesAtFirst`: before there is a delay-based result every packet counted was lost, so that the
  first loss rate is not 0 by chance.

The module begins with the lemmas about the two operator modules, one or two for each operator: what it returns has
its type, is within the limits, and moves by no more than the code says.  That the increase is by 8% of the minimum
history *and* at most 8% of the current rate comes from the proof: updates by losses are more than a second apart, so
that the history of the last second never holds more than the current rate.

`Induction` makes facts about data provable.  A theorem cannot be instantiated with a property here, but with a *set*:
`InductionUpTo` says that a set with 0 and the successors of its elements below n has all numbers up to n,
and the property is the definition of the set.  On it rest `RecursiveFunction` (a function defined by
recursion on 0 .. n exists and satisfies its equations) and the lemmas about sums: `SumFunctionOnSet` takes the
elements in an order that `CHOOSE` fixes, and `AnyFirst` shows that any other gives the same, from which
`SumSplit` (parts), `SumAdd` (one element more), `SumSame` and `SumNat` follow.

`FeedbackServerProofs` is about every number, jump, delay (backwards as well) and size limit that `FeedbackConstants`
admits, with the code's own limits of the format.

- `FeedbackIsFaithful`: the feedback under construction, closed and serialized at any moment, reads back as
  exactly the arrivals it owes.  The invariant `FeedbackInv` says of a packet that is not new that it is `Based`
  and `Recorded`.  `Based` is about the encoder's state: `Filed`, what is in chunks has its types and its count
  modulo 2^16; `Ready`, the pending statuses are fewer than a vector unless they are a run, which is what makes
  `FillChunk` choose a chunk that can hold them; all statuses together reach to the latest packet.
  `Recorded` relates `Report(p)`, the received packets in chunks and pending statuses together, to the arrivals
  one by one, with their times modulo 2^29 ms.  `FillChunk` and `AddPendingChunks` change chunks but not the
  report (`FillMissingKeeps`, `FillReceivedKeeps`, `PendingChunksKeep`); `AddPacket` adds exactly the new arrival
  (`Entered`).  The sender's reading (`ReportedBy`, `ElapsedAfter`) is recursive over the
  chunks and deltas; `ReportsStep`, `CountsStep` and `ElapsedStep` are their equations, and
  `ReportsAppended` and its companions what one chunk more does.
- `OvershootIsBounded` needs the least size limit of `FeedbackConstants`: with room for less than one packet no
  bound of this kind holds.  `Cost(p)` counts the chunk that pending statuses will take.
- `FeedbackTypeCorrect`, `FeedbacksAreConsecutive`, `ArrivalsStayOwed` and `ArrivalsAreEntered` follow from the same
  invariant.  `chained` is strengthened to say where the packet in progress starts.

`TransportFeedbackProofs` is about every sequence space (even, more than two), window, packet sizes, network and clock
steps, forwards and back,
with feedbacks never, once or repeatedly delivered in any order.

- Of the operators: `UnwrappedNear`, the unwrapper returns the number meant if it is less than half the space
  from its last one; `BytesRemoved`, `ForgetExact`, `RemoveOldIs`, `UpdateAckedIs`, `GetFeedbackIs`, `AddNewPacketIs`,
  `OnSentPacketIs`, that each operation makes a history (`IsHistory`) with an exact total (`Exact`) of one.  These hold
  whatever the unwrapper does, which is why `InFlightIsExact` and `ReceivedIsToldOnce` need no condition
  on how late feedbacks are.
- The invariant `FeedbackInv` has the types (`SenderTyped`, `HistoryKept`, `ReceiverKept`); `DeliveredOnce`, that a
  packet still in the history was not given to the controller, and is there under one number only; and, if
  feedbacks are in time, `Aligned`: the unwrapper's last number is at most the allowed lag behind the newest
  packet (`UnwrapperNear`), so that every number is unwrapped to its packet, and the order of the history is the
  order of creation, up to what the clock was ever `behind` (a packet was created at most that much before one with
  a smaller number).  The last is what `RemoveOld` relies on when it stops at the first young entry.
- `GetPacketFeedbackVector` looks up a feedback's statuses one by one and changes the history with each.
  `VectorKeeps` is by induction over the statuses: after each, history and results are in `Vectors(f)`, whose
  `SoFar` says that what is missing from the history is exactly what was given to the controller.
- `TransportTypeCorrect`, `InFlightIsExact`, `NothingIsAliased`, `ReceivedIsToldOnce`, `HistoryStaysInWindow` and
  `PacerStaysInStep` are parts of the invariant; `LostPacketsStayKnown` follows from what each step removes.
- `ArrivalsKeepTheClock` proves `ArrivalClock` for behaviours in which the receiver's clock stays below the wrap of the
  reference time (`[](time < RefSpan)`), set back or not, with `ClockKept`: no reference time sent has wrapped, and what is added to the receiver's times is `offset - lastRef`, which no
  feedback changes.  Beyond the wrap the property is false: that is run `history_wrap`.

`ProbeBitrateEstimatorProofs` is about every feedback, of any length, order and lateness.  `Describes` says that the cluster
spans (`Spans`) the packets from the one that opened the stream to the last, with `members` exactly these; the latest
receive time is that of *all* packets, because only a later one opens a stream.  `JoinsCluster` and `OpensCluster` are the two things a
packet does; a feedback is an induction over its packets (`AfterEachStep`, `FeedbackHandled`).  `EstimatorTypeCorrect` and
`ClusterIsExact` are read off it, and `ResultIsOfFirstSecond` from the packet whose rate the result is (`MeasuredOver`).

Only model-checked: liveness (`EventuallyTried`, `StreamGoesOn`), because the prover has no fairness; and the
five runs that show a comment not to hold, each a counterexample.  Proved, but of the model's abstractions: the receiver of
`TransportFeedback` sends what `FeedbackServer` is shown to send, which is argued and not proved.

## 5. Where the comments and the code differ

- `AddPacket` reserves the "maximum size needed for another chunk", but one packet can create
  three chunks and the end of the feedback a fourth: a feedback may be longer than the limit
  (`OvershootBounded`, run `feedback`: never by more than 8 bytes).
- `IsFull` reserves 7 packets "just in case", but one gap adds thousands of statuses: the 16-bit
  count wraps and the sender rejects the feedback (`feedback_full`).
- `AddPacket` checks for too many missing packets with an `int` difference that is negative
  across the wrap: any gap is accepted (`feedback_wrap`).
- After MAX_SIZE_EXCEEDED the packet is "added to the regenerated" feedback, but the result is
  ignored: the new base is rounded down to 64 ms, so that a delay just accepted may now be too large
  and the packet is in no feedback.  The attempt to prove that every new packet is entered came upon it;
  `EnteredUnlessRefused` states the exception, which the fourth network of run `feedback` reaches.
- `GetBaseDeltaUs` returns "the unwrapped delta", but does not unwrap (`history_wrap`).
- 1000 ms are the "maximum waiting time" for a probe's result, but the code that ends the wait is in
  `Process`, which this program does not call again: any later estimate above the threshold counts as
  the result (`probing_wait`).
- The increase adds 1 kbps "just to make sure that we do not get stuck"
  (`send_side_bandwidth_estimation.cc:520`), but it comes with a feedback, and `main.cpp:85` sends only what
  a fifth of the target, taken as bytes a second, admits: repeated losses lead to a target that admits no
  packet, and there it stays (`estimation_stuck`).

Seen while modelling, where no comment says otherwise: a fifth of the estimate in *bytes* is 1.6 times the estimate in
bits; the start phase looks at the last loss rate only, so that it resumes after losses in its first two
seconds; with an estimate above 5 Mbit/s a probe after a drop asks for less than the estimate
(`DropProbeBetween` excepts it); a feedback half the sequence space late or more turns the unwrapper back,
the next packet is filed before old ones, and these outlive the window, because `RemoveOld` stops at the first
young entry (found by the proof of `HistoryInWindow`, which is therefore about feedbacks in time); after the sender's clock is set back, an
over-age packet stays in the history behind one that seems younger (run `history`); a failed `send_to` ends the program; the sender's history forgets a packet 60 s after it was queued, so that
a backlog older than that brings no feedback that counts.

## 6. Not modelled

Floating point filters (trendline, overuse estimator, bitrate and link capacity estimators,
loss-based estimation): numerical code without a state machine worth checking.  Header layout
(`pack.cc`, `rtp_packet.cc`, `rtcp_packet.cc`), parsing of foreign datagrams, logging, utilities and the
vendored libraries.  Most of the repository is vendored: of about a million lines (nlohmann's json,
OpenSSL, Abseil, the rest of libwebrtc) the programs use a few thousand, so that the modules cover a small
share of the repository and most of what the two programs do.  `PacedSender::Process` and `RtpTransportControllerSend::Process` are never
called by this program, nor are `RequestProbe` and the pushback of the ALR detector's window, which need a detector or a
field trial that this build does not have.  That a feedback in progress is never sent when the stream stops
(`crude_timer_cb` is empty) is what the code does; no property is stated about it.

## 7. Plan

What is left, in this order:

1. The end-to-end composition of receiver, network and sender at the level of abstract feedbacks:
   `PacingLoop`, `TransportFeedback` and `BandwidthEstimation` share the recorded packets and the rate, with
   a backlog older than the history's window.
2. The recovery of the header extension and the parsing of foreign datagrams, if they are to be
   relied upon; the ALR detector and its budget.
3. Theorems: that the receiver of `TransportFeedback` is one that `FeedbackServer` implements (consecutive
   feedbacks that end with a received packet), as a refinement; the abstraction is argued here, each
   half is proved apart.
