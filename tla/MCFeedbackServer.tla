--------------------------- MODULE MCFeedbackServer ---------------------------
(* Instances of FeedbackServer for TLC. *)
EXTENDS FeedbackServer

\* A first arrival some milliseconds past a multiple of 64 ms, just before the
\* reference time wraps.
WrapTime == TimeMod - 64 + 5

\* Runs of arrivals, broken by a gap that fills a vector chunk and needs a run
\* for the rest, with delays of one and of two bytes.
Runs == [mtuSize |-> 32, firstSeq |-> 65530, jumps |-> {1, 9}, elapsed |-> {1, 70},
         maxPackets |-> 9]

\* Gaps that make the status count reach its limit exactly, and one too large.
Gaps == [mtuSize |-> 1400, firstSeq |-> 1, jumps |-> {7, 8191, 8193}, elapsed |-> {1},
         maxPackets |-> 10]

\* Late, repeated and next arrivals, and a gap within a vector chunk; the clock
\* steps back, or by more than a delta can hold.
Clock == [mtuSize |-> 24, firstSeq |-> 65534, jumps |-> {-1, 0, 1, 3},
          elapsed |-> {-3, 1, 9000}, maxPackets |-> 7]

\* A gap across the wrap of the sequence number that is far above the limit.
Wrap == [mtuSize |-> 1400, firstSeq |-> 60000, jumps |-> {1, 20000}, elapsed |-> {1},
         maxPackets |-> 3]

\* Little room, and arrivals so far apart that a delta only just holds the time,
\* unless it counts from the rounded time of a base.
Edge == [mtuSize |-> 28, firstSeq |-> 1, jumps |-> {1, 2}, elapsed |-> {1, 8190},
         maxPackets |-> 6]

AllNetworks == {Runs, Gaps, Clock, Edge}
GapNetwork == {Gaps}
WrapNetwork == {Wrap}
================================================================================
