--------------------------- MODULE MCTransportFeedback ---------------------------
(* Instances of TransportFeedback for TLC. *)
EXTENDS TransportFeedback

\* Both clocks go on by the same.
Together(ms) == [sender |-> ms, receiver |-> ms]

\* Feedbacks less than half of the 8 sequence numbers late; packets of one time,
\* and packets that leave the window of the history.
Near == [elapsed |-> {Together(0), Together(2)}, maxLag |-> 3, maxPackets |-> 5]

\* Feedbacks that are taken for newer ones: the unwrapper goes the wrong way.
Far == [elapsed |-> {Together(1)}, maxLag |-> 5, maxPackets |-> 6]

\* Clocks that are set back, the sender's by more than the receiver's: packets that
\* leave the window stay behind one that was recorded before.
Back == [elapsed |-> {[sender |-> 4, receiver |-> 1], [sender |-> -2, receiver |-> -1]},
         maxLag |-> 3, maxPackets |-> 4]

\* For the wrap of the reference time.
Few == [elapsed |-> {Together(0), Together(2)}, maxLag |-> 3, maxPackets |-> 4]

NearFarAndBack == {Near, Far, Back}
FewPackets == {Few}
================================================================================
