------------------------------- MODULE UdpServer -------------------------------
(***************************************************************************)
(* rtc/udp_server.cc: the asio event loop of both programs.  One thread    *)
(* runs every handler (ios_.run), so a handler is one atomic step; what is *)
(* concurrent is the order in which asio completes sends, receives, timer  *)
(* waits and posted closures.  The observer (GCCServer) is the             *)
(* environment: a received datagram makes it send at most one datagram.    *)
(***************************************************************************)
EXTENDS Naturals, Sequences

CONSTANTS
  Sockets,   \* the local sockets, one per listening address
  Packets    \* the datagrams the observer may send, each of them once

VARIABLES
  running,      \* UDPServer::run has opened the sockets
  unsent,       \* datagrams the observer has not sent yet (bounds the model)
  posted,       \* per socket: closures given to ios_.post and not yet run
  sendPackets,  \* per socket: send_packets_
  sendOps,      \* per socket: asynchronous sends asio has not completed
  recvOps,      \* per socket: number of asynchronous receives outstanding
  aborted,      \* sockets whose receive completed with operation_aborted
  timerWaits,   \* number of waits outstanding on crude_timer_
  timerDead,    \* a wait on crude_timer_ completed with an error
  tried         \* per socket: completed sends, in order (history)

sendVars == <<unsent, posted, sendPackets, sendOps, tried>>
recvVars == <<recvOps, aborted>>
timerVars == <<timerWaits, timerDead>>
vars == <<running, sendVars, recvVars, timerVars>>

\* A completed send: the datagram, and whether the handler saw no error.
Result == [pkt : Packets, ok : BOOLEAN]

TypeOK ==
  /\ running \in BOOLEAN
  /\ unsent \in SUBSET Packets
  /\ posted \in [Sockets -> Seq(Packets)]
  /\ sendPackets \in [Sockets -> Seq(Packets)]
  /\ sendOps \in [Sockets -> Seq(Packets)]
  /\ recvOps \in [Sockets -> Nat]
  /\ aborted \in SUBSET Sockets
  /\ timerWaits \in Nat
  /\ timerDead \in BOOLEAN
  /\ tried \in [Sockets -> Seq(Result)]

Init ==
  /\ running = FALSE
  /\ unsent = Packets
  /\ posted = [i \in Sockets |-> <<>>]
  /\ sendPackets = [i \in Sockets |-> <<>>]
  /\ sendOps = [i \in Sockets |-> <<>>]
  /\ recvOps = [i \in Sockets |-> 0]
  /\ aborted = {}
  /\ timerWaits = 0
  /\ timerDead = FALSE
  /\ tried = [i \in Sockets |-> <<>>]

\* UDPServer::run: open and bind every socket, start its receive, start the timer.
Run ==
  /\ ~running
  /\ running' = TRUE
  /\ recvOps' = [i \in Sockets |-> recvOps[i] + 1]
  /\ timerWaits' = timerWaits + 1
  /\ UNCHANGED <<sendVars, aborted, timerDead>>

\* async_send_to, called by the observer: post a closure, touch no queue.
AsyncSendTo(i, p) ==
  /\ unsent' = unsent \ {p}
  /\ posted' = [posted EXCEPT ![i] = Append(@, p)]

\* The observer's recv_udp_cb: it sends nothing, or one datagram.
RecvUdpCb ==
  \/ UNCHANGED <<unsent, posted>>
  \/ \E j \in Sockets, p \in unsent : AsyncSendTo(j, p)

\* handle_receive_from with operation_aborted: the receive is not renewed.
HandleReceiveAborted(i) ==
  /\ recvOps[i] > 0
  /\ recvOps' = [recvOps EXCEPT ![i] = @ - 1]
  /\ aborted' = aborted \cup {i}
  /\ UNCHANGED <<running, sendVars, timerVars>>

\* (Faulty variant: the early return forgets do_receive_from.)
HandleReceiveErrorDeaf(i) ==
  /\ recvOps[i] > 0
  /\ recvOps' = [recvOps EXCEPT ![i] = @ - 1]
  /\ UNCHANGED <<running, sendVars, aborted, timerVars>>

\* handle_receive_from with another error or an empty datagram: only renewed.
HandleReceiveError(i) ==
  /\ recvOps[i] > 0
  /\ recvOps' = [recvOps EXCEPT ![i] = (@ - 1) + 1]
  /\ UNCHANGED <<running, sendVars, aborted, timerVars>>

\* handle_receive_from with a datagram: the observer first, then renewed.
HandleReceiveFrom(i) ==
  /\ recvOps[i] > 0
  /\ RecvUdpCb
  /\ recvOps' = [recvOps EXCEPT ![i] = (@ - 1) + 1]
  /\ UNCHANGED <<running, sendPackets, sendOps, tried, aborted, timerVars>>

\* (Faulty variant: write_in_progress is not tested.)
RunPostedAlwaysSends(i) ==
  /\ posted[i] # <<>>
  /\ LET longer == Append(sendPackets[i], Head(posted[i]))
     IN /\ sendPackets' = [sendPackets EXCEPT ![i] = longer]
        /\ sendOps' = [sendOps EXCEPT ![i] = Append(@, Head(longer))]
  /\ posted' = [posted EXCEPT ![i] = Tail(@)]
  /\ UNCHANGED <<running, unsent, tried, recvVars, timerVars>>

\* The closure posted by async_send_to: it queues the datagram and starts a
\* send unless one is in progress, which it reads off the queue being non-empty.
RunPosted(i) ==
  /\ posted[i] # <<>>
  /\ LET queue == sendPackets[i]
         write_in_progress == queue # <<>>
         longer == Append(queue, Head(posted[i]))
     IN /\ sendPackets' = [sendPackets EXCEPT ![i] = longer]
        /\ sendOps' = [sendOps EXCEPT ![i] =
                         IF write_in_progress THEN @ ELSE Append(@, Head(longer))]
  /\ posted' = [posted EXCEPT ![i] = Tail(@)]
  /\ UNCHANGED <<running, unsent, tried, recvVars, timerVars>>

\* (Faulty variant: a failed datagram stays at the front and is sent again.)
HandleSendToRetries(i, ok) ==
  /\ sendOps[i] # <<>>
  /\ LET rest == IF ok THEN Tail(sendPackets[i]) ELSE sendPackets[i]
     IN /\ sendPackets' = [sendPackets EXCEPT ![i] = rest]
        /\ sendOps' = [sendOps EXCEPT ![i] =
                         IF rest # <<>> THEN Append(Tail(@), Head(rest)) ELSE Tail(@)]
  /\ tried' = [tried EXCEPT ![i] = Append(@, [pkt |-> Head(sendOps[i]), ok |-> ok])]
  /\ UNCHANGED <<running, unsent, posted, recvVars, timerVars>>

\* (Faulty variant: the error branch pops but does not start the next send.)
HandleSendToStalls(i, ok) ==
  /\ sendOps[i] # <<>>
  /\ LET rest == Tail(sendPackets[i])
     IN /\ sendPackets' = [sendPackets EXCEPT ![i] = rest]
        /\ sendOps' = [sendOps EXCEPT ![i] =
                         IF ok /\ rest # <<>> THEN Append(Tail(@), Head(rest)) ELSE Tail(@)]
  /\ tried' = [tried EXCEPT ![i] = Append(@, [pkt |-> Head(sendOps[i]), ok |-> ok])]
  /\ UNCHANGED <<running, unsent, posted, recvVars, timerVars>>

\* handle_send_to: asio completed the oldest send, with or without an error;
\* both branches pop the front and start the next send if there is one.  (The
\* second conjunct is its assertion, which SendInProgressIffQueued shows to hold.)
HandleSendTo(i, ok) ==
  /\ sendOps[i] # <<>>
  /\ sendPackets[i] # <<>>
  /\ LET rest == Tail(sendPackets[i])
     IN /\ sendPackets' = [sendPackets EXCEPT ![i] = rest]
        /\ sendOps' = [sendOps EXCEPT ![i] =
                         IF rest # <<>> THEN Append(Tail(@), Head(rest)) ELSE Tail(@)]
  /\ tried' = [tried EXCEPT ![i] = Append(@, [pkt |-> Head(sendOps[i]), ok |-> ok])]
  /\ UNCHANGED <<running, unsent, posted, recvVars, timerVars>>

\* handle_crude_timer: crude_timer_cb is empty in both programs; the wait is
\* renewed, unless it completed with an error.
HandleCrudeTimer(ec) ==
  /\ timerWaits > 0
  /\ timerWaits' = IF ec THEN timerWaits - 1 ELSE (timerWaits - 1) + 1
  /\ timerDead' = (timerDead \/ ec)
  /\ UNCHANGED <<running, sendVars, recvVars>>

Next ==
  \/ Run
  \/ \E i \in Sockets : HandleReceiveAborted(i)
  \/ \E i \in Sockets : HandleReceiveError(i)
  \/ \E i \in Sockets : HandleReceiveFrom(i)
  \/ \E i \in Sockets : RunPosted(i)
  \/ \E i \in Sockets, ok \in BOOLEAN : HandleSendTo(i, ok)
  \/ \E ec \in BOOLEAN : HandleCrudeTimer(ec)

Spec == Init /\ [][Next]_vars

\* The event loop runs every ready closure, and the kernel answers every send.
Fairness ==
  \A i \in Sockets :
    /\ WF_vars(RunPosted(i))
    /\ WF_vars(\E ok \in BOOLEAN : HandleSendTo(i, ok))

FairSpec == Spec /\ Fairness

--------------------------------------------------------------------------------
(* Properties *)

\* Exactly one asynchronous send is outstanding on a socket while its queue is
\* non-empty and none otherwise, and it is the send of the front: the buffer
\* given to asio is kept alive by the queue until the completion handler runs,
\* which is what the two assertions of handle_send_to check.
SendInProgressIffQueued ==
  \A i \in Sockets :
    sendOps[i] = IF sendPackets[i] = <<>> THEN <<>> ELSE <<Head(sendPackets[i])>>

\* Once running, a socket always has exactly one receive outstanding, until a
\* receive is aborted; and the timer exactly one wait, until a wait fails.
\* Two would hand one datagram's buffer to the observer out of order; none
\* would leave the program deaf without any error.
OneWaitEach ==
  /\ \A i \in Sockets :
       recvOps[i] = IF running /\ i \notin aborted THEN 1 ELSE 0
  /\ timerWaits = IF running /\ ~timerDead THEN 1 ELSE 0

\* The queue, the closures and asio's state together implement DatagramQueue:
\* the datagrams a socket still owes are its queue followed by the closures.
Queue == INSTANCE DatagramQueue
           WITH pending <- [i \in Sockets |-> sendPackets[i] \o posted[i]]

ImplementsQueue == Queue!Spec

\* Every datagram the observer sends is eventually tried on some socket.
EventuallyTried ==
  \A p \in Packets :
    (p \notin unsent) ~>
      \E i \in Sockets : \E k \in DOMAIN tried[i] : tried[i][k].pkt = p
================================================================================
