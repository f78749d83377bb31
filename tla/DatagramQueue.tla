----------------------------- MODULE DatagramQueue -----------------------------
(***************************************************************************)
(* What the send side of UDPServer promises to its callers: every datagram *)
(* handed to a socket is tried exactly once, in the order of the calls,    *)
(* and a failed try is neither repeated nor allowed to hold up the rest.   *)
(***************************************************************************)
EXTENDS Sequences

CONSTANTS
  Sockets,   \* the local sockets, one per listening address
  Packets    \* the datagrams that callers may send

VARIABLES
  pending,   \* per socket: datagrams accepted and not yet tried, oldest first
  tried      \* per socket: datagrams tried, in order, with the result

qvars == <<pending, tried>>

Init ==
  /\ pending = [i \in Sockets |-> <<>>]
  /\ tried = [i \in Sockets |-> <<>>]

\* A caller hands datagram p to socket i.
Submit(i, p) ==
  /\ pending' = [pending EXCEPT ![i] = Append(@, p)]
  /\ UNCHANGED tried

\* The oldest datagram of socket i is tried, with result ok.
Try(i, ok) ==
  /\ pending[i] # <<>>
  /\ pending' = [pending EXCEPT ![i] = Tail(@)]
  /\ tried' = [tried EXCEPT ![i] = Append(@, [pkt |-> Head(pending[i]), ok |-> ok])]

Next ==
  \E i \in Sockets :
    \/ \E p \in Packets : Submit(i, p)
    \/ \E ok \in BOOLEAN : Try(i, ok)

Spec == Init /\ [][Next]_qvars
================================================================================
