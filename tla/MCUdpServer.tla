------------------------------ MODULE MCUdpServer ------------------------------
(* Instance of UdpServer for TLC: two sockets, three datagrams. *)
EXTENDS UdpServer
================================================================================
