------------------------- MODULE MCTCPBinaryServer --------------------------
(* Instances of TCPBinaryServer for TLC. *)
EXTENDS TCPBinaryServer

CONSTANTS c1, c2, d1, d2

MCConns2 == {c1, c2}
MCFds2 == {d1, d2}
MCFds1 == {d1}
=============================================================================
