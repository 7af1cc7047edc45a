---------------------------- MODULE MCTcpServer ----------------------------
(* The server on small sets of descriptors, for TLC.                       *)
EXTENDS TcpServer

MCReq == Fd \cup {Acceptor}
=============================================================================
