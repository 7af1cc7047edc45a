---------------------------- MODULE MCPostServer ----------------------------
(* The server with an accepting thread, for TLC.                           *)
EXTENDS PostServer

MCReq == Fd \cup {Acceptor}
=============================================================================
