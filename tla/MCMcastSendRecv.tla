-------------------------- MODULE MCMcastSendRecv --------------------------
(* The combined sender and receiver with a few requests, for TLC.          *)
EXTENDS McastSendRecv

MCReq == ({"recv"} \X (0 .. RecvSize - 1)) \cup ({"send"} \X (0 .. RecvSize))
=============================================================================
