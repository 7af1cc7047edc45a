------------------------- MODULE TcpServerDangling -------------------------
(***************************************************************************)
(* The same server, with the undefined behaviour of rwHandler.             *)
(*                                                                         *)
(* rwHandler runs inside the closure that the request's _callback owns.    *)
(* RemoveSocket destroys that closure together with the request, and       *)
(* Broadcast replaces it in every client it sends to; the handler goes on  *)
(* using the captured reference to `clients` afterwards.  The comment at   *)
(* the end of rwHandler reports what the freed reference gives for the     *)
(* other captured variable: zero or a weird value.  TcpServer takes the    *)
(* freed closure to be intact; here it may have been overwritten.          *)
(***************************************************************************)
EXTENDS TcpServer

(* Broadcast replaced the running closure: its result is not stored.       *)
SentDangling(c) ==
  /\ Dispatch(c)
  /\ left - 1 <= 0
  /\ c \in clients
  /\ Broadcast(clients, {})
  /\ left' = left - 1
  /\ UNCHANGED <<cq, run, clients, opened>>

(***************************************************************************)
(* RemoveSocket freed the closure: the decrement and the assignment go     *)
(* elsewhere and the comparison reads any value.                           *)
(***************************************************************************)
BrokenDangling(c) ==
  /\ Dispatch(c)
  /\ clients' = AfterRemove(c)
  /\ \/ Broadcast(AfterRemove(c), {})
     \/ UNCHANGED <<sq, sqLen, kernel, pending, status>>
  /\ UNCHANGED <<cq, run, opened, left>>

DanglingNext ==
  \/ Next
  \/ \E c \in Fd : SentDangling(c) \/ BrokenDangling(c)

DanglingSpec == Init /\ [][DanglingNext]_vars
=============================================================================
