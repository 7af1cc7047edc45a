----------------------------- MODULE TcpSocket -----------------------------
(***************************************************************************)
(* The server side of class iouring::TcpSocket                             *)
(* (src/iouring/framework/TcpSocket.hpp): the map _clients from a client's *)
(* descriptor to its request object, and the members a server's callbacks  *)
(* call.                                                                   *)
(*                                                                         *)
(* A client's request is identified with its descriptor.  RemoveSocket     *)
(* destroys the request and does not close the descriptor, so the kernel   *)
(* never hands out the same number twice.                                  *)
(***************************************************************************)
EXTENDS IoUring

CONSTANTS
  Fd,         (* the descriptors accept can return: the process's limit    *)
  Acceptor    (* the request object that brings new clients                *)

ASSUME TcpAssumption ==
  /\ Acceptor \notin Fd
  /\ Req = Fd \cup {Acceptor}

VARIABLES
  clients,    (* the keys of _clients                                      *)
  opened      (* the descriptors accept has returned so far                *)

socketVars == <<clients, opened>>

(* The clients whose send was submitted and whose callback has not run.    *)
Busy == {c \in Fd : Outstanding(c) > 0}

SocketInit ==
  /\ clients = {}
  /\ opened = {}

(* A descriptor that accept can return next.                               *)
Fresh == Fd \ opened

(***************************************************************************)
(* AddSocket: emplace leaves an existing entry alone.                      *)
(***************************************************************************)
AddSocket(c) == clients' = clients \cup {c}

(* RemoveSocket: erase; the client's request object is destroyed.          *)
AfterRemove(c) == clients \ {c}

(***************************************************************************)
(* Broadcast to the clients `to`: one AsyncSend for each, then Submit();   *)
(* the callback then prepares the requests `last`.  It returns their       *)
(* number.                                                                 *)
(***************************************************************************)
Broadcast(to, last) == Issue(to, TRUE, last)

(* Mutant: the accept is armed by the branch and once more at the end.     *)
AsyncAcceptTwice == Issue({Acceptor}, FALSE, {Acceptor})

(* AsyncAccept alone.                                                      *)
AsyncAccept == Issue({}, FALSE, {Acceptor})

SocketTypeOK ==
  /\ clients \in SUBSET Fd
  /\ opened \in SUBSET Fd
=============================================================================
