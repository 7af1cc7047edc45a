----------------------------- MODULE TcpServer -----------------------------
(***************************************************************************)
(* The broadcasting server: server mode of main() in                       *)
(* src/iouring/framework/TcpSocket.cpp, which Distributor.cpp repeats.     *)
(* acceptHandler adds a client and starts a round for the first one;       *)
(* rwHandler counts completions down in the outer variable `clients`       *)
(* (here: left) and starts the next round when it reaches zero.            *)
(*                                                                         *)
(* acceptHandler declares a `clients` of its own, so the round it starts   *)
(* is not counted in `left`.                                               *)
(***************************************************************************)
EXTENDS TcpSocket

VARIABLE left         (* the outer `clients` of main()                     *)

vars == <<ringVars, socketVars, left>>

Init ==
  /\ RingInit({Acceptor})
  /\ SocketInit
  /\ left = 0

----------------------------------------------------------------------------
(* Mutant: every new client triggers a write, not only the first.          *)
NewClientAlways(c) ==
  /\ AddSocket(c)
  /\ Broadcast(clients \cup {c}, {Acceptor})

(* What acceptHandler does with a new client c.                            *)
NewClient(c) ==
  /\ AddSocket(c)
  /\ \/ /\ Cardinality(clients \cup {c}) = 1
        /\ Broadcast(clients \cup {c}, {Acceptor})
     \/ /\ Cardinality(clients \cup {c}) # 1
        /\ AsyncAccept

(* acceptHandler when accept has returned a new descriptor c.              *)
Accept(c) ==
  /\ c \in Fresh
  /\ Dispatch(Acceptor)
  /\ NewClient(c)
  /\ opened' = opened \cup {c}
  /\ UNCHANGED <<cq, run, left>>

(* Mutants: a threshold too high, one too low, a result not assigned.      *)
CountDownEarly(to) ==
  \/ /\ left - 1 <= 1
     /\ Broadcast(to, {})
     /\ left' = Cardinality(to)
  \/ /\ left - 1 > 1
     /\ left' = left - 1
     /\ UNCHANGED <<sq, sqLen, kernel, pending, status>>

CountDownLate(to) ==
  \/ /\ left - 1 < 0
     /\ Broadcast(to, {})
     /\ left' = Cardinality(to)
  \/ /\ left - 1 >= 0
     /\ left' = left - 1
     /\ UNCHANGED <<sq, sqLen, kernel, pending, status>>

CountDownDropped(to) ==
  /\ left' = left - 1
  /\ \/ left - 1 <= 0 /\ Broadcast(to, {})
     \/ left - 1 > 0 /\ UNCHANGED <<sq, sqLen, kernel, pending, status>>

(***************************************************************************)
(* The rest of rwHandler once `to` are the clients that are left.          *)
(***************************************************************************)
CountDown(to) ==
  \/ /\ left - 1 <= 0
     /\ Broadcast(to, {})
     /\ left' = Cardinality(to)
  \/ /\ left - 1 > 0
     /\ left' = left - 1
     /\ UNCHANGED <<sq, sqLen, kernel, pending, status>>

(* rwHandler for a send of c that succeeded.                               *)
Sent(c) ==
  /\ Dispatch(c)
  /\ clients' = clients
  /\ CountDown(clients)
  /\ UNCHANGED <<cq, run, opened>>

(* rwHandler for a send of c that failed with EPIPE.                       *)
Broken(c) ==
  /\ Dispatch(c)
  /\ clients' = AfterRemove(c)
  /\ CountDown(AfterRemove(c))
  /\ UNCHANGED <<cq, run, opened>>

(* The steps of the loop and of the kernel.                                *)
Loop == LoopNext /\ UNCHANGED <<socketVars, left>>

Finish(r) == Complete(r) /\ UNCHANGED <<socketVars, left>>

Fails(r) == DispatchError(r) /\ UNCHANGED <<socketVars, left>>

(* The loop dispatches a completion.                                       *)
Handle ==
  \/ \E r \in Req : Fails(r)
  \/ \E c \in Fd : Accept(c) \/ Sent(c) \/ Broken(c)

Next ==
  \/ Loop
  \/ Handle
  \/ \E r \in Req : Finish(r)

Spec == Init /\ [][Next]_vars

(***************************************************************************)
(* The loop runs whenever it can, and the kernel finishes every send: each *)
(* peer goes on reading or its connection breaks.  Nobody need connect.    *)
(***************************************************************************)
Fairness ==
  /\ WF_vars(LoopStep /\ UNCHANGED <<socketVars, left>>)
  /\ WF_vars(Handle)
  /\ \A c \in Fd : WF_vars(Finish(c))

FairSpec == Spec /\ Fairness

----------------------------------------------------------------------------
TypeOK ==
  /\ RingTypeOK
  /\ SocketTypeOK
  /\ left \in 0 .. Cardinality(Fd)

(***************************************************************************)
(* A completion's user_data is the address of the client's request, which  *)
(* RemoveSocket frees: whatever is outstanding belongs to a client still   *)
(* in _clients, so rwHandler never runs on a freed request.                *)
(***************************************************************************)
NoFreedRequest == \A c \in Fd : Outstanding(c) > 0 => c \in clients

(***************************************************************************)
(* No request object is handed to the ring while it is still in flight:    *)
(* neither a client's nor the single accept request, which is always       *)
(* armed, so that new clients are never locked out.                        *)
(***************************************************************************)
OneInFlight ==
  /\ \A c \in Fd : Outstanding(c) <= 1
  /\ Outstanding(Acceptor) <= 1
  /\ status = "running" => Outstanding(Acceptor) = 1

(***************************************************************************)
(* `left` counts the sends of the current round exactly, although the      *)
(* round started by acceptHandler is not counted in it: such a round has   *)
(* one send, and then `left` is zero.                                      *)
(***************************************************************************)
CountIsExact ==
  status = "running" => /\ left > 0 => left = Cardinality(Busy)
                        /\ left <= 0 => Cardinality(Busy) <= 1

(***************************************************************************)
(* While a client is connected a send is in flight, so that some later     *)
(* completion starts the next round.  If it failed, every client would     *)
(* wait forever, since only the first client's accept starts a round.      *)
(***************************************************************************)
RoundAlive == status = "running" /\ clients # {} => Busy # {}

(***************************************************************************)
(* The loop never waits with an entry that was prepared and not submitted. *)
(***************************************************************************)
NothingForgotten == ~pending => sq = Empty

(***************************************************************************)
(* A submission queue with one entry more than there can be clients is     *)
(* never full: in one batch acceptHandler may leave an accept in it before *)
(* rwHandler adds a send for every client.                                 *)
(***************************************************************************)
QueueSuffices == Cardinality(Fd) < QueueSize => status # "sq_full"

(***************************************************************************)
(* The NOTICE above TcpSocket::Broadcast: the shared buffer is not         *)
(* submitted to the ring until all client requests are processed.  A step  *)
(* that gives the kernel a send leaves no send of an earlier round.        *)
(***************************************************************************)
Notice ==
  [][\A c \in Fd : kernel'[c] > kernel[c] =>
       \A d \in Fd : sq[d] + kernel[d] + cq[d] + batch'[d] = 0]_vars

(***************************************************************************)
(* Every connected client is sent to again and again, until it breaks or   *)
(* the process ends.                                                       *)
(***************************************************************************)
Served ==
  \A c \in Fd :
    c \in clients ~> \/ kernel[c] > 0
                     \/ c \notin clients
                     \/ status # "running"
=============================================================================
