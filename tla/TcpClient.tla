----------------------------- MODULE TcpClient -----------------------------
(***************************************************************************)
(* The client: client mode of main() in src/iouring/framework/             *)
(* TcpSocket.cpp, on the receiving side of TcpSocket.hpp.  All requests    *)
(* are armed for receiving on the one connection; every completion is      *)
(* counted and its request armed again; the completion that brings the     *)
(* counter to the limit calls Shutdown().                                  *)
(*                                                                         *)
(* A connection that the server closed completes every receive with zero   *)
(* bytes; the callback counts that like any other message, so both are one *)
(* action.                                                                 *)
(***************************************************************************)
EXTENDS IoUring

CONSTANT
  Limit       (* the counter at which the client stops                     *)

ASSUME LimitAssumption == Limit \in Nat \ {0}

VARIABLE counter

clientVars == <<ringVars, counter>>

(* AsyncReceiveAll; its 16 receives fit into the queue of 512.             *)
ClientInit ==
  /\ Cardinality(Req) <= QueueSize
  /\ RingInit(Req)
  /\ counter = 0

(* Mutant: the limit is compared before counting.                          *)
ReceivedCountsLate(i) ==
  /\ Dispatch(i)
  /\ counter' = counter + 1
  /\ \/ /\ counter = Limit
        /\ run' = FALSE
        /\ UNCHANGED <<sq, sqLen, kernel, pending, status>>
     \/ /\ counter # Limit
        /\ run' = run
        /\ Issue({}, FALSE, {i})
  /\ UNCHANGED cq

(* Mutant: the request is not armed again.                                 *)
ReceivedForgets(i) ==
  /\ Dispatch(i)
  /\ counter' = counter + 1
  /\ run' = (counter' # Limit)
  /\ UNCHANGED <<sq, sqLen, kernel, pending, status, cq>>

(* rwHandler for the completion of receive i.                              *)
Received(i) ==
  /\ Dispatch(i)
  /\ counter' = counter + 1
  /\ \/ /\ counter' = Limit
        /\ run' = FALSE
        /\ UNCHANGED <<sq, sqLen, kernel, pending, status>>
     \/ /\ counter' # Limit
        /\ run' = run
        /\ Issue({}, FALSE, {i})
  /\ UNCHANGED cq

Loop == LoopNext /\ UNCHANGED counter

Finish(i) == Complete(i) /\ UNCHANGED counter

Fails(i) == DispatchError(i) /\ UNCHANGED counter

HandleReceive == \E i \in Req : Received(i) \/ Fails(i)

ClientNext ==
  \/ Loop
  \/ HandleReceive
  \/ \E i \in Req : Finish(i)

ClientSpec == ClientInit /\ [][ClientNext]_clientVars

(***************************************************************************)
(* The loop runs whenever it can, and the server sends until it closes the *)
(* connection, so that every receive is finished.                          *)
(***************************************************************************)
ClientFairness ==
  /\ WF_clientVars(LoopStep /\ UNCHANGED counter)
  /\ WF_clientVars(HandleReceive)
  /\ \A i \in Req : WF_clientVars(Finish(i))

ClientFairSpec == ClientSpec /\ ClientFairness

----------------------------------------------------------------------------
ClientTypeOK ==
  /\ RingTypeOK
  /\ counter \in 0 .. Limit

(***************************************************************************)
(* Until the client stops every request is in flight exactly once: the     *)
(* connection is always read, and no buffer by two receives.               *)
(***************************************************************************)
AllArmed ==
  /\ \A i \in Req : Outstanding(i) <= 1
  /\ run /\ status = "running" => \A i \in Req : Outstanding(i) = 1

(* The client reaches the end of its run, in one of the ways it can end.   *)
Ends == <>(status # "running")
=============================================================================
