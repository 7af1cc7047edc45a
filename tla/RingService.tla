---------------------------- MODULE RingService ----------------------------
(***************************************************************************)
(* Class IoUring under an application about which nothing is assumed: a    *)
(* callback prepares any requests, may call Submit() in between, or calls  *)
(* Shutdown().  This is the detailed specification that implements         *)
(* AsyncOps.                                                               *)
(***************************************************************************)
EXTENDS IoUring

CONSTANT
  Depth       (* bound: operations outstanding on one request              *)

ASSUME DepthAssumption == Depth \in Nat \ {0}

Init == \E S \in SUBSET Req : Cardinality(S) <= QueueSize /\ RingInit(S)

(* The callback of r prepares `first`, submits if `submit`, prepares `last`. *)
Continue(r, first, submit, last) ==
  /\ Dispatch(r)
  /\ Issue(first, submit, last)
  /\ UNCHANGED <<cq, run>>
  /\ \A q \in Req : Outstanding(q)' <= Depth

(***************************************************************************)
(* The callback of r calls Shutdown(): _run is cleared and                 *)
(* io_uring_queue_exit drops whatever is in the ring.                      *)
(***************************************************************************)
Stop(r) ==
  /\ Dispatch(r)
  /\ run' = FALSE
  /\ UNCHANGED <<sq, sqLen, kernel, cq, pending, status>>

Handle(r) ==
  \/ Stop(r)
  \/ DispatchError(r)
  \/ \E first, last \in SUBSET Req, submit \in BOOLEAN :
       Continue(r, first, submit, last)

Next ==
  \/ LoopNext
  \/ \E r \in Req : Complete(r) \/ Handle(r)

Spec == Init /\ [][Next]_ringVars

(***************************************************************************)
(* The thread of Run() goes on and the kernel finishes what it was given.  *)
(* The completion queue is first in, first out: no completion is passed    *)
(* over forever by batches that are too small for it.                      *)
(***************************************************************************)
Fairness ==
  /\ WF_ringVars(LoopStep)
  /\ WF_ringVars(\E r \in Req : Handle(r))
  /\ \A r \in Req : WF_ringVars(Complete(r))
  /\ \A r \in Req : SF_ringVars(LoopPeek /\ batch'[r] > 0)

FairSpec == Spec /\ Fairness

----------------------------------------------------------------------------
TypeOK == RingTypeOK

(***************************************************************************)
(* _pending covers the submission queue: when it is clear nothing waits to *)
(* be submitted, so io_uring_wait_cqe never blocks in front of a prepared  *)
(* operation.  Every Async* member and Submit() take part in this.         *)
(***************************************************************************)
PendingCovers == ~pending => sq = Empty

(* Ring and loop implement the promise of AsyncOps.                        *)
Ops == INSTANCE AsyncOps WITH
         outstanding <- [r \in Req |-> Outstanding(r)],
         open <- run /\ status = "running"

(***************************************************************************)
(* No operation is lost, duplicated or answered twice on its way through   *)
(* submission queue, kernel, completion queue and batch, and there is no   *)
(* callback after Shutdown() or an error.                                  *)
(***************************************************************************)
Implements == Ops!Spec

(***************************************************************************)
(* Every operation reaches the loop's batch and every batch is worked off, *)
(* unless the service is closed first: no prepared operation waits in      *)
(* front of io_uring_wait_cqe for a submission that never comes.           *)
(***************************************************************************)
Closed == ~run \/ status # "running"

Answers ==
  \A r \in Req :
    /\ Outstanding(r) > 0 ~> batch[r] > 0 \/ Closed
    /\ batch[r] > 0 ~> batch[r] = 0 \/ Closed
=============================================================================
