------------------------------ MODULE IoUring ------------------------------
(***************************************************************************)
(* The ring and the event loop of class iouring::IoUring                   *)
(* (src/iouring/framework/IoUring.hpp): the submission queue that the      *)
(* Async* members fill, the operations the kernel owns, the completion     *)
(* queue, the batch of completions the loop of Run() is walking through,   *)
(* and the flags _pending and _run.                                        *)
(*                                                                         *)
(* The module has the loop's own steps and the operators from which an     *)
(* application builds its callbacks; TcpServer, TcpClient, UdpRelay and    *)
(* RingService supply the callbacks and the next-state relation.           *)
(*                                                                         *)
(* Queues are bags over the request objects.  The result of a completion   *)
(* is chosen when the completion is dispatched; nothing reads it earlier.  *)
(***************************************************************************)
EXTENDS RequestBag

CONSTANT
  QueueSize   (* entries of the submission queue, _queue_size              *)

ASSUME RingAssumption ==
  /\ IsFiniteSet(Req)
  /\ QueueSize \in Nat \ {0}

VARIABLES
  sq,         (* prepared entries that were not submitted                  *)
  sqLen,      (* how many there are: sqe_tail - sqe_head                   *)
  kernel,     (* submitted operations the kernel has not finished          *)
  cq,         (* completions the loop has not peeked                       *)
  batch,      (* peeked completions whose callback has not run             *)
  pending,    (* _pending                                                  *)
  run,        (* _run; FALSE means the ring is also unmapped               *)
  status      (* how the process fares, see Status                         *)

ringVars == <<sq, sqLen, kernel, cq, batch, pending, run, status>>

(***************************************************************************)
(* "sq_full" and "io_error" are the two exit(EXIT_FAILURE) paths,          *)
(* "crashed" is the access to the ring after io_uring_queue_exit unmapped  *)
(* it, "done" is Run() returning.                                          *)
(***************************************************************************)
Status == {"running", "done", "sq_full", "io_error", "crashed"}

(* Every operation of r that was started and whose callback has not run.   *)
Outstanding(r) == sq[r] + kernel[r] + cq[r] + batch[r]

(***************************************************************************)
(* The state main() leaves when it calls Run(): the requests of S were     *)
(* prepared, nothing was submitted.                                        *)
(***************************************************************************)
RingInit(S) ==
  /\ sq = With(Empty, S)
  /\ sqLen = Cardinality(S)
  /\ kernel = Empty
  /\ cq = Empty
  /\ batch = Empty
  /\ pending = (S # {})
  /\ run = TRUE
  /\ status = "running"

----------------------------------------------------------------------------
(* What a callback does to the submission queue.                           *)

(* Mutant: get_sqe hands out one entry too many.                           *)
QueueFullLate(first, submit, last) ==
  LET held == IF submit THEN 0 ELSE sqLen + Cardinality(first)
  IN  \/ sqLen + Cardinality(first) > QueueSize + 1
      \/ held + Cardinality(last) > QueueSize + 1

(***************************************************************************)
(* io_uring_get_sqe returns NULL for one of the calls of a callback that   *)
(* prepares the requests `first`, calls Submit() if `submit`, and then     *)
(* prepares the requests `last`.                                           *)
(***************************************************************************)
QueueFull(first, submit, last) ==
  LET held == IF submit THEN 0 ELSE sqLen + Cardinality(first)
  IN  \/ sqLen + Cardinality(first) > QueueSize
      \/ held + Cardinality(last) > QueueSize

(* Mutant: an Async* member does not set _pending.                         *)
IssueForgets(first, submit, last) ==
  /\ ~QueueFull(first, submit, last)
  /\ LET filled == With(sq, first)
     IN  /\ sq' = With(IF submit THEN Empty ELSE filled, last)
         /\ kernel' = IF submit THEN Plus(kernel, filled) ELSE kernel
  /\ sqLen' = (IF submit THEN 0 ELSE sqLen + Cardinality(first))
                + Cardinality(last)
  /\ pending' = (~submit /\ (pending \/ first # {}))
  /\ status' = status

(* Such a callback, the exit of a full queue included.                     *)
Issue(first, submit, last) ==
  \/ /\ QueueFull(first, submit, last)
     /\ status' = "sq_full"
     /\ UNCHANGED <<sq, sqLen, kernel, pending>>
  \/ /\ ~QueueFull(first, submit, last)
     /\ LET filled == With(sq, first)
        IN  /\ sq' = With(IF submit THEN Empty ELSE filled, last)
            /\ kernel' = IF submit THEN Plus(kernel, filled) ELSE kernel
     /\ sqLen' = (IF submit THEN 0 ELSE sqLen + Cardinality(first))
                   + Cardinality(last)
     /\ pending' = \/ last # {}
                   \/ ~submit /\ (pending \/ first # {})
     /\ status' = status

----------------------------------------------------------------------------
(* The kernel.                                                             *)

(* The kernel finishes an operation and posts its completion.              *)
Complete(r) ==
  /\ status = "running"
  /\ run
  /\ kernel[r] > 0
  /\ kernel' = Without(kernel, r)
  /\ cq' = With(cq, {r})
  /\ UNCHANGED <<sq, sqLen, batch, pending, run, status>>

----------------------------------------------------------------------------
(* The loop of Run().  The loop is at its head when the batch is empty.    *)

LoopHead == status = "running" /\ batch = Empty

(* Mutant: Submit() submits the entries once more the next time.           *)
LoopSubmitAgain ==
  /\ LoopHead
  /\ run
  /\ pending
  /\ kernel' = Plus(kernel, sq)
  /\ pending' = FALSE
  /\ UNCHANGED <<sq, sqLen, cq, batch, run, status>>

(* if (_pending) Submit();                                                 *)
LoopSubmit ==
  /\ LoopHead
  /\ run
  /\ pending
  /\ kernel' = Plus(kernel, sq)
  /\ sq' = Empty
  /\ sqLen' = 0
  /\ pending' = FALSE
  /\ UNCHANGED <<cq, batch, run, status>>

(***************************************************************************)
(* io_uring_wait_cqe returns and io_uring_peek_batch_cqe takes what is     *)
(* ready, at most _queue_size entries.                                     *)
(***************************************************************************)
LoopPeek ==
  /\ LoopHead
  /\ run
  /\ ~pending
  /\ cq # Empty
  /\ batch' \in Batches(cq, QueueSize)
  /\ cq' = Minus(cq, batch')
  /\ UNCHANGED <<sq, sqLen, kernel, pending, run, status>>

(* io_uring_wait_cqe fails: the process exits.                             *)
LoopWaitFails ==
  /\ LoopHead
  /\ run
  /\ ~pending
  /\ status' = "io_error"
  /\ UNCHANGED <<sq, sqLen, kernel, cq, batch, pending, run>>

(* The loop's condition is false: Run() returns.                           *)
LoopDone ==
  /\ LoopHead
  /\ ~run
  /\ status' = "done"
  /\ UNCHANGED <<sq, sqLen, kernel, cq, batch, pending, run>>

(* The next completion of the batch is one of r.                           *)
AtCompletion(r) ==
  /\ status = "running"
  /\ run
  /\ batch[r] > 0

(* Its result is an error other than EPIPE: the process exits.             *)
DispatchError(r) ==
  /\ AtCompletion(r)
  /\ status' = "io_error"
  /\ UNCHANGED <<sq, sqLen, kernel, cq, batch, pending, run>>

(* It is marked as seen and its callback runs.                             *)
Dispatch(r) == AtCompletion(r) /\ batch' = Without(batch, r)

(***************************************************************************)
(* A callback of this batch has called Shutdown(), which unmapped the      *)
(* ring, and the for loop reads the next entry of cqes.                    *)
(***************************************************************************)
DispatchUnmapped ==
  /\ status = "running"
  /\ ~run
  /\ batch # Empty
  /\ status' = "crashed"
  /\ UNCHANGED <<sq, sqLen, kernel, cq, batch, pending, run>>

(* The steps that no callback is part of: those the loop goes on with, and *)
(* the failure, which never has to happen.                                 *)
LoopStep ==
  \/ LoopSubmit
  \/ LoopPeek
  \/ LoopDone
  \/ DispatchUnmapped

LoopNext == LoopStep \/ LoopWaitFails

----------------------------------------------------------------------------
RingTypeOK ==
  /\ sq \in Bag
  /\ sqLen \in 0 .. QueueSize
  /\ kernel \in Bag
  /\ cq \in Bag
  /\ batch \in Bag
  /\ pending \in BOOLEAN
  /\ run \in BOOLEAN
  /\ status \in Status
=============================================================================
