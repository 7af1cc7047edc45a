--------------------------- MODULE McastSendRecv ---------------------------
(***************************************************************************)
(* Class MulticastSendRecv (src/iouring/mcast/iouring_mcast_sendrecv.hpp): *)
(* one ring for receiving and sending, with a loop of its own.  The loop   *)
(* hands every datagram to a handler, which calls SendMessage any number   *)
(* of times; SendMessage copies a datagram into the next send request of a *)
(* ring of requests and submits it.                                        *)
(*                                                                         *)
(* A kernel thread (SQPOLL) takes submitted entries some time later; an    *)
(* entry that was prepared and not submitted is invisible to it.           *)
(*                                                                         *)
(* Requests are <<"recv", i>> and <<"send", i>>.  The constructor sets     *)
(* _send_index to the size of the array, so the first message uses the     *)
(* memory behind it, here the send request RecvSize.                       *)
(***************************************************************************)
EXTENDS RequestBag

CONSTANTS
  RecvSize,   (* _recv_size; the constructor also takes it for _send_size  *)
  SendSlots,  (* the constructor's send_slots                              *)
  BatchSize   (* BATCH_SIZE, the length of the array cqes                  *)

Recv(i) == <<"recv", i>>
Send(i) == <<"send", i>>

Slots == 0 .. RecvSize - 1

ASSUME SendRecvAssumption ==
  /\ RecvSize \in Nat \ {0}
  /\ SendSlots \in Nat \ {0}
  /\ BatchSize \in Nat \ {0}
  /\ Req = {Recv(i) : i \in Slots} \cup {Send(i) : i \in 0 .. RecvSize}

QueueSize == RecvSize + SendSlots

VARIABLES
  prepared,   (* entries that were not submitted                           *)
  submitted,  (* submitted entries that the kernel thread has not taken    *)
  kernel,     (* operations that the kernel has not finished               *)
  cq,         (* completions that the loop has not peeked                  *)
  batch,      (* peeked completions that the loop has not worked off       *)
  current,    (* the receive whose handler runs, or None                   *)
  used,       (* is_used of every send request                             *)
  index,      (* _send_index                                               *)
  status

ring == <<prepared, submitted, kernel, cq>>
vars == <<ring, batch, current, used, index, status>>

None == -1

(***************************************************************************)
(* "fatal" is the exit of SetupSendRequest, "overrun" the write behind the *)
(* end of cqes, "crashed" the copy of a negative length, "stopped" the     *)
(* exit of StopReceiver, "io_error" that of a failed io_uring_wait_cqe.    *)
(***************************************************************************)
Status == {"running", "fatal", "overrun", "crashed", "stopped", "io_error"}

(* is_used is read before it is ever written.                              *)
Init ==
  /\ prepared = Empty
  /\ submitted = With(Empty, {Recv(i) : i \in Slots})
  /\ kernel = Empty
  /\ cq = Empty
  /\ batch = Empty
  /\ current = None
  /\ used \in [0 .. RecvSize -> BOOLEAN]
  /\ index = RecvSize
  /\ status = "running"

----------------------------------------------------------------------------
(* The kernel.                                                             *)

Take(r) ==
  /\ status = "running"
  /\ submitted[r] > 0
  /\ submitted' = Without(submitted, r)
  /\ kernel' = With(kernel, {r})
  /\ UNCHANGED <<prepared, cq, batch, current, used, index, status>>

Complete(r) ==
  /\ status = "running"
  /\ kernel[r] > 0
  /\ kernel' = Without(kernel, r)
  /\ cq' = With(cq, {r})
  /\ UNCHANGED <<prepared, submitted, batch, current, used, index, status>>

----------------------------------------------------------------------------
(* The loop of StartReceiver.                                              *)

LoopHead == status = "running" /\ batch = Empty /\ current = None

(* Up to _queue_size completions are peeked into cqes.                     *)
Peek ==
  /\ LoopHead
  /\ cq # Empty
  /\ batch' \in Batches(cq, QueueSize)
  /\ cq' = Minus(cq, batch')
  /\ status' = IF Size(batch') > BatchSize THEN "overrun" ELSE status
  /\ UNCHANGED <<prepared, submitted, kernel, current, used, index>>

WaitFails ==
  /\ LoopHead
  /\ status' = "io_error"
  /\ UNCHANGED <<ring, batch, current, used, index>>

(* The loop turns to the completion of r.                                  *)
At(r) == status = "running" /\ current = None /\ batch[r] > 0

(* A send is over: its request is free, nothing is submitted.              *)
SendDone(k) ==
  /\ At(Send(k))
  /\ batch' = Without(batch, Send(k))
  /\ used' = [used EXCEPT ![k] = FALSE]
  /\ UNCHANGED <<ring, current, index, status>>

(* A receive is over: the handler is called.                               *)
Received(i) ==
  /\ At(Recv(i))
  /\ batch' = Without(batch, Recv(i))
  /\ current' = i
  /\ UNCHANGED <<ring, used, index, status>>

----------------------------------------------------------------------------
(* What the handler and the re-arming after it do.                         *)

InHandler == status = "running" /\ current # None

(* GetQueueEntry spins until the kernel thread has made room.              *)
GetQueueEntry == Size(prepared) + Size(submitted) < QueueSize

(* Mutant: the entries stay unsubmitted.                                   *)
SubmitForgotten(entries) ==
  /\ prepared' = entries
  /\ UNCHANGED submitted

(* io_uring_submit                                                         *)
Submit(entries) ==
  /\ submitted' = Plus(submitted, entries)
  /\ prepared' = Empty

(* Mutant: the index runs on.                                              *)
NextIndexUnwrapped(k) == k + 1

NextIndex(k) == (k + 1) % RecvSize

(* Mutant: the request is not marked.                                      *)
SetupSendRequestUnmarked ==
  /\ ~used[index]
  /\ index' = NextIndex(index)
  /\ UNCHANGED used

SetupSendRequest ==
  /\ ~used[index]
  /\ index' = NextIndex(index)
  /\ used' = [used EXCEPT ![index] = TRUE]

(* SetupSendQueueEntry submits, whatever was prepared before it included.  *)
SendMessage ==
  /\ InHandler
  /\ SetupSendRequest
  /\ GetQueueEntry
  /\ Submit(With(prepared, {Send(index)}))
  /\ UNCHANGED <<kernel, cq, batch, current, status>>

(* The next send request is marked as used: the process exits.             *)
SendMessageFatal ==
  /\ InHandler
  /\ used[index]
  /\ status' = "fatal"
  /\ UNCHANGED <<ring, batch, current, used, index>>

(***************************************************************************)
(* The completion was an error, which the loop does not look at: its       *)
(* negative result is the length that the handler passes on.               *)
(***************************************************************************)
SendMessageError ==
  /\ InHandler
  /\ ~used[index]
  /\ status' = "crashed"
  /\ UNCHANGED <<ring, batch, current, used, index>>

(* Mutant: no receive before the last of a batch is re-armed.              *)
SetupReceiveQueueEntryLastOnly(i) ==
  IF batch = Empty THEN Submit(With(prepared, {Recv(i)}))
  ELSE UNCHANGED <<prepared, submitted>>

(***************************************************************************)
(* The receive is submitted if its completion was the last of the batch,   *)
(* and only prepared otherwise.                                            *)
(***************************************************************************)
SetupReceiveQueueEntry(i) ==
  IF batch = Empty THEN Submit(With(prepared, {Recv(i)}))
  ELSE prepared' = With(prepared, {Recv(i)}) /\ UNCHANGED submitted

HandlerReturns ==
  /\ InHandler
  /\ GetQueueEntry
  /\ SetupReceiveQueueEntry(current)
  /\ current' = None
  /\ UNCHANGED <<kernel, cq, batch, used, index, status>>

(* StopReceiver, from any thread.                                          *)
StopReceiver ==
  /\ status = "running"
  /\ status' = "stopped"
  /\ UNCHANGED <<ring, batch, current, used, index>>

(* The steps the loop goes on with.                                        *)
Work ==
  \/ Peek
  \/ \E i \in Slots : Received(i)
  \/ \E k \in 0 .. RecvSize : SendDone(k)
  \/ SendMessage \/ SendMessageFatal \/ HandlerReturns

Next ==
  \/ Work
  \/ WaitFails \/ SendMessageError \/ StopReceiver
  \/ \E r \in Req : Take(r) \/ Complete(r)

Spec == Init /\ [][Next]_vars

(***************************************************************************)
(* The loop runs whenever it can, the kernel thread takes what was         *)
(* submitted, and datagrams go on arriving and leaving.                    *)
(***************************************************************************)
Fairness ==
  /\ WF_vars(Work)
  /\ \A r \in Req : WF_vars(Take(r)) /\ WF_vars(Complete(r))

FairSpec == Spec /\ Fairness

----------------------------------------------------------------------------
Outstanding(r) ==
  prepared[r] + submitted[r] + kernel[r] + cq[r] + batch[r]
    + (IF current # None /\ r = Recv(current) THEN 1 ELSE 0)

TypeOK ==
  /\ {prepared, submitted, kernel, cq, batch} \subseteq Bag
  /\ current \in Slots \cup {None}
  /\ used \in [0 .. RecvSize -> BOOLEAN]
  /\ index \in 0 .. RecvSize
  /\ status \in Status

(***************************************************************************)
(* Every receive request is somewhere in the ring exactly once.  A send    *)
(* request in flight is marked as used and in flight once, so that         *)
(* SetupSendRequest never overwrites a buffer that is still to be sent.    *)
(***************************************************************************)
RequestsKept ==
  /\ \A i \in Slots : Outstanding(Recv(i)) = 1
  /\ \A k \in 0 .. RecvSize :
       /\ Outstanding(Send(k)) <= 1
       /\ Outstanding(Send(k)) = 1 => used[k]

(***************************************************************************)
(* GetQueueEntry never spins forever: a handler that runs is left again.   *)
(* Only submitted entries make room, so this rests on SendMessage and the  *)
(* last re-arming of a batch submitting what was prepared before them.     *)
(***************************************************************************)
SpinEnds == current # None ~> current = None \/ status # "running"

(***************************************************************************)
(* Option-1 of the header's comment: multiple requests are loaded to the   *)
(* queue, then the queue is submitted.  What is prepared gets submitted.   *)
(***************************************************************************)
PreparedIsSubmitted ==
  \A r \in Req : prepared[r] > 0 ~> prepared[r] = 0 \/ status # "running"
=============================================================================
