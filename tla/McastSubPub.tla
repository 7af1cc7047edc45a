---------------------------- MODULE McastSubPub ----------------------------
(***************************************************************************)
(* The multicast repeater src/iouring/mcast/mcast_sub_pub_iouring.cpp:     *)
(* class MulticastReceiver (iouring_msgrecv.hpp) hands every datagram to   *)
(* class MulticastPublisher (iouring_msgsend.hpp), and a second thread     *)
(* waits for the signal that stops the program.                            *)
(*                                                                         *)
(* The publisher does not copy: its request points into the receiver's     *)
(* buffer, and the receiver arms that buffer again as soon as SendMessage  *)
(* returns.  The kernel normally sends within io_uring_submit; when the    *)
(* socket cannot take the datagram it sends later, from whatever the       *)
(* buffer holds then.                                                      *)
(*                                                                         *)
(* The receiver's ring has a kernel thread of its own (SQPOLL), which      *)
(* takes entries from the submission queue some time after they were       *)
(* submitted.  Datagrams are numbered as they arrive.                      *)
(***************************************************************************)
EXTENDS Integers, Sequences, FiniteSets, Functions

CONSTANTS
  Slot,       (* the receiver's requests                                   *)
  QueueSize,  (* entries of its submission queue                           *)
  Last        (* bound: datagrams that arrive                              *)

ASSUME McastAssumption ==
  /\ IsFiniteSet(Slot)
  /\ QueueSize \in Nat \ {0}
  /\ Cardinality(Slot) <= QueueSize
  /\ Last \in Nat

VARIABLES
  queued,     (* per slot, receives the kernel thread has not taken        *)
  armed,      (* per slot, receives the kernel waits in                    *)
  done,       (* the completion queue: slots, the oldest first             *)
  buffer,     (* per slot, the datagram in its buffer, 0 at the start      *)
  arrived,    (* how many datagrams have arrived                           *)
  deferred,   (* sends the kernel put off: slot and datagram meant         *)
  out,        (* what was sent: datagram meant, datagram sent, put off?    *)
  pc,         (* the main thread: "head" and "wait" of StartReceiver's     *)
              (* loop, "outer" for main's loop, "end"                      *)
  receive,    (* _run of the receiver                                      *)
  running     (* running of main()                                         *)

vars == <<queued, armed, done, buffer, arrived, deferred, out, pc, receive,
          running>>

kernelVars == <<armed, done, buffer, arrived>>

Zero == [s \in Slot |-> 0]

Init ==
  /\ queued = [s \in Slot |-> 1]
  /\ armed = Zero
  /\ done = <<>>
  /\ buffer = Zero
  /\ arrived = 0
  /\ deferred = {}
  /\ out = {}
  /\ pc = "head"
  /\ receive = TRUE
  /\ running = TRUE

----------------------------------------------------------------------------
(* The kernel.                                                             *)

(* The kernel thread takes a submitted receive.                            *)
Take(s) ==
  /\ pc # "end"
  /\ queued[s] > 0
  /\ queued' = [queued EXCEPT ![s] = @ - 1]
  /\ armed' = [armed EXCEPT ![s] = @ + 1]
  /\ UNCHANGED <<done, buffer, arrived, deferred, out, pc, receive, running>>

(* A datagram arrives.                                                     *)
Arrive(s) ==
  /\ pc # "end"
  /\ arrived < Last
  /\ armed[s] > 0
  /\ armed' = [armed EXCEPT ![s] = @ - 1]
  /\ arrived' = arrived + 1
  /\ buffer' = [buffer EXCEPT ![s] = arrived + 1]
  /\ done' = Append(done, s)
  /\ UNCHANGED <<queued, deferred, out, pc, receive, running>>

(* A send that was put off happens.                                        *)
SendLater(d) ==
  /\ pc # "end"
  /\ d \in deferred
  /\ deferred' = deferred \ {d}
  /\ out' = out \cup {[meant |-> d.meant, sent |-> buffer[d.slot], late |-> TRUE]}
  /\ UNCHANGED <<queued, kernelVars, pc, receive, running>>

----------------------------------------------------------------------------
(* The main thread.                                                        *)

(* Mutant: the loop does not look at _run.                                 *)
LoopForever ==
  /\ pc = "head"
  /\ pc' = "wait"
  /\ UNCHANGED <<queued, kernelVars, deferred, out, receive, running>>

(* while (_run) of StartReceiver.                                          *)
Loop ==
  /\ pc = "head"
  /\ pc' = IF receive THEN "wait" ELSE "outer"
  /\ UNCHANGED <<queued, kernelVars, deferred, out, receive, running>>

(* while (running) of main().                                              *)
Outer ==
  /\ pc = "outer"
  /\ pc' = IF running THEN "head" ELSE "end"
  /\ UNCHANGED <<queued, kernelVars, deferred, out, receive, running>>

(* The completion is an error: the process exits.                          *)
Fails ==
  /\ pc = "wait"
  /\ pc' = "end"
  /\ UNCHANGED <<queued, kernelVars, deferred, out, receive, running>>

(* Mutant: the request still points to the buffer of an earlier send.      *)
SendMessageStale(s) ==
  \E t \in Slot :
    /\ buffer[t] # 0
    /\ out' = out \cup {[meant |-> buffer[s], sent |-> buffer[t], late |-> FALSE]}
    /\ deferred' = deferred

(* Mutant: the index of the request is not that of the completion.         *)
SendMessageOther(s) ==
  \E t \in Slot \ {s} :
    /\ out' = out \cup {[meant |-> buffer[t], sent |-> buffer[t], late |-> FALSE]}
    /\ deferred' = deferred

(***************************************************************************)
(* Publisher: SendMessage, of the datagram in the buffer of slot s.  That  *)
(* it then takes the completions that wait off its own ring, of which it   *)
(* uses none, is left out.                                                 *)
(***************************************************************************)
SendMessage(s) ==
  \/ /\ out' = out \cup {[meant |-> buffer[s], sent |-> buffer[s], late |-> FALSE]}
     /\ deferred' = deferred
  \/ /\ deferred' = deferred \cup {[slot |-> s, meant |-> buffer[s]]}
     /\ out' = out

(* Mutant: the request is not put back.                                    *)
SetupQueueEntryLost(s) == UNCHANGED queued

(* SetupQueueEntry, with submit.                                           *)
SetupQueueEntry(s) == queued' = [queued EXCEPT ![s] = @ + 1]

(* Mutant: everything in the completion queue is marked as seen.           *)
SeenAll == done' = <<>>

(* io_uring_cqe_seen                                                       *)
Seen == done' = Tail(done)

(***************************************************************************)
(* io_uring_wait_cqe returns the oldest completion; it is marked as seen,  *)
(* its datagram handed to the publisher and its slot armed again.          *)
(***************************************************************************)
Handle ==
  /\ pc = "wait"
  /\ done # <<>>
  /\ Seen
  /\ SendMessage(Head(done))
  /\ SetupQueueEntry(Head(done))
  /\ pc' = "head"
  /\ UNCHANGED <<armed, buffer, arrived, receive, running>>

(* The steps it goes on with.                                              *)
Main == Loop \/ Outer \/ Handle

----------------------------------------------------------------------------
(* The thread of the signal handler.                                       *)

(* StopReceiver.                                                           *)
StopReceiver ==
  /\ pc # "end"
  /\ receive
  /\ receive' = FALSE
  /\ UNCHANGED <<queued, kernelVars, deferred, out, pc, running>>

(* running = false; the thread ends.                                       *)
StopRunning ==
  /\ pc # "end"
  /\ ~receive
  /\ running
  /\ running' = FALSE
  /\ UNCHANGED <<queued, kernelVars, deferred, out, pc, receive>>

Next ==
  \/ Main
  \/ Fails
  \/ StopReceiver
  \/ StopRunning
  \/ \E s \in Slot : Take(s) \/ Arrive(s)
  \/ \E d \in deferred : SendLater(d)

Spec == Init /\ [][Next]_vars

(***************************************************************************)
(* Both threads run whenever they can, the signal handler once it began,   *)
(* and the kernel thread takes what was submitted.  Datagrams need not     *)
(* arrive and signals need not come.                                       *)
(***************************************************************************)
Fairness ==
  /\ WF_vars(Main)
  /\ WF_vars(StopRunning)
  /\ \A s \in Slot : WF_vars(Take(s))

FairSpec == Spec /\ Fairness

----------------------------------------------------------------------------
Sending == [slot : Slot, meant : 1 .. Last]

Sent == [meant : 1 .. Last, sent : 1 .. Last, late : BOOLEAN]

TypeOK ==
  /\ queued \in [Slot -> Nat]
  /\ armed \in [Slot -> Nat]
  /\ done \in Seq(Slot)
  /\ buffer \in [Slot -> 0 .. Last]
  /\ arrived \in 0 .. Last
  /\ deferred \in SUBSET Sending
  /\ out \in SUBSET Sent
  /\ pc \in {"head", "wait", "outer", "end"}
  /\ receive \in BOOLEAN
  /\ running \in BOOLEAN

(* How often s is in the completion queue.                                 *)
Done(s) == Cardinality({i \in DOMAIN done : done[i] = s})

(***************************************************************************)
(* Every request of the receiver is in flight exactly once, so the         *)
(* receiver never runs out of requests, none is written twice at a time,   *)
(* and io_uring_get_sqe, whose result nobody checks, finds an entry.       *)
(***************************************************************************)
OneOwner == \A s \in Slot : queued[s] + armed[s] + Done(s) = 1

(***************************************************************************)
(* A send that the kernel does not put off carries the datagram that the   *)
(* handler saw; one that it puts off carries that or a later one, and      *)
(* never what the buffer held before.                                      *)
(***************************************************************************)
NeverOlder ==
  /\ \A d \in deferred : buffer[d.slot] >= d.meant
  /\ \A o \in out : IF o.late THEN o.sent >= o.meant ELSE o.sent = o.meant

(***************************************************************************)
(* Datagrams are handed to the publisher in the order of arrival and none  *)
(* is left out: what was handed over is all that arrived before those that *)
(* still wait in the completion queue.  Each carries what NeverOlder says. *)
(***************************************************************************)
InOrder ==
  /\ {o.meant : o \in out} \cup {d.meant : d \in deferred}
       = 1 .. (arrived - Len(done))
  /\ NeverOlder

(* A signal ends the program with the next datagram at the latest.         *)
StopsAtDatagram == ~receive /\ done # <<>> ~> pc = "end"
=============================================================================
