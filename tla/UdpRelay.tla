------------------------------ MODULE UdpRelay ------------------------------
(***************************************************************************)
(* The multicast relay: class iouring::UdpSocket                           *)
(* (src/iouring/framework/UdpSocket.hpp) and main() of UdpSocket.cpp.      *)
(*                                                                         *)
(* Two UdpSockets share the message headers m_datagrams, so the receive    *)
(* request and the send request of a slot use one buffer.  Every slot is   *)
(* armed for receiving; what arrives is sent on from the same buffer, and  *)
(* the slot is armed again when the send is over.                          *)
(*                                                                         *)
(* Datagrams are numbered as they arrive; a buffer holds the number of the *)
(* last one written to it.  The kernel writes a buffer when it finishes a  *)
(* receive and reads one when it finishes a send.                          *)
(***************************************************************************)
EXTENDS IoUring

CONSTANTS
  Slot,       (* the indices of m_datagrams                                *)
  Last        (* bound: datagrams that arrive                              *)

Receive(s) == <<"receive", s>>
Send(s) == <<"send", s>>

(* main() has 64 slots and a queue of 512 entries; with more slots than    *)
(* entries AsyncReceiveAll would end the process before Run() begins.      *)
ASSUME RelayAssumption ==
  /\ Req = {Receive(s) : s \in Slot} \cup {Send(s) : s \in Slot}
  /\ IsFiniteSet(Slot)
  /\ Cardinality(Slot) <= QueueSize
  /\ Last \in Nat

VARIABLES
  buffer,     (* per slot, the datagram in its buffer, 0 at the start      *)
  arrived,    (* how many datagrams have arrived                           *)
  sent        (* per datagram, how often it was sent on                    *)

vars == <<ringVars, buffer, arrived, sent>>

relayVars == <<buffer, arrived, sent>>

(* AsyncReceiveAll prepares a receive for every slot.                      *)
Init ==
  /\ RingInit({Receive(s) : s \in Slot})
  /\ buffer = [s \in Slot |-> 0]
  /\ arrived = 0
  /\ sent = [m \in 1 .. Last |-> 0]

----------------------------------------------------------------------------
(* The kernel.                                                             *)

(* A datagram arrives and is written to the buffer of an armed slot.       *)
Arrive(s) ==
  /\ arrived < Last
  /\ Complete(Receive(s))
  /\ arrived' = arrived + 1
  /\ buffer' = [buffer EXCEPT ![s] = arrived + 1]
  /\ UNCHANGED sent

(* What the buffer of a slot holds is sent.                                *)
SendOn(s) ==
  /\ Complete(Send(s))
  /\ sent' = [m \in 1 .. Last |->
                IF m = buffer[s] THEN sent[m] + 1 ELSE sent[m]]
  /\ UNCHANGED <<buffer, arrived>>

----------------------------------------------------------------------------
(* The callbacks.                                                          *)

(* Mutant: the callback drops the datagram.                                *)
ReceivedDrops(s) ==
  /\ Dispatch(Receive(s))
  /\ Issue({}, FALSE, {Receive(s)})
  /\ UNCHANGED <<cq, run, relayVars>>

(* recvMessageHandler.                                                     *)
Received(s) ==
  /\ Dispatch(Receive(s))
  /\ Issue({}, FALSE, {Send(s)})
  /\ UNCHANGED <<cq, run, relayVars>>

(* Mutant: the callback of a send sends once more.                         *)
SentResends(s) ==
  /\ Dispatch(Send(s))
  /\ Issue({}, FALSE, {Send(s)})
  /\ UNCHANGED <<cq, run, relayVars>>

(* Mutant: the slot is not armed again.                                    *)
SentForgets(s) ==
  /\ Dispatch(Send(s))
  /\ UNCHANGED <<sq, sqLen, kernel, pending, status, cq, run, relayVars>>

(* sendMessageHandler.                                                     *)
Sent(s) ==
  /\ Dispatch(Send(s))
  /\ Issue({}, FALSE, {Receive(s)})
  /\ UNCHANGED <<cq, run, relayVars>>

Loop == LoopNext /\ UNCHANGED relayVars

Fails(r) == DispatchError(r) /\ UNCHANGED relayVars

Handle ==
  \/ \E r \in Req : Fails(r)
  \/ \E s \in Slot : Received(s) \/ Sent(s)

Next ==
  \/ Loop
  \/ Handle
  \/ \E s \in Slot : Arrive(s) \/ SendOn(s)

Spec == Init /\ [][Next]_vars

(* The loop runs whenever it can and the kernel finishes every send.       *)
Fairness ==
  /\ WF_vars(LoopStep /\ UNCHANGED relayVars)
  /\ WF_vars(Handle)
  /\ \A s \in Slot : WF_vars(SendOn(s))

FairSpec == Spec /\ Fairness

----------------------------------------------------------------------------
Turn(s) == Outstanding(Receive(s)) + Outstanding(Send(s))

TypeOK ==
  /\ RingTypeOK
  /\ buffer \in [Slot -> 0 .. Last]
  /\ arrived \in 0 .. Last
  /\ sent \in [1 .. Last -> 0 .. 1]

(***************************************************************************)
(* A slot's buffer belongs to exactly one operation, its receive or its    *)
(* send: the kernel never writes a buffer that waits to be sent, and no    *)
(* slot drops out of service.  The submission queue is therefore never     *)
(* full, though sends and receives share it.                               *)
(***************************************************************************)
OneOwner ==
  /\ \A s \in Slot : Turn(s) <= 1
  /\ status = "running" => \A s \in Slot : Turn(s) = 1
  /\ status # "sq_full"

(* The slots whose buffer still waits to be sent on.                       *)
Waiting(s) ==
  cq[Receive(s)] + batch[Receive(s)]
    + sq[Send(s)] + kernel[Send(s)] > 0

(***************************************************************************)
(* Every datagram that arrived was sent on exactly once or waits in        *)
(* exactly one slot to be sent on: none is lost, repeated or overwritten   *)
(* while the relay runs.                                                   *)
(***************************************************************************)
NoneLost ==
  status = "running" =>
    \A m \in 1 .. Last :
      sent[m] + Cardinality({s \in Slot : buffer[s] = m /\ Waiting(s)})
        = IF m <= arrived THEN 1 ELSE 0

(* Every datagram that arrives is sent on unless the process ends.         *)
Relayed ==
  \A m \in 1 .. Last : arrived >= m ~> sent[m] > 0 \/ status # "running"
=============================================================================
