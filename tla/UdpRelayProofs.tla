--------------------------- MODULE UdpRelayProofs ---------------------------
(***************************************************************************)
(* The safety properties of UdpRelay for every number of slots and every   *)
(* queue that has an entry for each of them.                               *)
(*                                                                         *)
(* That the queue is never full needs that its entries are those of        *)
(* different slots, hence OneOwner; that a step moves a slot's only        *)
(* operation, and no second one appears, needs that the queue is not full; *)
(* NoneLost needs both.  RInv is their conjunction.                        *)
(***************************************************************************)
EXTENDS UdpRelay, FiniteSetTheorems, TLAPS

(* The slots with an entry in the submission queue.                        *)
Queued == {s \in Slot : sq[Receive(s)] + sq[Send(s)] > 0}

(* The slots in which datagram m waits to be sent on.                      *)
Holding(m) == {s \in Slot : buffer[s] = m /\ Waiting(s)}

RInv ==
  /\ TypeOK
  /\ run
  /\ OneOwner
  /\ sqLen = Cardinality(Queued)
  /\ NoneLost

----------------------------------------------------------------------------
(* Each slot has a receive and a send request of its own.                  *)
LEMMA RequestFacts ==
  /\ \A s \in Slot : Receive(s) \in Req /\ Send(s) \in Req
  /\ \A s, t \in Slot : Receive(s) # Send(t)
  /\ \A s, t \in Slot : s # t => Receive(s) # Receive(t) /\ Send(s) # Send(t)
<1>1. \A s \in Slot : Receive(s) \in Req /\ Send(s) \in Req
  BY RelayAssumption
<1>2. \A s, t \in Slot : Receive(s) # Send(t)
  BY DEF Receive, Send
<1>3. \A s, t \in Slot : s # t => Receive(s) # Receive(t) /\ Send(s) # Send(t)
  BY DEF Receive, Send
<1>. QED  BY <1>1, <1>2, <1>3

(* The queues are bags.                                                    *)
LEMMA BagFacts ==
  ASSUME RingTypeOK
  PROVE  /\ sq \in [Req -> Nat] /\ kernel \in [Req -> Nat]
         /\ cq \in [Req -> Nat] /\ batch \in [Req -> Nat]
         /\ sqLen \in Nat
BY RingAssumption DEF RingTypeOK, Bag

(* Where the only operation of a slot is, its other counters are zero.     *)
LEMMA SlotFacts ==
  ASSUME RInv, status = "running", NEW s \in Slot
  PROVE  LET R == Receive(s)
             S == Send(s)
         IN /\ kernel[R] > 0 =>
                 /\ kernel[R] = 1 /\ sq[R] = 0 /\ cq[R] = 0 /\ batch[R] = 0
                 /\ sq[S] = 0 /\ kernel[S] = 0 /\ cq[S] = 0 /\ batch[S] = 0
            /\ batch[R] > 0 =>
                 /\ batch[R] = 1 /\ sq[R] = 0 /\ kernel[R] = 0 /\ cq[R] = 0
                 /\ sq[S] = 0 /\ kernel[S] = 0 /\ cq[S] = 0 /\ batch[S] = 0
            /\ kernel[S] > 0 =>
                 /\ kernel[S] = 1 /\ sq[R] = 0 /\ kernel[R] = 0 /\ cq[R] = 0
                 /\ batch[R] = 0 /\ sq[S] = 0 /\ cq[S] = 0 /\ batch[S] = 0
            /\ batch[S] > 0 =>
                 /\ batch[S] = 1 /\ sq[R] = 0 /\ kernel[R] = 0 /\ cq[R] = 0
                 /\ batch[R] = 0 /\ sq[S] = 0 /\ kernel[S] = 0 /\ cq[S] = 0
<1> DEFINE a == sq[Receive(s)]
           b == kernel[Receive(s)]
           c == cq[Receive(s)]
           d == batch[Receive(s)]
           e == sq[Send(s)]
           f == kernel[Send(s)]
           g == cq[Send(s)]
           h == batch[Send(s)]
<1>1. /\ a \in Nat /\ b \in Nat /\ c \in Nat /\ d \in Nat
      /\ e \in Nat /\ f \in Nat /\ g \in Nat /\ h \in Nat
  BY BagFacts, RequestFacts DEF RInv, TypeOK
<1>2. a + b + c + d + (e + f + g + h) = 1
  BY DEF RInv, OneOwner, Turn, Outstanding
<1> HIDE DEF a, b, c, d, e, f, g, h
<1>3. /\ b > 0 => /\ b = 1 /\ a = 0 /\ c = 0 /\ d = 0
                  /\ e = 0 /\ f = 0 /\ g = 0 /\ h = 0
      /\ d > 0 => /\ d = 1 /\ a = 0 /\ b = 0 /\ c = 0
                  /\ e = 0 /\ f = 0 /\ g = 0 /\ h = 0
      /\ f > 0 => /\ f = 1 /\ a = 0 /\ b = 0 /\ c = 0 /\ d = 0
                  /\ e = 0 /\ g = 0 /\ h = 0
      /\ h > 0 => /\ h = 1 /\ a = 0 /\ b = 0 /\ c = 0 /\ d = 0
                  /\ e = 0 /\ f = 0 /\ g = 0
  BY <1>1, <1>2
<1>. QED  BY <1>3 DEF a, b, c, d, e, f, g, h

----------------------------------------------------------------------------
(***************************************************************************)
(* A step of the running relay that leaves every slot's operation in its   *)
(* share of the ring and nothing but that is changed.                      *)
(***************************************************************************)
LEMMA QuietStep ==
  ASSUME RInv, status = "running", status' = "running", RingTypeOK',
         sqLen' = Cardinality(Queued'), UNCHANGED <<run, buffer, arrived, sent>>,
         \A s \in Slot : Turn(s)' = Turn(s) /\ Waiting(s)' = Waiting(s)
  PROVE  RInv'
<1>1. TypeOK'
  BY DEF RInv, TypeOK
<1>2. OneOwner'
  BY DEF RInv, OneOwner
<1>3. \A m \in 1 .. Last :
        {s \in Slot : buffer[s] = m /\ Waiting(s)}'
          = {s \in Slot : buffer[s] = m /\ Waiting(s)}
  OBVIOUS
<1>4. NoneLost'
  BY <1>3 DEF RInv, NoneLost
<1>. QED  BY <1>1, <1>2, <1>4 DEF RInv

(* The process exits with an error that is not a full queue.               *)
LEMMA ExitStep ==
  ASSUME RInv, status' = "io_error",
         UNCHANGED <<sq, sqLen, kernel, cq, batch, pending, run>>,
         UNCHANGED <<buffer, arrived, sent>>
  PROVE  RInv'
<1>1. TypeOK'
  BY DEF RInv, TypeOK, RingTypeOK, Status
<1>2. \A s \in Slot : Turn(s)' = Turn(s)
  BY DEF Turn, Outstanding
<1>3. OneOwner'
  BY <1>2 DEF RInv, OneOwner
<1>4. Queued' = Queued
  BY DEF Queued
<1>5. NoneLost'
  BY DEF NoneLost
<1>. QED  BY <1>1, <1>3, <1>4, <1>5 DEF RInv

----------------------------------------------------------------------------
(* The initial state: a receive is prepared for every slot.                *)
LEMMA InitRInv == Init => RInv
<1> SUFFICES ASSUME Init PROVE RInv
  OBVIOUS
<1> USE RequestFacts, RelayAssumption, RingAssumption
<1> DEFINE Prepared == {Receive(s) : s \in Slot}
<1>1. /\ sq = With(Empty, Prepared) /\ sqLen = Cardinality(Prepared)
      /\ kernel = Empty /\ cq = Empty /\ batch = Empty
      /\ pending = (Prepared # {}) /\ run = TRUE /\ status = "running"
      /\ buffer = [s \in Slot |-> 0] /\ arrived = 0
      /\ sent = [m \in 1 .. Last |-> 0]
  BY DEF Init, RingInit
<1>2. Cardinality(Prepared) = Cardinality(Slot)
  <2> DEFINE f == [s \in Slot |-> Receive(s)]
  <2>1. f \in Bijection(Slot, Prepared)
    BY DEF Bijection, Injection, Surjection, IsInjective
  <2>2. ExistsBijection(Slot, Prepared)
    BY <2>1 DEF ExistsBijection
  <2>. QED  BY <2>2, FS_Bijection
<1>3. sqLen \in 0 .. QueueSize
  BY <1>1, <1>2, FS_CardinalityType
<1>4. /\ \A s \in Slot : sq[Receive(s)] = 1 /\ sq[Send(s)] = 0
      /\ sq \in [Req -> Nat]
  BY <1>1 DEF With, Empty
<1>5. /\ kernel \in [Req -> Nat] /\ cq \in [Req -> Nat] /\ batch \in [Req -> Nat]
      /\ \A r \in Req : kernel[r] = 0 /\ cq[r] = 0 /\ batch[r] = 0
  BY <1>1 DEF Empty
<1>6. TypeOK
  BY <1>1, <1>3, <1>4, <1>5 DEF TypeOK, RingTypeOK, Bag, Status
<1>7. \A s \in Slot : Turn(s) = 1 /\ ~Waiting(s)
  BY <1>4, <1>5 DEF Turn, Outstanding, Waiting
<1>8. OneOwner
  BY <1>1, <1>7 DEF OneOwner
<1>9. Queued = Slot
  BY <1>4 DEF Queued
<1>10. NoneLost
  <2>1. \A m \in 1 .. Last : {s \in Slot : buffer[s] = m /\ Waiting(s)} = {}
    BY <1>7
  <2>2. \A m \in 1 .. Last : sent[m] = 0 /\ ~(m <= arrived)
    BY <1>1
  <2>. QED  BY <2>1, <2>2, FS_EmptySet DEF NoneLost
<1>. QED  BY <1>1, <1>2, <1>6, <1>8, <1>9, <1>10 DEF RInv

----------------------------------------------------------------------------
(***************************************************************************)
(* The loop's steps: what is in the queue goes to the kernel, what is in   *)
(* the completion queue to the batch; nothing unmaps the ring.             *)
(***************************************************************************)
LEMMA LoopKeeps ==
  ASSUME RInv, Loop
  PROVE  RInv'
<1> USE RequestFacts
<1>1. UNCHANGED <<buffer, arrived, sent>>
  BY DEF Loop, relayVars
<1>2. /\ sq \in [Req -> Nat] /\ kernel \in [Req -> Nat]
      /\ cq \in [Req -> Nat] /\ batch \in [Req -> Nat]
      /\ sqLen = Cardinality(Queued) /\ run
      /\ sqLen \in 0 .. QueueSize /\ pending \in BOOLEAN
  BY BagFacts DEF RInv, TypeOK, RingTypeOK
<1>3. CASE LoopSubmit
  <2>1. /\ status = "running" /\ kernel' = Plus(kernel, sq) /\ sq' = Empty
        /\ sqLen' = 0 /\ pending' = FALSE /\ UNCHANGED <<cq, batch, run, status>>
    BY <1>3 DEF LoopSubmit, LoopHead
  <2>2. /\ kernel' \in [Req -> Nat] /\ sq' \in [Req -> Nat]
        /\ \A r \in Req : sq'[r] = 0 /\ kernel'[r] = kernel[r] + sq[r]
    BY <1>2, <2>1 DEF Plus, Empty
  <2>3. RingTypeOK'
    <3>1. sqLen' \in 0 .. QueueSize
      BY <2>1, RingAssumption
    <3>. QED
      BY <1>2, <2>1, <2>2, <3>1 DEF RInv, TypeOK, RingTypeOK, Bag
  <2>4. Queued' = {}
    BY <2>2 DEF Queued
  <2>5. sqLen' = Cardinality(Queued')
    BY <2>1, <2>4, FS_EmptySet
  <2>6. \A r \in Req : Outstanding(r)' = Outstanding(r)
    BY <1>2, <2>1, <2>2 DEF Outstanding
  <2>7. \A s \in Slot : Turn(s)' = Turn(s)
    BY <2>6 DEF Turn
  <2>8. \A s \in Slot : Waiting(s)' = Waiting(s)
    BY <1>2, <2>1, <2>2 DEF Waiting
  <2>. QED  BY <1>1, <2>1, <2>3, <2>5, <2>7, <2>8, QuietStep
<1>4. CASE LoopPeek
  <2>1. /\ status = "running" /\ batch = Empty
        /\ cq' = [r \in Req |-> cq[r] - batch'[r]]
        /\ batch' \in Batches(cq, QueueSize)
        /\ UNCHANGED <<sq, sqLen, kernel, pending, run, status>>
    BY <1>4 DEF LoopPeek, LoopHead, Minus
  <2>2. batch' \in [Req -> Nat] /\ \A r \in Req : batch'[r] <= cq[r]
    BY <1>2, <2>1 DEF Batches
  <2>3. /\ cq' \in [Req -> Nat]
        /\ \A r \in Req : batch[r] = 0 /\ cq'[r] + batch'[r] = cq[r]
    BY <1>2, <2>1, <2>2 DEF Empty
  <2>4. RingTypeOK'
    BY <2>1, <2>2, <2>3 DEF RInv, TypeOK, RingTypeOK, Bag
  <2>5. Queued' = Queued
    BY <2>1 DEF Queued
  <2>6. \A r \in Req : Outstanding(r)' = Outstanding(r)
    BY <1>2, <2>1, <2>2, <2>3 DEF Outstanding
  <2>7. \A s \in Slot : Turn(s)' = Turn(s)
    BY <2>6 DEF Turn
  <2>8. \A s \in Slot : Waiting(s)' = Waiting(s)
    BY <1>2, <2>1, <2>2, <2>3 DEF Waiting
  <2>. QED  BY <1>1, <1>2, <2>1, <2>4, <2>5, <2>7, <2>8, QuietStep
<1>5. CASE LoopWaitFails
  BY <1>1, <1>5, ExitStep DEF LoopWaitFails
<1>6. ~LoopDone /\ ~DispatchUnmapped
  BY <1>2 DEF LoopDone, DispatchUnmapped
<1>. QED  BY <1>3, <1>4, <1>5, <1>6 DEF Loop, LoopNext, LoopStep

LEMMA FailsStep ==
  ASSUME RInv, NEW r \in Req, Fails(r)
  PROVE  RInv'
BY ExitStep DEF Fails, DispatchError, relayVars

----------------------------------------------------------------------------
(* The callbacks.                                                          *)

(* With room in the queue a callback that prepares one request prepares it.*)
LEMMA IssueOne ==
  ASSUME RingTypeOK, NEW r \in Req, Issue({}, FALSE, {r}), sqLen + 1 <= QueueSize
  PROVE  /\ sq' = [q \in Req |-> IF q = r THEN sq[q] + 1 ELSE sq[q]]
         /\ sqLen' = sqLen + 1
         /\ pending' = TRUE
         /\ UNCHANGED <<kernel, status>>
<1>1. Cardinality({}) = 0 /\ Cardinality({r}) = 1
  BY FS_EmptySet, FS_Singleton
<1>2. sqLen \in Nat /\ QueueSize \in Nat /\ sq \in [Req -> Nat]
  BY BagFacts, RingAssumption
<1>3. ~QueueFull({}, FALSE, {r})
  BY <1>1, <1>2 DEF QueueFull
<1>4. /\ sq' = With(With(sq, {}), {r})
      /\ kernel' = kernel
      /\ sqLen' = (sqLen + Cardinality({})) + Cardinality({r})
      /\ pending' = ({r} # {} \/ (~FALSE /\ (pending \/ {} # {})))
      /\ status' = status
  BY <1>3, Zenon DEF Issue
<1>5. pending' = TRUE
  <2>1. {r} # {}
    OBVIOUS
  <2>. QED  BY <1>4, <2>1, Zenon
<1>6. With(With(sq, {}), {r}) = [q \in Req |-> IF q = r THEN sq[q] + 1 ELSE sq[q]]
  BY DEF With
<1>. QED  BY <1>1, <1>2, <1>4, <1>5, <1>6

(***************************************************************************)
(* A callback runs for slot s: no other operation of s is in the ring, so  *)
(* the entries in the queue are those of other slots and there is room.    *)
(***************************************************************************)
LEMMA QueueHasRoom ==
  ASSUME RInv, NEW s \in Slot, sq[Receive(s)] = 0, sq[Send(s)] = 0
  PROVE  /\ s \notin Queued
         /\ sqLen + 1 <= QueueSize
         /\ IsFiniteSet(Queued)
<1>1. s \notin Queued
  BY DEF Queued
<1>2. IsFiniteSet(Slot) /\ Cardinality(Slot) \in Nat /\ Cardinality(Slot) <= QueueSize
  BY RelayAssumption, FS_CardinalityType
<1>3. /\ IsFiniteSet(Slot \ {s}) /\ Cardinality(Slot \ {s}) = Cardinality(Slot) - 1
  BY <1>2, FS_RemoveElement
<1>4. Queued \in SUBSET (Slot \ {s})
  BY <1>1 DEF Queued
<1>5. IsFiniteSet(Queued) /\ Cardinality(Queued) <= Cardinality(Slot \ {s})
  BY <1>3, <1>4, FS_Subset
<1>. QED
  BY <1>1, <1>2, <1>3, <1>5, FS_CardinalityType, RingAssumption DEF RInv

(* recvMessageHandler: the datagram waits in the slot all the same.        *)
LEMMA ReceivedStep ==
  ASSUME RInv, NEW s \in Slot, Received(s)
  PROVE  RInv'
<1> USE RequestFacts
<1>1. /\ status = "running" /\ batch[Receive(s)] > 0
      /\ batch' = [batch EXCEPT ![Receive(s)] = @ - 1]
      /\ Issue({}, FALSE, {Send(s)})
      /\ UNCHANGED <<cq, run, buffer, arrived, sent>>
  BY DEF Received, Dispatch, AtCompletion, Without, relayVars
<1>2. /\ batch[Receive(s)] = 1 /\ sq[Receive(s)] = 0 /\ kernel[Receive(s)] = 0
      /\ cq[Receive(s)] = 0 /\ sq[Send(s)] = 0 /\ kernel[Send(s)] = 0
      /\ cq[Send(s)] = 0 /\ batch[Send(s)] = 0
  BY <1>1, SlotFacts
<1>3. s \notin Queued /\ sqLen + 1 <= QueueSize /\ IsFiniteSet(Queued)
  BY <1>2, QueueHasRoom
<1>4. /\ sq' = [q \in Req |-> IF q = Send(s) THEN sq[q] + 1 ELSE sq[q]]
      /\ sqLen' = sqLen + 1 /\ pending' = TRUE /\ UNCHANGED <<kernel, status>>
  BY <1>1, <1>3, IssueOne DEF RInv, TypeOK
<1>5. /\ sq \in [Req -> Nat] /\ kernel \in [Req -> Nat]
      /\ cq \in [Req -> Nat] /\ batch \in [Req -> Nat]
      /\ sqLen = Cardinality(Queued) /\ sqLen \in Nat
  BY BagFacts DEF RInv, TypeOK
<1>6. sq' \in [Req -> Nat] /\ batch' \in [Req -> Nat]
  BY <1>1, <1>2, <1>4, <1>5
<1>7. RingTypeOK'
  <2>1. sqLen' \in 0 .. QueueSize
    BY <1>3, <1>4, <1>5, RingAssumption
  <2>. QED
    BY <1>1, <1>4, <1>6, <2>1 DEF RInv, TypeOK, RingTypeOK, Bag
<1>8. /\ sq'[Send(s)] = 1 /\ batch'[Receive(s)] = 0
      /\ sq'[Receive(s)] = 0 /\ batch'[Send(s)] = 0
  BY <1>1, <1>2, <1>4, <1>5
<1>9. \A t \in Slot \ {s} :
        /\ sq'[Receive(t)] = sq[Receive(t)] /\ sq'[Send(t)] = sq[Send(t)]
        /\ batch'[Receive(t)] = batch[Receive(t)] /\ batch'[Send(t)] = batch[Send(t)]
  BY <1>1, <1>4, <1>5
<1>10. Queued' = Queued \cup {s}
  BY <1>8, <1>9 DEF Queued
<1>11. sqLen' = Cardinality(Queued')
  BY <1>3, <1>4, <1>5, <1>10, FS_AddElement
<1>12. \A t \in Slot : Turn(t)' = Turn(t) /\ Waiting(t)' = Waiting(t)
  <2>1. Turn(s)' = Turn(s) /\ Waiting(s)' = Waiting(s)
    BY <1>1, <1>2, <1>4, <1>8 DEF Turn, Outstanding, Waiting
  <2>2. \A t \in Slot \ {s} : Turn(t)' = Turn(t) /\ Waiting(t)' = Waiting(t)
    BY <1>1, <1>4, <1>9 DEF Turn, Outstanding, Waiting
  <2>. QED  BY <2>1, <2>2
<1>. QED  BY <1>1, <1>4, <1>7, <1>11, <1>12, QuietStep

(* sendMessageHandler: the slot is armed again.                            *)
LEMMA SentStep ==
  ASSUME RInv, NEW s \in Slot, Sent(s)
  PROVE  RInv'
<1> USE RequestFacts
<1>1. /\ status = "running" /\ batch[Send(s)] > 0
      /\ batch' = [batch EXCEPT ![Send(s)] = @ - 1]
      /\ Issue({}, FALSE, {Receive(s)})
      /\ UNCHANGED <<cq, run, buffer, arrived, sent>>
  BY DEF Sent, Dispatch, AtCompletion, Without, relayVars
<1>2. /\ batch[Send(s)] = 1 /\ sq[Receive(s)] = 0 /\ kernel[Receive(s)] = 0
      /\ cq[Receive(s)] = 0 /\ sq[Send(s)] = 0 /\ kernel[Send(s)] = 0
      /\ cq[Send(s)] = 0 /\ batch[Receive(s)] = 0
  BY <1>1, SlotFacts
<1>3. s \notin Queued /\ sqLen + 1 <= QueueSize /\ IsFiniteSet(Queued)
  BY <1>2, QueueHasRoom
<1>4. /\ sq' = [q \in Req |-> IF q = Receive(s) THEN sq[q] + 1 ELSE sq[q]]
      /\ sqLen' = sqLen + 1 /\ pending' = TRUE /\ UNCHANGED <<kernel, status>>
  BY <1>1, <1>3, IssueOne DEF RInv, TypeOK
<1>5. /\ sq \in [Req -> Nat] /\ kernel \in [Req -> Nat]
      /\ cq \in [Req -> Nat] /\ batch \in [Req -> Nat]
      /\ sqLen = Cardinality(Queued) /\ sqLen \in Nat
  BY BagFacts DEF RInv, TypeOK
<1>6. sq' \in [Req -> Nat] /\ batch' \in [Req -> Nat]
  BY <1>1, <1>2, <1>4, <1>5
<1>7. RingTypeOK'
  <2>1. sqLen' \in 0 .. QueueSize
    BY <1>3, <1>4, <1>5, RingAssumption
  <2>. QED
    BY <1>1, <1>4, <1>6, <2>1 DEF RInv, TypeOK, RingTypeOK, Bag
<1>8. /\ sq'[Receive(s)] = 1 /\ batch'[Send(s)] = 0
      /\ sq'[Send(s)] = 0 /\ batch'[Receive(s)] = 0
  BY <1>1, <1>2, <1>4, <1>5
<1>9. \A t \in Slot \ {s} :
        /\ sq'[Receive(t)] = sq[Receive(t)] /\ sq'[Send(t)] = sq[Send(t)]
        /\ batch'[Receive(t)] = batch[Receive(t)] /\ batch'[Send(t)] = batch[Send(t)]
  BY <1>1, <1>4, <1>5
<1>10. Queued' = Queued \cup {s}
  BY <1>8, <1>9 DEF Queued
<1>11. sqLen' = Cardinality(Queued')
  BY <1>3, <1>4, <1>5, <1>10, FS_AddElement
<1>12. \A t \in Slot : Turn(t)' = Turn(t) /\ Waiting(t)' = Waiting(t)
  <2>1. Turn(s)' = Turn(s) /\ Waiting(s)' = Waiting(s)
    BY <1>1, <1>2, <1>4, <1>8 DEF Turn, Outstanding, Waiting
  <2>2. \A t \in Slot \ {s} : Turn(t)' = Turn(t) /\ Waiting(t)' = Waiting(t)
    BY <1>1, <1>4, <1>9 DEF Turn, Outstanding, Waiting
  <2>. QED  BY <2>1, <2>2
<1>. QED  BY <1>1, <1>4, <1>7, <1>11, <1>12, QuietStep

----------------------------------------------------------------------------
(* The kernel.                                                             *)

(* An operation of r is finished: the ring's part.                         *)
LEMMA CompleteFacts ==
  ASSUME RInv, NEW r \in Req, Complete(r)
  PROVE  /\ status = "running" /\ kernel[r] > 0
         /\ \A q \in Req : /\ kernel'[q] = IF q = r THEN kernel[q] - 1 ELSE kernel[q]
                           /\ cq'[q] = IF q = r THEN cq[q] + 1 ELSE cq[q]
         /\ UNCHANGED <<sq, sqLen, batch, pending, run, status>>
         /\ RingTypeOK'
         /\ Queued' = Queued
         /\ \A s \in Slot : Turn(s)' = Turn(s)
<1> USE RequestFacts
<1>1. /\ status = "running" /\ kernel[r] > 0
      /\ kernel' = [kernel EXCEPT ![r] = @ - 1]
      /\ cq' = [q \in Req |-> IF q \in {r} THEN cq[q] + 1 ELSE cq[q]]
      /\ UNCHANGED <<sq, sqLen, batch, pending, run, status>>
  BY DEF Complete, Without, With
<1>2. /\ sq \in [Req -> Nat] /\ kernel \in [Req -> Nat]
      /\ cq \in [Req -> Nat] /\ batch \in [Req -> Nat]
  BY BagFacts DEF RInv, TypeOK
<1>3. \A q \in Req : /\ kernel'[q] = IF q = r THEN kernel[q] - 1 ELSE kernel[q]
                     /\ cq'[q] = IF q = r THEN cq[q] + 1 ELSE cq[q]
  BY <1>1, <1>2
<1>4. kernel' \in [Req -> Nat] /\ cq' \in [Req -> Nat]
  BY <1>1, <1>2
<1>5. RingTypeOK'
  BY <1>1, <1>4 DEF RInv, TypeOK, RingTypeOK, Bag
<1>6. Queued' = Queued
  BY <1>1 DEF Queued
<1>7. \A q \in Req : Outstanding(q)' = Outstanding(q)
  BY <1>1, <1>2, <1>3 DEF Outstanding
<1>8. \A s \in Slot : Turn(s)' = Turn(s)
  BY <1>7 DEF Turn
<1>. QED  BY <1>1, <1>3, <1>5, <1>6, <1>8

(* What NoneLost says of a datagram, with the set of slots named.          *)
LEMMA HoldingFacts ==
  ASSUME RInv, status = "running", NEW m \in 1 .. Last
  PROVE  /\ sent[m] \in 0 .. 1
         /\ IsFiniteSet(Holding(m)) /\ Cardinality(Holding(m)) \in Nat
         /\ sent[m] + Cardinality(Holding(m)) = IF m <= arrived THEN 1 ELSE 0
<1>1. IsFiniteSet(Holding(m))
  BY RelayAssumption, FS_Subset DEF Holding
<1>. QED
  BY <1>1, FS_CardinalityType DEF RInv, TypeOK, NoneLost, Holding

(***************************************************************************)
(* A datagram arrives in an armed slot, which held none that is waiting:   *)
(* none is overwritten, and the new one waits in that slot alone.          *)
(***************************************************************************)
LEMMA ArriveStep ==
  ASSUME RInv, NEW s \in Slot, Arrive(s)
  PROVE  RInv'
<1> USE RequestFacts
<1>1. /\ arrived < Last /\ Complete(Receive(s)) /\ arrived' = arrived + 1
      /\ buffer' = [buffer EXCEPT ![s] = arrived + 1] /\ sent' = sent
  BY DEF Arrive
<1>2. /\ status = "running" /\ kernel[Receive(s)] > 0
      /\ \A q \in Req :
           /\ kernel'[q] = IF q = Receive(s) THEN kernel[q] - 1 ELSE kernel[q]
           /\ cq'[q] = IF q = Receive(s) THEN cq[q] + 1 ELSE cq[q]
      /\ UNCHANGED <<sq, sqLen, batch, pending, run, status>>
      /\ RingTypeOK' /\ Queued' = Queued
      /\ \A t \in Slot : Turn(t)' = Turn(t)
  BY <1>1, CompleteFacts
<1>3. /\ cq[Receive(s)] = 0 /\ batch[Receive(s)] = 0
      /\ sq[Send(s)] = 0 /\ kernel[Send(s)] = 0
  BY <1>2, SlotFacts
<1>4. ~Waiting(s) /\ Waiting(s)'
  BY <1>2, <1>3 DEF Waiting
<1>5. \A t \in Slot \ {s} : Waiting(t)' = Waiting(t)
  BY <1>2 DEF Waiting
<1>6. /\ buffer \in [Slot -> 0 .. Last] /\ arrived \in 0 .. Last
      /\ sent \in [1 .. Last -> 0 .. 1] /\ Last \in Nat
  BY RelayAssumption DEF RInv, TypeOK
<1>7. /\ buffer'[s] = arrived + 1
      /\ \A t \in Slot \ {s} : buffer'[t] = buffer[t]
      /\ buffer' \in [Slot -> 0 .. Last] /\ arrived' \in 0 .. Last
  BY <1>1, <1>6
<1>8. TypeOK'
  BY <1>1, <1>2, <1>6, <1>7 DEF TypeOK
<1>9. OneOwner'
  BY <1>2 DEF RInv, OneOwner
<1>10. ASSUME NEW m \in 1 .. Last
       PROVE  sent'[m] + Cardinality(Holding(m)') = IF m <= arrived' THEN 1 ELSE 0
  <2>1. CASE m = arrived + 1
    <3>1. sent[m] = 0 /\ Holding(m) = {}
      <4>1. sent[m] + Cardinality(Holding(m)) = 0
        BY <1>2, <1>6, <2>1, HoldingFacts
      <4>2. sent[m] = 0 /\ Cardinality(Holding(m)) = 0
        BY <1>2, <4>1, HoldingFacts
      <4>. QED  BY <1>2, <4>2, HoldingFacts, FS_EmptySet
    <3>2. Holding(m)' = {s}
      BY <1>4, <1>5, <1>7, <2>1, <3>1 DEF Holding
    <3>3. Cardinality(Holding(m)') = 1
      BY <3>2, FS_Singleton
    <3>. QED  BY <1>1, <1>6, <2>1, <3>1, <3>3
  <2>2. CASE m # arrived + 1
    <3>1. Holding(m)' = Holding(m)
      BY <1>4, <1>5, <1>7, <2>2 DEF Holding
    <3>2. m <= arrived' <=> m <= arrived
      BY <1>1, <1>6, <2>2
    <3>. QED  BY <1>1, <1>2, <3>1, <3>2, HoldingFacts
  <2>. QED  BY <2>1, <2>2
<1>11. NoneLost'
  BY <1>10 DEF NoneLost, Holding
<1>. QED  BY <1>2, <1>8, <1>9, <1>11 DEF RInv

(***************************************************************************)
(* The datagram in the buffer of s is sent: it was waiting in s and waits  *)
(* no longer, so it was not sent before and nobody will send it again.     *)
(***************************************************************************)
LEMMA SendOnStep ==
  ASSUME RInv, NEW s \in Slot, SendOn(s)
  PROVE  RInv'
<1> USE RequestFacts
<1>1. /\ Complete(Send(s)) /\ UNCHANGED <<buffer, arrived>>
      /\ sent' = [m \in 1 .. Last |->
                    IF m = buffer[s] THEN sent[m] + 1 ELSE sent[m]]
  BY DEF SendOn
<1>2. /\ status = "running" /\ kernel[Send(s)] > 0
      /\ \A q \in Req :
           /\ kernel'[q] = IF q = Send(s) THEN kernel[q] - 1 ELSE kernel[q]
           /\ cq'[q] = IF q = Send(s) THEN cq[q] + 1 ELSE cq[q]
      /\ UNCHANGED <<sq, sqLen, batch, pending, run, status>>
      /\ RingTypeOK' /\ Queued' = Queued
      /\ \A t \in Slot : Turn(t)' = Turn(t)
  BY <1>1, CompleteFacts
<1>3. /\ kernel[Send(s)] = 1 /\ cq[Receive(s)] = 0 /\ batch[Receive(s)] = 0
      /\ sq[Send(s)] = 0
  BY <1>2, SlotFacts
<1>4. Waiting(s) /\ ~Waiting(s)'
  BY <1>2, <1>3 DEF Waiting
<1>5. \A t \in Slot \ {s} : Waiting(t)' = Waiting(t)
  BY <1>2 DEF Waiting
<1>6. /\ buffer \in [Slot -> 0 .. Last] /\ arrived \in 0 .. Last
      /\ sent \in [1 .. Last -> 0 .. 1] /\ Last \in Nat
  BY RelayAssumption DEF RInv, TypeOK
<1>7. ASSUME NEW m \in 1 .. Last
      PROVE  /\ sent'[m] + Cardinality(Holding(m)') = IF m <= arrived THEN 1 ELSE 0
             /\ sent'[m] \in 0 .. 1
  <2>1. /\ sent[m] \in 0 .. 1
        /\ IsFiniteSet(Holding(m)) /\ Cardinality(Holding(m)) \in Nat
        /\ sent[m] + Cardinality(Holding(m)) = IF m <= arrived THEN 1 ELSE 0
    BY <1>2, HoldingFacts
  <2>2. CASE m = buffer[s]
    <3>1. s \in Holding(m)
      BY <1>4, <2>2 DEF Holding
    <3>2. Holding(m)' = Holding(m) \ {s}
      BY <1>1, <1>4, <1>5 DEF Holding
    <3>3. Cardinality(Holding(m)') = Cardinality(Holding(m)) - 1
      BY <2>1, <3>1, <3>2, FS_RemoveElement
    <3>4. Cardinality(Holding(m)) # 0
      BY <2>1, <3>1, FS_EmptySet
    <3>5. sent'[m] = sent[m] + 1
      BY <1>1, <2>2
    <3>. QED  BY <2>1, <3>3, <3>4, <3>5
  <2>3. CASE m # buffer[s]
    <3>1. Holding(m)' = Holding(m)
      BY <1>1, <1>4, <1>5, <2>3 DEF Holding
    <3>2. sent'[m] = sent[m]
      BY <1>1, <2>3
    <3>. QED  BY <2>1, <3>1, <3>2
  <2>. QED  BY <2>2, <2>3
<1>8. sent' \in [1 .. Last -> 0 .. 1]
  <2>1. \A m \in 1 .. Last : sent'[m] \in 0 .. 1
    BY <1>7
  <2>. QED  BY <1>1, <2>1
<1>9. TypeOK'
  BY <1>1, <1>2, <1>6, <1>8 DEF TypeOK
<1>10. OneOwner'
  BY <1>2 DEF RInv, OneOwner
<1>11. NoneLost'
  BY <1>1, <1>7 DEF NoneLost, Holding
<1>. QED  BY <1>2, <1>9, <1>10, <1>11 DEF RInv

----------------------------------------------------------------------------
LEMMA NextStep ==
  ASSUME RInv, [Next]_vars
  PROVE  RInv'
<1>1. CASE Loop
  BY <1>1, LoopKeeps
<1>2. ASSUME NEW r \in Req, Fails(r) PROVE RInv'
  BY <1>2, FailsStep
<1>3. ASSUME NEW s \in Slot, Received(s) PROVE RInv'
  BY <1>3, ReceivedStep
<1>4. ASSUME NEW s \in Slot, Sent(s) PROVE RInv'
  BY <1>4, SentStep
<1>5. ASSUME NEW s \in Slot, Arrive(s) PROVE RInv'
  BY <1>5, ArriveStep
<1>6. ASSUME NEW s \in Slot, SendOn(s) PROVE RInv'
  BY <1>6, SendOnStep
<1>7. CASE UNCHANGED vars
  <2>1. UNCHANGED <<sq, sqLen, kernel, cq, batch, pending, run, status,
                    buffer, arrived, sent>>
    BY <1>7 DEF vars, ringVars
  <2>2. TypeOK' = TypeOK /\ Queued' = Queued
    BY <2>1 DEF TypeOK, RingTypeOK, Queued
  <2>3. \A s \in Slot : Turn(s)' = Turn(s) /\ Waiting(s)' = Waiting(s)
    BY <2>1 DEF Turn, Outstanding, Waiting
  <2>4. OneOwner'
    BY <2>1, <2>3 DEF RInv, OneOwner
  <2>5. \A m \in 1 .. Last :
          {s \in Slot : buffer[s] = m /\ Waiting(s)}'
            = {s \in Slot : buffer[s] = m /\ Waiting(s)}
    BY <2>1, <2>3
  <2>6. NoneLost'
    BY <2>1, <2>5 DEF RInv, NoneLost
  <2>. QED  BY <2>1, <2>2, <2>4, <2>6 DEF RInv
<1>. QED  BY <1>1, <1>2, <1>3, <1>4, <1>5, <1>6, <1>7 DEF Next, Handle

(* RInv holds in every reachable state.                                    *)
THEOREM Invariance == Spec => []RInv
<1>1. Init => RInv
  BY InitRInv
<1>2. RInv /\ [Next]_vars => RInv'
  BY NextStep
<1>. QED  BY <1>1, <1>2, PTL DEF Spec

(* Every variable has its type: in particular no datagram is sent twice.   *)
THEOREM TypeCorrect == Spec => []TypeOK
<1>1. RInv => TypeOK
  BY DEF RInv
<1>. QED  BY <1>1, Invariance, PTL

(* A slot's buffer belongs to one operation, and the queue is never full.  *)
THEOREM OwnedOnce == Spec => []OneOwner
<1>1. RInv => OneOwner
  BY DEF RInv
<1>. QED  BY <1>1, Invariance, PTL

(* Every datagram was sent on once or waits in one slot, while it runs.    *)
THEOREM NoDatagramLost == Spec => []NoneLost
<1>1. RInv => NoneLost
  BY DEF RInv
<1>. QED  BY <1>1, Invariance, PTL

(***************************************************************************)
(* The kernel writes a buffer only while its slot does not wait: a         *)
(* datagram that was not sent on is never overwritten.                     *)
(***************************************************************************)
THEOREM NeverOverwritten ==
  Spec => [][\A s \in Slot : Waiting(s) => buffer'[s] = buffer[s]]_vars
<1> DEFINE Kept == \A s \in Slot : Waiting(s) => buffer'[s] = buffer[s]
<1>1. ASSUME RInv, Next PROVE Kept
  <2>1. ASSUME NEW t \in Slot, Arrive(t) PROVE Kept
    <3>1. /\ Complete(Receive(t)) /\ buffer' = [buffer EXCEPT ![t] = arrived + 1]
      BY <2>1 DEF Arrive
    <3>2. kernel[Receive(t)] > 0 /\ status = "running"
      BY <3>1 DEF Complete
    <3>3. /\ cq[Receive(t)] = 0 /\ batch[Receive(t)] = 0
          /\ sq[Send(t)] = 0 /\ kernel[Send(t)] = 0
      BY <1>1, <3>2, SlotFacts
    <3>4. ~Waiting(t)
      BY <3>3 DEF Waiting
    <3>5. buffer \in [Slot -> 0 .. Last]
      BY <1>1 DEF RInv, TypeOK
    <3>. QED  BY <3>1, <3>4, <3>5
  <2>2. UNCHANGED buffer \/ \E t \in Slot : Arrive(t)
    BY <1>1 DEF Next, Loop, Handle, Fails, Received, Sent, SendOn, relayVars
  <2>. QED  BY <2>1, <2>2
<1>2. RInv /\ [Next]_vars => [Kept]_vars
  BY <1>1
<1>. QED  BY <1>2, Invariance, PTL DEF Spec
=============================================================================
