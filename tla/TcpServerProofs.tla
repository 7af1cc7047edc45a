-------------------------- MODULE TcpServerProofs --------------------------
(***************************************************************************)
(* The safety properties of TcpServer, and that PostServer, whose accepts  *)
(* come from a thread through a pipe, implements it; both for every set of *)
(* descriptors, every queue size and every size of the read buffer.        *)
(*                                                                         *)
(* CountIsExact alone is not inductive: that the counter reaches zero only *)
(* with the last completion needs that no client has two sends in flight,  *)
(* which needs in turn that a round starts only when nothing is in flight. *)
(* IInv is their conjunction with what the submission queue can hold.      *)
(***************************************************************************)
EXTENDS PostServer, FiniteSetTheorems, SequenceTheorems, TLAPS

(***************************************************************************)
(* The submission queue never holds a send at the end of a callback, and   *)
(* its length is the number of accepts in it.                              *)
(***************************************************************************)
QueueHoldsAccepts ==
  /\ \A c \in Fd : sq[c] = 0
  /\ sqLen = sq[Acceptor]

IInv ==
  /\ TypeOK
  /\ run
  /\ clients \subseteq opened
  /\ QueueHoldsAccepts
  /\ NoFreedRequest
  /\ OneInFlight
  /\ CountIsExact
  /\ RoundAlive
  /\ NothingForgotten
  /\ QueueSuffices

----------------------------------------------------------------------------
(* Descriptors are finitely many and requests of clients are requests.     *)
LEMMA FdFacts ==
  /\ Fd \subseteq Req
  /\ Acceptor \in Req
  /\ Acceptor \notin Fd
  /\ \A r \in Req : r \in Fd \/ r = Acceptor
  /\ IsFiniteSet(Fd)
  /\ Cardinality(Fd) \in Nat
<1>1. Fd \subseteq Req /\ Acceptor \in Req /\ Acceptor \notin Fd
  BY TcpAssumption
<1>2. \A r \in Req : r \in Fd \/ r = Acceptor
  BY TcpAssumption
<1>3. IsFiniteSet(Fd)
  BY <1>1, FS_Subset, RingAssumption
<1>4. Cardinality(Fd) \in Nat
  BY <1>3, FS_CardinalityType
<1>. QED  BY <1>1, <1>2, <1>3, <1>4

(* A set of clients is finite and no larger than the set of descriptors.   *)
LEMMA SubsetFacts ==
  ASSUME NEW S \in SUBSET Fd
  PROVE  /\ IsFiniteSet(S)
         /\ Cardinality(S) \in Nat
         /\ Cardinality(S) <= Cardinality(Fd)
         /\ Cardinality(S) = 0 <=> S = {}
<1>1. IsFiniteSet(S) /\ Cardinality(S) <= Cardinality(Fd)
  BY FdFacts, FS_Subset
<1>2. Cardinality(S) \in Nat
  BY <1>1, FS_CardinalityType
<1>. QED  BY <1>1, <1>2, FS_EmptySet

(* The request of accept, or none: what a callback prepares last.          *)
LEMMA LastFacts ==
  /\ Cardinality({Acceptor}) = 1
  /\ Cardinality({}) = 0
BY FS_Singleton, FS_EmptySet

----------------------------------------------------------------------------
(* The initial state: one accept is prepared.                              *)
LEMMA InitIInv == Init => IInv
<1> SUFFICES ASSUME Init PROVE IInv
  OBVIOUS
<1> USE FdFacts, LastFacts, RingAssumption
<1>1. /\ sq = With(Empty, {Acceptor}) /\ sqLen = 1 /\ kernel = Empty
      /\ cq = Empty /\ batch = Empty /\ pending = TRUE /\ run = TRUE
      /\ status = "running" /\ clients = {} /\ opened = {} /\ left = 0
  BY DEF Init, RingInit, SocketInit
<1>2. \A c \in Fd : sq[c] = 0 /\ Outstanding(c) = 0
  BY <1>1 DEF With, Empty, Outstanding
<1>3. sq[Acceptor] = 1 /\ Outstanding(Acceptor) = 1
  BY <1>1 DEF With, Empty, Outstanding
<1>4. TypeOK
  BY <1>1 DEF TypeOK, RingTypeOK, SocketTypeOK, Bag, With, Empty, Status
<1>5. Busy = {}
  BY <1>2 DEF Busy
<1>6. QueueHoldsAccepts /\ NoFreedRequest /\ OneInFlight
  BY <1>1, <1>2, <1>3 DEF QueueHoldsAccepts, NoFreedRequest, OneInFlight
<1>7. CountIsExact /\ RoundAlive /\ NothingForgotten /\ QueueSuffices
  BY <1>1, <1>5 DEF CountIsExact, RoundAlive, NothingForgotten, QueueSuffices
<1>. QED  BY <1>1, <1>4, <1>6, <1>7 DEF IInv

----------------------------------------------------------------------------
(***************************************************************************)
(* A step that neither starts nor answers an operation and leaves the      *)
(* application's variables alone keeps everything that IInv says of them.  *)
(***************************************************************************)
LEMMA QuietStep ==
  ASSUME IInv, TypeOK', QueueHoldsAccepts', NothingForgotten',
         status = "running", status' = "running",
         \A r \in Req : Outstanding(r)' = Outstanding(r),
         UNCHANGED <<run, clients, opened, left>>
  PROVE  IInv'
<1> USE FdFacts
<1>1. Busy' = Busy
  BY DEF Busy
<1>2. NoFreedRequest'
  BY DEF IInv, NoFreedRequest
<1>3. OneInFlight'
  BY DEF IInv, OneInFlight
<1>4. CountIsExact' /\ RoundAlive'
  BY <1>1 DEF IInv, CountIsExact, RoundAlive
<1>5. QueueSuffices'
  BY DEF QueueSuffices
<1>. QED  BY <1>2, <1>3, <1>4, <1>5 DEF IInv

(* The kernel's steps.                                                     *)
LEMMA FinishStep ==
  ASSUME IInv, NEW r \in Req, Finish(r)
  PROVE  IInv'
<1> USE FdFacts
<1>1. /\ status = "running" /\ kernel[r] > 0 /\ kernel' = Without(kernel, r)
      /\ cq' = With(cq, {r})
      /\ UNCHANGED <<sq, sqLen, batch, pending, run, status>>
      /\ UNCHANGED <<clients, opened, left>>
  BY DEF Finish, Complete, socketVars
<1>2. /\ kernel \in [Req -> Nat] /\ cq \in [Req -> Nat]
      /\ sq \in [Req -> Nat] /\ batch \in [Req -> Nat]
  BY DEF IInv, TypeOK, RingTypeOK, Bag
<1>3. kernel' \in [Req -> Nat] /\ cq' \in [Req -> Nat]
  BY <1>1, <1>2 DEF Without, With
<1>4. TypeOK'
  BY <1>1, <1>3 DEF IInv, TypeOK, RingTypeOK, SocketTypeOK, Bag
<1>5. \A q \in Req : Outstanding(q)' = Outstanding(q)
  BY <1>1, <1>2 DEF Outstanding, Without, With
<1>6. QueueHoldsAccepts' /\ NothingForgotten'
  BY <1>1 DEF IInv, QueueHoldsAccepts, NothingForgotten, Empty
<1>. QED  BY <1>1, <1>4, <1>5, <1>6, QuietStep

(***************************************************************************)
(* The process exits with an error that is not a full queue.               *)
(***************************************************************************)
LEMMA ExitStep ==
  ASSUME IInv, status' = "io_error",
         UNCHANGED <<sq, sqLen, kernel, cq, batch, pending, run>>,
         UNCHANGED <<clients, opened, left>>
  PROVE  IInv'
<1>1. \A r \in Req : Outstanding(r)' = Outstanding(r)
  BY DEF Outstanding
<1>2. TypeOK'
  BY DEF IInv, TypeOK, RingTypeOK, SocketTypeOK, Status
<1>3. QueueHoldsAccepts' /\ NothingForgotten' /\ QueueSuffices'
  BY DEF IInv, QueueHoldsAccepts, NothingForgotten, QueueSuffices
<1>4. NoFreedRequest' /\ OneInFlight' /\ CountIsExact' /\ RoundAlive'
  BY <1>1, FdFacts
     DEF IInv, NoFreedRequest, OneInFlight, CountIsExact, RoundAlive
<1>. QED  BY <1>2, <1>3, <1>4 DEF IInv

LEMMA FailsStep ==
  ASSUME IInv, NEW r \in Req, Fails(r)
  PROVE  IInv'
BY ExitStep DEF Fails, DispatchError, socketVars

(* The loop's steps: nothing unmaps the ring, so the loop never ends.      *)
LEMMA LoopKeeps ==
  ASSUME IInv, Loop
  PROVE  IInv'
<1> USE FdFacts
<1>1. UNCHANGED <<clients, opened, left>>
  BY DEF Loop, socketVars
<1>2. /\ kernel \in [Req -> Nat] /\ cq \in [Req -> Nat]
      /\ sq \in [Req -> Nat] /\ batch \in [Req -> Nat]
  BY DEF IInv, TypeOK, RingTypeOK, Bag
<1>3. run
  BY DEF IInv
<1>4. CASE LoopSubmit
  <2>1. /\ status = "running" /\ kernel' = Plus(kernel, sq) /\ sq' = Empty
        /\ sqLen' = 0 /\ pending' = FALSE /\ UNCHANGED <<cq, batch, run, status>>
    BY <1>4 DEF LoopSubmit, LoopHead
  <2>2. TypeOK'
    <3>1. kernel' \in [Req -> Nat] /\ sq' \in [Req -> Nat]
      BY <1>2, <2>1 DEF Plus, Empty
    <3>2. sqLen' \in 0 .. QueueSize
      BY <2>1, RingAssumption
    <3>. QED
      BY <1>1, <2>1, <3>1, <3>2 DEF IInv, TypeOK, RingTypeOK, SocketTypeOK, Bag
  <2>3. QueueHoldsAccepts' /\ NothingForgotten'
    BY <2>1 DEF QueueHoldsAccepts, NothingForgotten, Empty
  <2>4. \A r \in Req : Outstanding(r)' = Outstanding(r)
    BY <1>2, <2>1 DEF Outstanding, Plus, Empty
  <2>. QED  BY <1>1, <2>1, <2>2, <2>3, <2>4, QuietStep
<1>5. CASE LoopPeek
  <2>1. /\ status = "running" /\ batch = Empty
        /\ cq' = [r \in Req |-> cq[r] - batch'[r]]
        /\ UNCHANGED <<sq, sqLen, kernel, pending, run, status>>
    BY <1>5 DEF LoopPeek, LoopHead, Minus
  <2>2. batch' \in [Req -> Nat] /\ \A r \in Req : batch'[r] <= cq[r]
    BY <1>2, <1>5 DEF LoopPeek, Batches
  <2>3. cq' \in [Req -> Nat]
    BY <1>2, <2>1, <2>2
  <2>4. TypeOK'
    BY <1>1, <2>1, <2>2, <2>3 DEF IInv, TypeOK, RingTypeOK, SocketTypeOK, Bag
  <2>5. QueueHoldsAccepts' /\ NothingForgotten'
    BY <2>1 DEF IInv, QueueHoldsAccepts, NothingForgotten, Empty
  <2>6. \A r \in Req : Outstanding(r)' = Outstanding(r)
    BY <1>2, <2>1, <2>2 DEF Outstanding, Empty
  <2>. QED  BY <1>1, <2>1, <2>4, <2>5, <2>6, QuietStep
<1>6. CASE LoopWaitFails
  BY <1>1, <1>6, ExitStep DEF LoopWaitFails
<1>7. ~LoopDone /\ ~DispatchUnmapped
  BY <1>3 DEF LoopDone, DispatchUnmapped
<1>. QED  BY <1>4, <1>5, <1>6, <1>7 DEF Loop, LoopNext, LoopStep

----------------------------------------------------------------------------
(***************************************************************************)
(* A callback of the acceptor finds no accept in the queue; one of a       *)
(* client finds that client's only operation answered.                     *)
(***************************************************************************)
LEMMA DispatchFacts ==
  ASSUME IInv, NEW r \in Req, Dispatch(r)
  PROVE  /\ status = "running"
         /\ sq[r] = 0 /\ kernel[r] = 0 /\ cq[r] = 0 /\ batch[r] = 1
         /\ batch' = [batch EXCEPT ![r] = 0]
<1>1. /\ status = "running" /\ batch[r] > 0 /\ batch' = Without(batch, r)
  BY DEF Dispatch, AtCompletion
<1>2. /\ sq[r] \in Nat /\ kernel[r] \in Nat /\ cq[r] \in Nat /\ batch[r] \in Nat
      /\ batch \in [Req -> Nat]
  BY DEF IInv, TypeOK, RingTypeOK, Bag
<1>3. sq[r] + kernel[r] + cq[r] + batch[r] <= 1
  BY FdFacts DEF IInv, OneInFlight, Outstanding
<1>4. sq[r] = 0 /\ kernel[r] = 0 /\ cq[r] = 0 /\ batch[r] = 1
  <2> DEFINE i == sq[r]
             j == kernel[r]
             k == cq[r]
             l == batch[r]
  <2>1. i \in Nat /\ j \in Nat /\ k \in Nat /\ l \in Nat
    BY <1>2
  <2>2. i + j + k + l <= 1 /\ l > 0
    BY <1>1, <1>3
  <2> HIDE DEF i, j, k, l
  <2>3. i = 0 /\ j = 0 /\ k = 0 /\ l = 1
    BY <2>1, <2>2
  <2>. QED  BY <2>3 DEF i, j, k, l
<1>. QED  BY <1>1, <1>2, <1>4 DEF Without

(***************************************************************************)
(* acceptHandler.  A round starts only for the first client, when nothing  *)
(* of any client is in flight.                                             *)
(***************************************************************************)
LEMMA AcceptStep ==
  ASSUME IInv, NEW c \in Fd, Accept(c)
  PROVE  IInv'
<1> USE FdFacts, LastFacts, RingAssumption
<1>1. /\ c \notin opened /\ clients' = clients \cup {c}
      /\ opened' = opened \cup {c} /\ UNCHANGED <<cq, run, left>>
  BY DEF Accept, NewClient, Fresh, AddSocket
<1>2. /\ status = "running" /\ sq[Acceptor] = 0 /\ kernel[Acceptor] = 0
      /\ cq[Acceptor] = 0 /\ batch[Acceptor] = 1
      /\ batch' = [batch EXCEPT ![Acceptor] = 0]
  BY DispatchFacts DEF Accept
<1>3. /\ kernel \in [Req -> Nat] /\ cq \in [Req -> Nat]
      /\ sq \in [Req -> Nat] /\ batch \in [Req -> Nat]
      /\ clients \in SUBSET Fd /\ opened \in SUBSET Fd /\ run
      /\ clients \subseteq opened /\ left \in 0 .. Cardinality(Fd)
      /\ pending \in BOOLEAN
  BY DEF IInv, TypeOK, RingTypeOK, SocketTypeOK, Bag
<1>4. sqLen = 0 /\ sq = Empty
  BY <1>2, <1>3 DEF IInv, QueueHoldsAccepts, Empty
<1>5. c \notin clients /\ Outstanding(c) = 0
  BY <1>1, <1>3 DEF IInv, NoFreedRequest, Outstanding
<1>6. batch' \in [Req -> Nat] /\ \A d \in Fd : batch'[d] = batch[d]
  BY <1>2, <1>3
<1>7. (clients' \in SUBSET Fd) /\ (opened' \in SUBSET Fd)
      /\ clients' \subseteq opened'
  BY <1>1, <1>3
<1>8. Cardinality(Fd) > 0
  BY FS_EmptySet
<1>9. CASE clients = {}
  <2>1. clients \cup {c} = {c} /\ Cardinality({c}) = 1
    BY <1>9, FS_Singleton
  <2>2. Issue({c}, TRUE, {Acceptor})
    BY <2>1 DEF Accept, NewClient, Broadcast
  <2>3. CASE QueueFull({c}, TRUE, {Acceptor})
    <3>1. status' = "sq_full" /\ UNCHANGED <<sq, sqLen, kernel, pending>>
      BY <2>2, <2>3 DEF Issue
    <3>2. TypeOK'
      BY <1>1, <1>3, <1>6, <1>7, <3>1
         DEF IInv, TypeOK, RingTypeOK, SocketTypeOK, Bag, Status
    <3>3. QueueHoldsAccepts' /\ NothingForgotten'
      BY <3>1 DEF IInv, QueueHoldsAccepts, NothingForgotten, Empty
    <3>4. /\ \A d \in Fd : Outstanding(d)' = Outstanding(d)
          /\ Outstanding(Acceptor)' = 0
      BY <1>1, <1>2, <1>3, <1>6, <3>1 DEF Outstanding
    <3>5. NoFreedRequest' /\ OneInFlight'
      BY <1>1, <3>1, <3>4 DEF IInv, NoFreedRequest, OneInFlight
    <3>6. CountIsExact' /\ RoundAlive'
      BY <3>1 DEF CountIsExact, RoundAlive
    <3>7. QueueSuffices'
      BY <1>4, <1>8, <2>1, <2>3 DEF QueueFull, QueueSuffices
    <3>. QED
      BY <1>1, <1>3, <1>7, <3>2, <3>3, <3>5, <3>6, <3>7 DEF IInv
  <2>4. CASE ~QueueFull({c}, TRUE, {Acceptor})
    <3>1. /\ sq' = With(Empty, {Acceptor})
          /\ kernel' = Plus(kernel, With(sq, {c}))
          /\ sqLen' = 1 /\ pending' = TRUE /\ status' = status
      <4>1. /\ sq' = With(Empty, {Acceptor})
            /\ kernel' = Plus(kernel, With(sq, {c}))
            /\ sqLen' = 0 + Cardinality({Acceptor})
            /\ pending' = ({Acceptor} # {} \/ (~TRUE /\ (pending \/ {c} # {})))
            /\ status' = status
        BY <2>2, <2>4, Zenon DEF Issue
      <4>2. {Acceptor} # {}
        OBVIOUS
      <4>3. pending' = TRUE
        BY <4>1, <4>2, Zenon
      <4>. QED  BY <4>1, <4>3
    <3>2. /\ sq' \in [Req -> Nat] /\ kernel' \in [Req -> Nat]
          /\ \A d \in Fd : sq'[d] = 0
          /\ sq'[Acceptor] = 1
      BY <1>3, <3>1 DEF With, Empty, Plus
    <3>3. TypeOK'
      <4>1. sqLen' \in 0 .. QueueSize
        BY <3>1
      <4>. QED
        BY <1>1, <1>2, <1>3, <1>6, <1>7, <3>1, <3>2, <4>1
           DEF IInv, TypeOK, RingTypeOK, SocketTypeOK, Bag
    <3>4. QueueHoldsAccepts' /\ NothingForgotten' /\ QueueSuffices'
      BY <1>2, <3>1, <3>2 DEF QueueHoldsAccepts, NothingForgotten, QueueSuffices
    <3>5. \A d \in Fd : Outstanding(d) = 0
      BY <1>3, <1>9 DEF IInv, NoFreedRequest, Outstanding
    <3>6. \A d \in Fd : kernel[d] = 0 /\ cq[d] = 0 /\ batch[d] = 0
      <4> TAKE d \in Fd
      <4> DEFINE i == sq[d]
                 j == kernel[d]
                 k == cq[d]
                 l == batch[d]
      <4>1. i \in Nat /\ j \in Nat /\ k \in Nat /\ l \in Nat
        BY <1>3
      <4>2. i + j + k + l = 0
        BY <3>5 DEF Outstanding
      <4> HIDE DEF i, j, k, l
      <4>3. j = 0 /\ k = 0 /\ l = 0
        BY <4>1, <4>2
      <4>. QED  BY <4>3 DEF j, k, l
    <3>7. \A d \in Fd : kernel'[d] = IF d = c THEN 1 ELSE 0
      BY <1>3, <1>4, <3>1, <3>6 DEF Plus, With, Empty
    <3>8. \A d \in Fd : Outstanding(d)' = IF d = c THEN 1 ELSE 0
      BY <1>1, <1>6, <3>2, <3>6, <3>7 DEF Outstanding
    <3>9. kernel'[Acceptor] = 0
      BY <1>2, <1>4, <3>1 DEF Plus, With, Empty
    <3>10. Outstanding(Acceptor)' = 1
      BY <1>1, <1>2, <1>3, <3>2, <3>9 DEF Outstanding
    <3>11. Busy' = {c}
      BY <3>8 DEF Busy
    <3>12. NoFreedRequest' /\ OneInFlight'
      BY <1>1, <3>8, <3>10 DEF NoFreedRequest, OneInFlight
    <3>13. Busy = {} /\ left = 0
      <4>1. Busy = {}
        BY <3>5 DEF Busy
      <4>. QED  BY <1>2, <1>3, <4>1 DEF IInv, CountIsExact
    <3>14. CountIsExact' /\ RoundAlive'
      BY <1>1, <2>1, <3>11, <3>13 DEF CountIsExact, RoundAlive
    <3>. QED
      BY <1>1, <1>3, <1>7, <3>3, <3>4, <3>12, <3>14 DEF IInv
  <2>. QED  BY <2>3, <2>4
<1>10. CASE clients # {}
  <2>1. Cardinality(clients \cup {c}) # 1
    <3>1. IsFiniteSet(clients) /\ Cardinality(clients) \in Nat
          /\ Cardinality(clients) # 0
      BY <1>3, <1>10, SubsetFacts
    <3>2. Cardinality(clients \cup {c}) = Cardinality(clients) + 1
      BY <1>5, <3>1, FS_AddElement
    <3>. QED  BY <3>1, <3>2
  <2>2. Issue({}, FALSE, {Acceptor})
    BY <2>1 DEF Accept, NewClient, AsyncAccept
  <2>3. ~QueueFull({}, FALSE, {Acceptor})
    BY <1>4 DEF QueueFull
  <2>4. /\ sq' = With(With(sq, {}), {Acceptor}) /\ kernel' = kernel
        /\ sqLen' = 1 /\ pending' = TRUE /\ status' = status
    <3>1. /\ LET filled == With(sq, {})
             IN  /\ sq' = With(IF FALSE THEN Empty ELSE filled, {Acceptor})
                 /\ kernel' = IF FALSE THEN Plus(kernel, filled) ELSE kernel
          /\ sqLen' = (IF FALSE THEN 0 ELSE sqLen + Cardinality({}))
                        + Cardinality({Acceptor})
          /\ pending' = \/ {Acceptor} # {}
                        \/ ~FALSE /\ (pending \/ {} # {})
          /\ status' = status
      BY <2>2, <2>3, Zenon DEF Issue
    <3>2. sqLen' = 1
      BY <1>4, <3>1, SMT
    <3>3. kernel' = kernel
      BY <3>1, SMT
    <3>4. sq' = With(With(sq, {}), {Acceptor})
      BY <3>1, SMT
    <3>5. {Acceptor} # {}
      OBVIOUS
    <3>6. pending' = TRUE
      BY <3>1, <3>5, Zenon
    <3>. QED  BY <3>1, <3>2, <3>3, <3>4, <3>6
  <2>5. /\ sq' \in [Req -> Nat] /\ sq'[Acceptor] = 1
        /\ \A d \in Fd : sq'[d] = 0
    BY <1>4, <2>4 DEF With, Empty
  <2>6. TypeOK'
    <3>1. sqLen' \in 0 .. QueueSize
      BY <2>4
    <3>. QED
      BY <1>1, <1>2, <1>3, <1>6, <1>7, <2>4, <2>5, <3>1
         DEF IInv, TypeOK, RingTypeOK, SocketTypeOK, Bag
  <2>7. QueueHoldsAccepts' /\ NothingForgotten' /\ QueueSuffices'
    BY <1>2, <2>4, <2>5 DEF QueueHoldsAccepts, NothingForgotten, QueueSuffices
  <2>8. /\ \A d \in Fd : Outstanding(d)' = Outstanding(d)
        /\ Outstanding(Acceptor)' = 1
    <3>1. \A d \in Fd : sq[d] = 0
      BY <1>4 DEF Empty
    <3>2. \A d \in Fd : Outstanding(d)' = Outstanding(d)
      BY <1>1, <1>6, <2>4, <2>5, <3>1 DEF Outstanding
    <3>3. batch'[Acceptor] = 0
      BY <1>2, <1>3
    <3>4. Outstanding(Acceptor)' = 1 + 0 + 0 + 0
      BY <1>1, <1>2, <2>4, <2>5, <3>3 DEF Outstanding
    <3>. QED  BY <3>2, <3>4
  <2>9. Busy' = Busy
    BY <2>8 DEF Busy
  <2>10. NoFreedRequest' /\ OneInFlight'
    BY <1>1, <2>8 DEF IInv, NoFreedRequest, OneInFlight
  <2>11. CountIsExact' /\ RoundAlive'
    BY <1>1, <1>2, <1>10, <2>9 DEF IInv, CountIsExact, RoundAlive
  <2>. QED
    BY <1>1, <1>3, <1>7, <2>6, <2>7, <2>10, <2>11 DEF IInv
<1>. QED  BY <1>9, <1>10

(***************************************************************************)
(* The completion that ends a round is the last one: when rwHandler        *)
(* broadcasts, no send of any client is anywhere in the ring.              *)
(***************************************************************************)
LEMMA RoundOver ==
  ASSUME IInv, NEW c \in Fd, Dispatch(c), left - 1 <= 0
  PROVE  \A d \in Fd :
           sq[d] = 0 /\ kernel[d] = 0 /\ cq[d] = 0 /\ batch'[d] = 0
<1> USE FdFacts, LastFacts
<1>1. /\ status = "running" /\ sq[c] = 0 /\ kernel[c] = 0
      /\ cq[c] = 0 /\ batch[c] = 1 /\ batch' = [batch EXCEPT ![c] = 0]
  BY DispatchFacts
<1>2. /\ kernel \in [Req -> Nat] /\ cq \in [Req -> Nat]
      /\ sq \in [Req -> Nat] /\ batch \in [Req -> Nat]
      /\ left \in 0 .. Cardinality(Fd) /\ left - 1 <= 0
  BY DEF IInv, TypeOK, RingTypeOK, Bag
<1>3. batch'[c] = 0 /\ \A r \in Req : r # c => batch'[r] = batch[r]
  BY <1>1, <1>2
<1>4. /\ Busy \in SUBSET Fd /\ c \in Busy
      /\ IsFiniteSet(Busy) /\ Cardinality(Busy) \in Nat
  <2>1. Busy \in SUBSET Fd
    BY DEF Busy
  <2>2. c \in Busy
    BY <1>1 DEF Busy, Outstanding
  <2>. QED  BY <2>1, <2>2, SubsetFacts
<1>5. /\ left > 0 => left = Cardinality(Busy)
      /\ left <= 0 => Cardinality(Busy) <= 1
  BY <1>1 DEF IInv, CountIsExact
<1>6. Busy = {c}
  <2>1. Cardinality(Busy) <= 1
    BY <1>2, <1>4, <1>5
  <2>2. Cardinality(Busy \ {c}) = Cardinality(Busy) - 1
    BY <1>4, FS_RemoveElement
  <2>3. (Busy \ {c}) \in SUBSET Fd
    BY <1>4
  <2>4. Cardinality(Busy \ {c}) = 0
    BY <1>4, <2>1, <2>2, <2>3, SubsetFacts
  <2>5. Busy \ {c} = {}
    BY <2>3, <2>4, SubsetFacts
  <2>. QED  BY <1>4, <2>5
<1>7. \A d \in Fd : sq[d] = 0 /\ kernel[d] = 0 /\ cq[d] = 0 /\ batch'[d] = 0
  <2> TAKE d \in Fd
  <2> DEFINE i == sq[d]
             j == kernel[d]
             k == cq[d]
             l == batch[d]
  <2>1. CASE d = c
    BY <1>1, <1>3, <2>1
  <2>2. CASE d # c
    <3>1. ~(Outstanding(d) > 0)
      BY <1>6, <2>2 DEF Busy
    <3>2. i \in Nat /\ j \in Nat /\ k \in Nat /\ l \in Nat
      BY <1>2
    <3>3. ~(i + j + k + l > 0)
      BY <3>1 DEF Outstanding
    <3> HIDE DEF i, j, k, l
    <3>4. i = 0 /\ j = 0 /\ k = 0 /\ l = 0
      BY <3>2, <3>3
    <3>. QED  BY <1>3, <2>2, <3>4 DEF i, j, k, l
  <2>. QED  BY <2>1, <2>2
<1>. QED  BY <1>7

(***************************************************************************)
(* rwHandler for a send of c, when `to` are the clients that are left.     *)
(* The last completion of a round leaves nothing in flight and starts the  *)
(* next round; any other leaves the rest of the round.                     *)
(***************************************************************************)
LEMMA RoundStep ==
  ASSUME IInv, NEW c \in Fd, NEW to, to = clients \/ to = clients \ {c},
         Dispatch(c), clients' = to, CountDown(to),
         UNCHANGED <<cq, run, opened>>
  PROVE  IInv'
<1> USE FdFacts, LastFacts, RingAssumption
<1>1. /\ status = "running" /\ sq[c] = 0 /\ kernel[c] = 0
      /\ cq[c] = 0 /\ batch[c] = 1 /\ batch' = [batch EXCEPT ![c] = 0]
  BY DispatchFacts
<1>2. /\ kernel \in [Req -> Nat] /\ cq \in [Req -> Nat]
      /\ sq \in [Req -> Nat] /\ batch \in [Req -> Nat]
      /\ clients \in SUBSET Fd /\ opened \in SUBSET Fd /\ run
      /\ clients \subseteq opened /\ left \in 0 .. Cardinality(Fd)
      /\ pending \in BOOLEAN /\ sqLen \in 0 .. QueueSize
  BY DEF IInv, TypeOK, RingTypeOK, SocketTypeOK, Bag
<1>3. /\ batch' \in [Req -> Nat] /\ batch'[c] = 0
      /\ \A r \in Req : r # c => batch'[r] = batch[r]
  BY <1>1, <1>2
<1>4. (to \in SUBSET Fd) /\ to \subseteq opened
  BY <1>2
<1>5. /\ IsFiniteSet(to) /\ Cardinality(to) \in Nat
      /\ Cardinality(to) <= Cardinality(Fd)
      /\ Cardinality(to) = 0 <=> to = {}
  BY <1>4, SubsetFacts
<1>6. /\ Busy \in SUBSET Fd /\ c \in Busy
      /\ IsFiniteSet(Busy) /\ Cardinality(Busy) \in Nat
  <2>1. Busy \in SUBSET Fd
    BY DEF Busy
  <2>2. c \in Busy
    BY <1>1 DEF Busy, Outstanding
  <2>. QED  BY <2>1, <2>2, SubsetFacts
<1>7. /\ left > 0 => left = Cardinality(Busy)
      /\ left <= 0 => Cardinality(Busy) <= 1
  BY <1>1 DEF IInv, CountIsExact
<1>8. Busy \subseteq clients
  BY <1>2 DEF IInv, NoFreedRequest, Busy
<1>9. sqLen <= 1
  <2>1. sq[Acceptor] + kernel[Acceptor] + cq[Acceptor] + batch[Acceptor] <= 1
    BY DEF IInv, OneInFlight, Outstanding
  <2>. QED  BY <1>2, <2>1 DEF IInv, QueueHoldsAccepts
<1>10. CASE left - 1 > 0
  <2>1. left' = left - 1 /\ UNCHANGED <<sq, sqLen, kernel, pending, status>>
    BY <1>2, <1>10 DEF CountDown
  <2>2. TypeOK'
    BY <1>2, <1>3, <1>4, <1>10, <2>1
       DEF IInv, TypeOK, RingTypeOK, SocketTypeOK, Bag
  <2>3. QueueHoldsAccepts' /\ NothingForgotten' /\ QueueSuffices'
    BY <2>1 DEF IInv, QueueHoldsAccepts, NothingForgotten, QueueSuffices, Empty
  <2>4. Outstanding(c)' = 0
    <3>1. sq'[c] = 0 /\ kernel'[c] = 0 /\ cq'[c] = 0 /\ batch'[c] = 0
      BY <1>1, <1>3, <2>1
    <3>. QED  BY <3>1 DEF Outstanding
  <2>5. \A r \in Req : r # c => Outstanding(r)' = Outstanding(r)
    BY <1>3, <2>1 DEF Outstanding
  <2>6. Busy' = Busy \ {c}
    BY <2>4, <2>5 DEF Busy
  <2>7. Cardinality(Busy') = left'
    <3>1. Cardinality(Busy \ {c}) = Cardinality(Busy) - 1
      BY <1>6, FS_RemoveElement
    <3>. QED  BY <1>2, <1>7, <1>10, <2>1, <2>6, <3>1
  <2>8. NoFreedRequest' /\ OneInFlight'
    BY <2>1, <2>4, <2>5 DEF IInv, NoFreedRequest, OneInFlight
  <2>9. CountIsExact'
    BY <1>2, <1>10, <2>1, <2>7 DEF CountIsExact
  <2>10. RoundAlive'
    <3>1. Cardinality(Busy') # 0
      BY <1>2, <1>10, <2>1, <2>7
    <3>2. Busy' # {}
      BY <3>1, Zenon
    <3>. QED  BY <3>2 DEF RoundAlive
  <2>. QED  BY <1>2, <1>4, <2>2, <2>3, <2>8, <2>9, <2>10 DEF IInv
<1>11. CASE left - 1 <= 0
  <2>1. Issue(to, TRUE, {}) /\ left' = Cardinality(to)
    <3>1. ~(left - 1 > 0)
      BY <1>2, <1>11
    <3>. QED  BY <3>1, Zenon DEF CountDown, Broadcast
  <2>2. \A d \in Fd : sq[d] = 0 /\ kernel[d] = 0 /\ cq[d] = 0 /\ batch'[d] = 0
    BY <1>2, <1>11, RoundOver
  <2>3. left' \in 0 .. Cardinality(Fd)
    BY <1>5, <2>1
  <2>4. CASE QueueFull(to, TRUE, {})
    <3>1. status' = "sq_full" /\ UNCHANGED <<sq, sqLen, kernel, pending>>
      BY <2>1, <2>4 DEF Issue
    <3>2. TypeOK'
      BY <1>2, <1>3, <1>4, <2>3, <3>1
         DEF IInv, TypeOK, RingTypeOK, SocketTypeOK, Bag, Status
    <3>3. QueueHoldsAccepts' /\ NothingForgotten'
      BY <3>1 DEF IInv, QueueHoldsAccepts, NothingForgotten, Empty
    <3>4. QueueSuffices'
      BY <1>2, <1>5, <1>9, <2>4 DEF QueueFull, QueueSuffices
    <3>5. \A d \in Fd : Outstanding(d)' = 0
      BY <2>2, <3>1 DEF Outstanding
    <3>6. Outstanding(Acceptor)' = Outstanding(Acceptor)
      BY <1>3, <3>1 DEF Outstanding
    <3>7. NoFreedRequest' /\ OneInFlight'
      BY <3>1, <3>5, <3>6 DEF IInv, NoFreedRequest, OneInFlight
    <3>8. CountIsExact' /\ RoundAlive'
      BY <3>1 DEF CountIsExact, RoundAlive
    <3>. QED
      BY <1>2, <1>4, <3>2, <3>3, <3>4, <3>7, <3>8 DEF IInv
  <2>5. CASE ~QueueFull(to, TRUE, {})
    <3>1. /\ sq' = With(Empty, {}) /\ kernel' = Plus(kernel, With(sq, to))
          /\ sqLen' = 0 /\ status' = status
      <4>1. /\ LET filled == With(sq, to)
               IN  /\ sq' = With(IF TRUE THEN Empty ELSE filled, {})
                   /\ kernel' = IF TRUE THEN Plus(kernel, filled) ELSE kernel
            /\ sqLen' = (IF TRUE THEN 0 ELSE sqLen + Cardinality(to))
                          + Cardinality({})
            /\ status' = status
        BY <2>1, <2>5, Zenon DEF Issue
      <4>2. sqLen' = 0
        BY <4>1
      <4>3. sq' = With(Empty, {}) /\ kernel' = Plus(kernel, With(sq, to))
        BY <4>1
      <4>. QED  BY <4>1, <4>2, <4>3
    <3>2. /\ sq' = Empty /\ kernel' \in [Req -> Nat]
      BY <1>2, <3>1 DEF With, Empty, Plus
    <3>3. pending' = FALSE
      <4>1. pending' = ({} # {} \/ (~TRUE /\ (pending \/ to # {})))
        BY <2>1, <2>5, Zenon DEF Issue
      <4>. QED  BY <4>1, Zenon
    <3>4. TypeOK'
      <4>1. (sqLen' \in 0 .. QueueSize) /\ sq' \in [Req -> Nat]
        BY <3>1, <3>2 DEF Empty
      <4>. QED
        BY <1>1, <1>2, <1>3, <1>4, <2>3, <3>1, <3>2, <3>3, <4>1
           DEF IInv, TypeOK, RingTypeOK, SocketTypeOK, Bag
    <3>5. QueueHoldsAccepts' /\ NothingForgotten' /\ QueueSuffices'
      BY <1>1, <3>1, <3>2 DEF QueueHoldsAccepts, NothingForgotten, QueueSuffices, Empty
    <3>6. \A d \in Fd : kernel'[d] = IF d \in to THEN 1 ELSE 0
      BY <1>2, <2>2, <3>1 DEF Plus, With
    <3>7. \A d \in Fd : Outstanding(d)' = IF d \in to THEN 1 ELSE 0
      BY <2>2, <3>2, <3>6 DEF Outstanding, Empty
    <3>8. Outstanding(Acceptor)' = Outstanding(Acceptor)
      <4>1. /\ sq'[Acceptor] = 0 /\ cq'[Acceptor] = cq[Acceptor]
            /\ batch'[Acceptor] = batch[Acceptor]
        BY <1>3, <3>2 DEF Empty
      <4>2. kernel'[Acceptor] = kernel[Acceptor] + sq[Acceptor]
        BY <1>4, <3>1 DEF Plus, With
      <4>3. /\ sq[Acceptor] \in Nat /\ kernel[Acceptor] \in Nat
            /\ cq[Acceptor] \in Nat /\ batch[Acceptor] \in Nat
        BY <1>2
      <4>. QED  BY <4>1, <4>2, <4>3 DEF Outstanding
    <3>9. Busy' = to
      BY <1>4, <3>7 DEF Busy
    <3>10. NoFreedRequest' /\ OneInFlight'
      BY <3>1, <3>7, <3>8 DEF IInv, NoFreedRequest, OneInFlight
    <3>11. CountIsExact' /\ RoundAlive'
      BY <1>5, <2>1, <3>9 DEF CountIsExact, RoundAlive
    <3>. QED
      BY <1>2, <1>4, <3>4, <3>5, <3>10, <3>11 DEF IInv
  <2>. QED  BY <2>4, <2>5
<1>. QED  BY <1>2, <1>10, <1>11

----------------------------------------------------------------------------
LEMMA NextStep ==
  ASSUME IInv, [Next]_vars
  PROVE  IInv'
<1>1. CASE Loop
  BY <1>1, LoopKeeps
<1>2. ASSUME NEW r \in Req, Fails(r) PROVE IInv'
  BY <1>2, FailsStep
<1>3. ASSUME NEW c \in Fd, Accept(c) PROVE IInv'
  BY <1>3, AcceptStep
<1>4. ASSUME NEW c \in Fd, Sent(c) PROVE IInv'
  <2>1. /\ Dispatch(c) /\ clients' = clients /\ CountDown(clients)
        /\ UNCHANGED <<cq, run, opened>>
    BY <1>4 DEF Sent
  <2>. QED  BY <2>1, RoundStep
<1>5. ASSUME NEW c \in Fd, Broken(c) PROVE IInv'
  <2>1. /\ Dispatch(c) /\ clients' = clients \ {c}
        /\ CountDown(clients \ {c}) /\ UNCHANGED <<cq, run, opened>>
    BY <1>5 DEF Broken, AfterRemove
  <2>. QED  BY <2>1, RoundStep
<1>6. ASSUME NEW r \in Req, Finish(r) PROVE IInv'
  BY <1>6, FinishStep
<1>7. CASE UNCHANGED vars
  <2>1. UNCHANGED <<sq, sqLen, kernel, cq, batch, pending, run, status,
                    clients, opened, left>>
    BY <1>7 DEF vars, ringVars, socketVars
  <2>2. /\ TypeOK' = TypeOK /\ QueueHoldsAccepts' = QueueHoldsAccepts
        /\ NothingForgotten' = NothingForgotten
        /\ QueueSuffices' = QueueSuffices
    BY <2>1 DEF TypeOK, RingTypeOK, SocketTypeOK, QueueHoldsAccepts,
                NothingForgotten, QueueSuffices
  <2>3. \A r \in Req : Outstanding(r)' = Outstanding(r)
    BY <2>1 DEF Outstanding
  <2>4. NoFreedRequest' /\ OneInFlight' /\ CountIsExact' /\ RoundAlive'
    <3>1. Busy' = Busy
      BY <2>3, FdFacts DEF Busy
    <3>. QED
      BY <2>1, <2>3, <3>1, FdFacts
         DEF IInv, NoFreedRequest, OneInFlight, CountIsExact, RoundAlive
  <2>. QED  BY <2>1, <2>2, <2>4 DEF IInv
<1>. QED  BY <1>1, <1>2, <1>3, <1>4, <1>5, <1>6, <1>7 DEF Next, Handle

(* IInv holds in every reachable state.                                    *)
THEOREM Invariance == Spec => []IInv
<1>1. Init => IInv
  BY InitIInv
<1>2. IInv /\ [Next]_vars => IInv'
  BY NextStep
<1>. QED  BY <1>1, <1>2, PTL DEF Spec

(* Every variable has its type: in particular `left` never exceeds the     *)
(* number of descriptors and never becomes negative.                       *)
THEOREM TypeCorrect == Spec => []TypeOK
<1>1. IInv => TypeOK
  BY DEF IInv
<1>. QED  BY <1>1, Invariance, PTL

(* rwHandler never runs on a request that RemoveSocket destroyed.          *)
THEOREM RequestsAreLive == Spec => []NoFreedRequest
<1>1. IInv => NoFreedRequest
  BY DEF IInv
<1>. QED  BY <1>1, Invariance, PTL

(* No request object is in flight twice, and the accept is always armed.   *)
THEOREM InFlightOnce == Spec => []OneInFlight
<1>1. IInv => OneInFlight
  BY DEF IInv
<1>. QED  BY <1>1, Invariance, PTL

(* The counter of a round is the number of its sends in flight.            *)
THEOREM CounterExact == Spec => []CountIsExact
<1>1. IInv => CountIsExact
  BY DEF IInv
<1>. QED  BY <1>1, Invariance, PTL

(* Connected clients always have a send in flight between them.            *)
THEOREM RoundsGoOn == Spec => []RoundAlive
<1>1. IInv => RoundAlive
  BY DEF IInv
<1>. QED  BY <1>1, Invariance, PTL

(* The loop never waits in front of an unsubmitted entry.                  *)
THEOREM AllSubmitted == Spec => []NothingForgotten
<1>1. IInv => NothingForgotten
  BY DEF IInv
<1>. QED  BY <1>1, Invariance, PTL

(* One entry more than there can be clients is queue enough.               *)
THEOREM QueueLargeEnough == Spec => []QueueSuffices
<1>1. IInv => QueueSuffices
  BY DEF IInv
<1>. QED  BY <1>1, Invariance, PTL

(***************************************************************************)
(* The NOTICE above Broadcast: no step gives the kernel a send while a     *)
(* send of an earlier round is anywhere in the ring.                       *)
(***************************************************************************)
THEOREM NoticeKept == Spec => Notice
<1> DEFINE Quiet == \A d \in Fd : sq[d] + kernel[d] + cq[d] + batch'[d] = 0
           Given == \E c \in Fd : kernel'[c] > kernel[c]
<1>1. ASSUME IInv, Next, Given PROVE Quiet
  <2> USE FdFacts, <1>1
  <2>1. /\ kernel \in [Req -> Nat] /\ sq \in [Req -> Nat]
        /\ cq \in [Req -> Nat] /\ batch \in [Req -> Nat]
    BY DEF IInv, TypeOK, RingTypeOK, Bag
  <2>2. UNCHANGED kernel => FALSE
    BY <2>1
  <2>3. CASE Loop
    <3>1. \A c \in Fd : sq[c] = 0
      BY DEF IInv, QueueHoldsAccepts
    <3>2. LoopSubmit
      BY <2>2, <2>3 DEF Loop, LoopNext, LoopStep, LoopPeek, LoopWaitFails, LoopDone,
                        DispatchUnmapped
    <3>3. \A c \in Fd : kernel'[c] = kernel[c]
      BY <2>1, <3>1, <3>2 DEF LoopSubmit, Plus
    <3>. QED  BY <2>1, <3>3
  <2>4. ASSUME NEW r \in Req, Fails(r) PROVE FALSE
    BY <2>2, <2>4 DEF Fails, DispatchError
  <2>5. ASSUME NEW r \in Req, Finish(r) PROVE FALSE
    <3>1. kernel' = [kernel EXCEPT ![r] = @ - 1]
      BY <2>5 DEF Finish, Complete, Without
    <3>. QED  BY <2>1, <3>1
  <2>6. ASSUME NEW c \in Fd, Accept(c) PROVE Quiet
    <3>1. /\ c \notin opened /\ clients \subseteq opened
          /\ clients \in SUBSET Fd
      BY <2>6 DEF Accept, Fresh, IInv, TypeOK, SocketTypeOK
    <3>2. clients = {}
      <4>1. SUFFICES ASSUME clients # {} PROVE FALSE
        OBVIOUS
      <4>2. IsFiniteSet(clients) /\ Cardinality(clients) \in Nat
            /\ Cardinality(clients) # 0
        BY <3>1, <4>1, SubsetFacts
      <4>3. Cardinality(clients \cup {c}) = Cardinality(clients) + 1
        BY <3>1, <4>2, FS_AddElement
      <4>4. Issue({}, FALSE, {Acceptor})
        <5>1. Cardinality(clients \cup {c}) # 1
          BY <4>2, <4>3
        <5>. QED  BY <2>6, <5>1 DEF Accept, NewClient, AsyncAccept
      <4>5. \/ kernel' = IF FALSE THEN Plus(kernel, With(sq, {})) ELSE kernel
            \/ UNCHANGED kernel
        BY <4>4, Zenon DEF Issue
      <4>. QED  BY <2>2, <4>5
    <3>3. batch' = [batch EXCEPT ![Acceptor] = 0]
      BY <2>6, DispatchFacts DEF Accept
    <3>4. \A d \in Fd : ~(Outstanding(d) > 0)
      BY <3>2 DEF IInv, NoFreedRequest
    <3>. QED
      <4> TAKE d \in Fd
      <4> DEFINE n == sq[d] + kernel[d] + cq[d] + batch[d]
      <4>1. n \in Nat /\ ~(n > 0) /\ batch'[d] = batch[d]
        BY <2>1, <3>3, <3>4 DEF Outstanding
      <4>2. n = 0
        <5> HIDE DEF n
        <5>. QED  BY <4>1
      <4>. QED  BY <4>1, <4>2
  <2>7. ASSUME NEW c \in Fd, Dispatch(c), NEW to, CountDown(to) PROVE Quiet
    <3>1. left - 1 <= 0
      BY <2>2, <2>7, Zenon DEF CountDown
    <3>. QED  BY <2>7, <3>1, RoundOver
  <2>. QED
    BY <2>3, <2>4, <2>5, <2>6, <2>7 DEF Next, Handle, Sent, Broken
<1>2. IInv /\ [Next]_vars
        => [\A c \in Fd : kernel'[c] > kernel[c] =>
              \A d \in Fd : sq[d] + kernel[d] + cq[d] + batch'[d] = 0]_vars
  BY <1>1
<1>. QED  BY <1>2, Invariance, PTL DEF Spec, Notice
----------------------------------------------------------------------------
(***************************************************************************)
(* PostServer implements TcpServer.  Every step but one is literally a     *)
(* step of TcpServer or leaves its variables alone.  The exception is      *)
(* PostedClient, which is an Accept only if the descriptor in the buffer   *)
(* is one that acceptHandler was never given.  HandedOnce says so, of the  *)
(* pipe and of the buffer.                                                 *)
(***************************************************************************)
(* The completion of a read of the pipe waits for its callback.            *)
Answered == cq[Acceptor] + batch[Acceptor] > 0

(* A descriptor that accept returned and acceptHandler was not given.      *)
Undelivered == accepted \ opened

(***************************************************************************)
(* Whatever is on its way through the pipe is still to be delivered, and   *)
(* what waits in the buffer is not also on the pipe.                       *)
(***************************************************************************)
HandedOnce ==
  /\ opened \subseteq accepted
  /\ \A i \in 1 .. Len(pipe) : pipe[i] \in Undelivered
  /\ Answered => /\ inBuffer # <<>>
                 /\ inBuffer[1] \in Undelivered
                 /\ \A i \in 1 .. Len(pipe) : pipe[i] # inBuffer[1]

PInv ==
  /\ IInv
  /\ PostTypeOK
  /\ HandedOnce

----------------------------------------------------------------------------
(* What HandedOnce is kept by: a step that starts nothing new.             *)
LEMMA StillHandedOnce ==
  ASSUME HandedOnce, Answered' => Answered,
         UNCHANGED <<opened, accepted, pipe, inBuffer>>
  PROVE  HandedOnce'
BY DEF HandedOnce, Undelivered

(* The pipe is a sequence of descriptors.                                  *)
LEMMA PipeFacts ==
  ASSUME PostTypeOK
  PROVE  /\ pipe \in Seq(Fd) /\ inBuffer \in Seq(Fd)
         /\ Len(pipe) \in Nat
         /\ accepted \in SUBSET Fd /\ opened \in SUBSET Fd
         /\ \A i \in 1 .. Len(pipe) : pipe[i] \in Fd
BY ElementOfSeq, LenProperties DEF PostTypeOK, TypeOK, SocketTypeOK

(* The counters of the acceptor are numbers.                               *)
LEMMA RingFacts ==
  ASSUME IInv
  PROVE  /\ sq \in [Req -> Nat] /\ kernel \in [Req -> Nat]
         /\ cq \in [Req -> Nat] /\ batch \in [Req -> Nat]
BY DEF IInv, TypeOK, RingTypeOK, Bag

----------------------------------------------------------------------------
(* The loop's steps move completions into the batch and add none.          *)
LEMMA LoopAnswersNone ==
  ASSUME IInv, Loop
  PROVE  Answered' => Answered
<1> USE FdFacts
<1>1. CASE LoopPeek
  <2>1. /\ batch = Empty /\ cq' = [r \in Req |-> cq[r] - batch'[r]]
        /\ batch' \in Batches(cq, QueueSize)
    BY <1>1 DEF LoopPeek, LoopHead, Minus
  <2>2. batch'[Acceptor] \in Nat /\ batch'[Acceptor] <= cq[Acceptor]
    BY <2>1, RingFacts DEF Batches
  <2>3. cq'[Acceptor] = cq[Acceptor] - batch'[Acceptor] /\ batch[Acceptor] = 0
    BY <2>1 DEF Empty
  <2>. QED  BY <2>2, <2>3, RingFacts DEF Answered
<1>2. CASE ~LoopPeek
  <2>1. UNCHANGED <<cq, batch>>
    BY <1>2 DEF Loop, LoopNext, LoopStep, LoopSubmit, LoopDone, LoopWaitFails,
                DispatchUnmapped
  <2>. QED  BY <2>1 DEF Answered
<1>. QED  BY <1>1, <1>2

(* Nor does the callback or the failure of a client's completion.          *)
LEMMA ClientAnswersNone ==
  ASSUME IInv, NEW c \in Fd, Dispatch(c), cq' = cq
  PROVE  Answered' => Answered
<1>1. batch' = [batch EXCEPT ![c] = 0]
  BY DispatchFacts, FdFacts
<1>2. batch'[Acceptor] = batch[Acceptor]
  BY <1>1, FdFacts, RingFacts
<1>. QED  BY <1>2 DEF Answered

----------------------------------------------------------------------------
(***************************************************************************)
(* Each step of PostServer is a step of TcpServer or none, and keeps       *)
(* HandedOnce and the types.  The step of the whole server comes first.    *)
(***************************************************************************)

(* acceptHandler with the first record of the buffer.                      *)
LEMMA PostedStep ==
  ASSUME PInv, PostedClient
  PROVE  Next /\ HandedOnce' /\ PostTypeOK'
<1> USE FdFacts
<1>1. /\ Dispatch(Acceptor) /\ inBuffer # <<>> /\ NewClient(Head(inBuffer))
      /\ opened' = opened \cup {Head(inBuffer)}
      /\ UNCHANGED <<cq, run, left, accepted, pipe, inBuffer, accepting>>
  BY DEF PostedClient, postVars
<1>2. /\ cq[Acceptor] = 0 /\ batch[Acceptor] = 1
      /\ batch' = [batch EXCEPT ![Acceptor] = 0]
  BY <1>1, DispatchFacts DEF PInv
<1>3. Answered
  BY <1>2 DEF Answered
<1>4. ~Answered'
  BY <1>1, <1>2, RingFacts DEF Answered, PInv
<1>5. Head(inBuffer) = inBuffer[1]
  BY <1>1
<1>6. /\ Head(inBuffer) \in Undelivered
      /\ \A i \in 1 .. Len(pipe) : pipe[i] # Head(inBuffer)
  BY <1>3, <1>5 DEF PInv, HandedOnce
<1>7. Head(inBuffer) \in Fd /\ Head(inBuffer) \in Fresh
  BY <1>6, PipeFacts DEF PInv, Undelivered, Fresh
<1>8. Accept(Head(inBuffer))
  BY <1>1, <1>7 DEF Accept
<1>9. Next
  BY <1>7, <1>8 DEF Next, Handle
<1>10. TypeOK'
  BY <1>9, NextStep DEF PInv, IInv
<1>11. PostTypeOK'
  BY <1>1, <1>10 DEF PInv, PostTypeOK
<1>12. HandedOnce'
  BY <1>1, <1>4, <1>6 DEF PInv, HandedOnce, Undelivered
<1>. QED  BY <1>9, <1>11, <1>12

(* The read of the pipe.                                                   *)
LEMMA ReadStep ==
  ASSUME PInv, ReadPipe
  PROVE  Next /\ HandedOnce' /\ PostTypeOK'
<1> USE FdFacts
<1>1. /\ Complete(Acceptor) /\ pipe # <<>> /\ inBuffer' = pipe /\ pipe' = <<>>
      /\ UNCHANGED <<clients, opened, left, accepted, accepting>>
  BY DEF ReadPipe, socketVars
<1>2. Finish(Acceptor)
  BY <1>1 DEF Finish, socketVars
<1>3. Next
  BY <1>2 DEF Next
<1>4. TypeOK'
  BY <1>3, NextStep DEF PInv, IInv
<1>5. PostTypeOK'
  BY <1>1, <1>4, PipeFacts, EmptySeq DEF PInv, PostTypeOK
<1>6. Len(pipe') = 0
  BY <1>1
<1>7. 1 \in 1 .. Len(pipe)
  BY <1>1, PipeFacts, EmptySeq DEF PInv
<1>8. HandedOnce'
  BY <1>1, <1>6, <1>7 DEF PInv, HandedOnce, Undelivered
<1>. QED  BY <1>3, <1>5, <1>8

(* accept returns to the thread.                                           *)
LEMMA PostStep ==
  ASSUME PInv, NEW c \in Fd, Post(c)
  PROVE  UNCHANGED vars /\ HandedOnce' /\ PostTypeOK'
<1>1. /\ c \notin accepted /\ accepted' = accepted \cup {c}
      /\ pipe' = Append(pipe, c) /\ UNCHANGED vars
      /\ UNCHANGED <<inBuffer, accepting>>
  BY DEF Post
<1>2. UNCHANGED <<sq, sqLen, kernel, cq, batch, pending, run, status,
                  clients, opened, left>>
  BY <1>1 DEF vars, ringVars, socketVars
<1>3. TypeOK' = TypeOK
  BY <1>2 DEF TypeOK, RingTypeOK, SocketTypeOK
<1>4. /\ pipe' \in Seq(Fd) /\ Len(pipe') = Len(pipe) + 1
      /\ \A i \in 1 .. Len(pipe) : pipe'[i] = pipe[i]
      /\ pipe'[Len(pipe) + 1] = c
  BY <1>1, PipeFacts, AppendProperties DEF PInv
<1>5. PostTypeOK'
  BY <1>1, <1>3, <1>4, PipeFacts DEF PInv, PostTypeOK
<1>6. c \in Undelivered'
  BY <1>1, <1>2 DEF PInv, HandedOnce, Undelivered
<1>7. \A i \in 1 .. Len(pipe') : \/ i \in 1 .. Len(pipe)
                                \/ i = Len(pipe) + 1
  BY <1>4, PipeFacts DEF PInv
<1>8. \A i \in 1 .. Len(pipe') : pipe'[i] \in Undelivered'
  BY <1>1, <1>2, <1>4, <1>6, <1>7 DEF PInv, HandedOnce, Undelivered
<1>9. Answered' => Answered
  BY <1>2 DEF Answered
<1>10. Answered => /\ inBuffer'[1] \in Undelivered'
                   /\ \A i \in 1 .. Len(pipe') : pipe'[i] # inBuffer'[1]
  BY <1>1, <1>2, <1>4, <1>7 DEF PInv, HandedOnce, Undelivered
<1>11. opened' \subseteq accepted'
  BY <1>1, <1>2 DEF PInv, HandedOnce
<1>12. HandedOnce'
  BY <1>1, <1>8, <1>9, <1>10, <1>11 DEF PInv, HandedOnce
<1>. QED  BY <1>1, <1>5, <1>12

(* A step of TcpServer that neither the thread nor the pipe is part of.    *)
LEMMA ServerStep ==
  ASSUME PInv, Next, UNCHANGED postVars, opened' = opened, Answered' => Answered
  PROVE  Next /\ HandedOnce' /\ PostTypeOK'
<1>1. UNCHANGED <<accepted, pipe, inBuffer, accepting>>
  BY DEF postVars
<1>2. TypeOK'
  BY NextStep DEF PInv, IInv
<1>3. PostTypeOK'
  BY <1>1, <1>2 DEF PInv, PostTypeOK
<1>. QED  BY <1>1, <1>3, StillHandedOnce DEF PInv

(***************************************************************************)
(* The refinement of a step: without the thread and the pipe it is a step  *)
(* of TcpServer or none.                                                   *)
(***************************************************************************)
LEMMA PostNextStep ==
  ASSUME PInv, [PostNext]_allVars
  PROVE  [Next]_vars /\ HandedOnce' /\ PostTypeOK'
<1> USE FdFacts
<1>1. CASE PostLoop
  <2>1. Loop /\ UNCHANGED postVars
    BY <1>1 DEF PostLoop
  <2>2. opened' = opened
    BY <2>1 DEF Loop, socketVars
  <2>3. Next
    BY <2>1 DEF Next
  <2>. QED  BY <2>1, <2>2, <2>3, LoopAnswersNone, ServerStep DEF PInv
<1>2. CASE PostedClient
  BY <1>2, PostedStep
<1>3. ASSUME NEW r \in Req, Fails(r), UNCHANGED postVars
      PROVE  [Next]_vars /\ HandedOnce' /\ PostTypeOK'
  <2>1. UNCHANGED <<cq, batch, opened>>
    BY <1>3 DEF Fails, DispatchError, socketVars
  <2>2. Next
    BY <1>3 DEF Next, Handle
  <2>. QED  BY <1>3, <2>1, <2>2, ServerStep DEF Answered
<1>4. ASSUME NEW c \in Fd, Sent(c) \/ Broken(c), UNCHANGED postVars
      PROVE  [Next]_vars /\ HandedOnce' /\ PostTypeOK'
  <2>1. Dispatch(c) /\ cq' = cq /\ opened' = opened
    BY <1>4 DEF Sent, Broken
  <2>2. Next
    BY <1>4 DEF Next, Handle
  <2>. QED  BY <1>4, <2>1, <2>2, ClientAnswersNone, ServerStep DEF PInv
<1>5. CASE AcceptFails
  <2>1. UNCHANGED vars /\ UNCHANGED <<accepted, pipe, inBuffer>>
        /\ accepting' = FALSE
    BY <1>5 DEF AcceptFails
  <2>2. UNCHANGED <<sq, sqLen, kernel, cq, batch, pending, run, status,
                    clients, opened, left>>
    BY <2>1 DEF vars, ringVars, socketVars
  <2>3. TypeOK' = TypeOK
    BY <2>2 DEF TypeOK, RingTypeOK, SocketTypeOK
  <2>4. PostTypeOK'
    BY <2>1, <2>3 DEF PInv, PostTypeOK
  <2>5. HandedOnce'
    BY <2>1, <2>2, StillHandedOnce DEF PInv, Answered
  <2>. QED  BY <2>1, <2>4, <2>5
<1>6. CASE ReadPipe
  BY <1>6, ReadStep
<1>7. ASSUME NEW c \in Fd, Post(c)
      PROVE  [Next]_vars /\ HandedOnce' /\ PostTypeOK'
  BY <1>7, PostStep
<1>8. ASSUME NEW c \in Fd, SendEnds(c)
      PROVE  [Next]_vars /\ HandedOnce' /\ PostTypeOK'
  <2>1. Finish(c) /\ UNCHANGED postVars
    BY <1>8 DEF SendEnds
  <2>2. Next
    BY <2>1 DEF Next
  <2>3. opened' = opened /\ cq' = With(cq, {c}) /\ UNCHANGED batch
    BY <2>1 DEF Finish, Complete, socketVars
  <2>4. cq'[Acceptor] = cq[Acceptor]
    BY <2>3, RingFacts DEF With, PInv
  <2>. QED  BY <2>1, <2>2, <2>3, <2>4, ServerStep DEF Answered
<1>9. CASE UNCHANGED allVars
  <2>1. UNCHANGED vars /\ UNCHANGED <<accepted, pipe, inBuffer, accepting>>
    BY <1>9 DEF allVars, postVars
  <2>2. UNCHANGED <<sq, sqLen, kernel, cq, batch, pending, run, status,
                    clients, opened, left>>
    BY <2>1 DEF vars, ringVars, socketVars
  <2>3. TypeOK' = TypeOK
    BY <2>2 DEF TypeOK, RingTypeOK, SocketTypeOK
  <2>4. PostTypeOK'
    BY <2>1, <2>3 DEF PInv, PostTypeOK
  <2>. QED  BY <2>1, <2>2, <2>4, StillHandedOnce DEF PInv, Answered
<1>. QED
  BY <1>1, <1>2, <1>3, <1>4, <1>5, <1>6, <1>7, <1>8, <1>9
     DEF PostNext, PostHandle

(* The initial state: nothing was accepted and the pipe is empty.          *)
LEMMA PostInitPInv == PostInit => PInv
<1> SUFFICES ASSUME PostInit PROVE PInv
  OBVIOUS
<1>1. /\ Init /\ accepted = {} /\ pipe = <<>> /\ inBuffer = <<>>
      /\ accepting = TRUE
  BY DEF PostInit
<1>2. IInv
  BY <1>1, InitIInv
<1>3. PostTypeOK
  BY <1>1, <1>2, EmptySeq DEF PostTypeOK, IInv
<1>4. opened = {} /\ cq = Empty /\ batch = Empty
  BY <1>1 DEF Init, SocketInit, RingInit
<1>5. ~Answered
  BY <1>4, FdFacts DEF Answered, Empty
<1>6. HandedOnce
  BY <1>1, <1>4, <1>5 DEF HandedOnce
<1>. QED  BY <1>2, <1>3, <1>6 DEF PInv

(* PInv holds in every reachable state.                                    *)
THEOREM PostInvariance == PostSpec => []PInv
<1>1. PostInit => PInv
  BY PostInitPInv
<1>2. PInv /\ [PostNext]_allVars => PInv'
  BY PostNextStep, NextStep DEF PInv
<1>. QED  BY <1>1, <1>2, PTL DEF PostSpec

(* Every variable has its type.                                            *)
THEOREM PostTypeCorrect == PostSpec => []PostTypeOK
<1>1. PInv => PostTypeOK
  BY DEF PInv
<1>. QED  BY <1>1, PostInvariance, PTL

(***************************************************************************)
(* To its clients the server behind the pipe is TcpServer.                 *)
(***************************************************************************)
THEOREM PostImplementsServer == PostSpec => ImplementsServer
<1>1. PostInit => Init
  BY DEF PostInit
<1>2. PInv /\ [PostNext]_allVars => [Next]_vars
  BY PostNextStep
<1>. QED  BY <1>1, <1>2, PostInvariance, PTL DEF PostSpec, ImplementsServer, Spec

(***************************************************************************)
(* What the refinement is for: behind the pipe, too, no callback runs on a *)
(* freed request, a queue one larger than the number of descriptors is     *)
(* never full, and the NOTICE above Broadcast is kept.                     *)
(***************************************************************************)
THEOREM PostKeepsPromises ==
  PostSpec => []NoFreedRequest /\ []OneInFlight /\ []QueueSuffices /\ Notice
<1>1. Spec => []NoFreedRequest /\ []OneInFlight /\ []QueueSuffices /\ Notice
  BY RequestsAreLive, InFlightOnce, QueueLargeEnough, NoticeKept
<1>. QED  BY <1>1, PostImplementsServer DEF ImplementsServer
=============================================================================
