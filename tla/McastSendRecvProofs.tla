------------------------ MODULE McastSendRecvProofs ------------------------
(***************************************************************************)
(* No request of the combined class is lost or in flight twice, and none   *)
(* is written while it is, for every number of slots, every length of      *)
(* cqes, and whatever is_used held before it was ever written.             *)
(*                                                                         *)
(* Every step but the re-arming and SendMessage moves an operation from    *)
(* one part of the ring to the next or takes it off; SendMessage adds one  *)
(* on a request that is not marked, and so, by RequestsKept, nowhere.      *)
(***************************************************************************)
EXTENDS McastSendRecv, TLAPS

KInv ==
  /\ TypeOK
  /\ RequestsKept

----------------------------------------------------------------------------
(* Nothing is in the empty bag.                                            *)
LEMMA EmptyFacts == Empty \in Bag /\ \A r \in Req : Empty[r] = 0
BY DEF Empty, Bag

(* An entry is added.                                                      *)
LEMMA WithFacts ==
  ASSUME NEW b \in Bag, NEW q \in Req
  PROVE  /\ With(b, {q}) \in Bag
         /\ \A r \in Req : With(b, {q})[r] = b[r] + (IF r = q THEN 1 ELSE 0)
BY DEF With, Bag

(* Two bags are put together.                                              *)
LEMMA PlusFacts ==
  ASSUME NEW b1 \in Bag, NEW b2 \in Bag
  PROVE  /\ Plus(b1, b2) \in Bag
         /\ \A r \in Req : Plus(b1, b2)[r] = b1[r] + b2[r]
BY DEF Plus, Bag

(* An entry is taken out.                                                  *)
LEMMA WithoutFacts ==
  ASSUME NEW b \in Bag, NEW q \in Req, b[q] > 0
  PROVE  /\ Without(b, q) \in Bag
         /\ \A r \in Req : Without(b, q)[r] = b[r] - (IF r = q THEN 1 ELSE 0)
BY DEF Without, Bag

(* What Peek takes is part of the completion queue, and the rest remains.  *)
LEMMA BatchFacts ==
  ASSUME NEW bag \in Bag, NEW n \in Nat, NEW b \in Batches(bag, n)
  PROVE  /\ b \in Bag /\ Minus(bag, b) \in Bag
         /\ \A r \in Req : b[r] + Minus(bag, b)[r] = bag[r]
<1>1. b \in Bag /\ \A r \in Req : b[r] <= bag[r]
  <2>1. CASE Size(bag) <= n
    <3>1. b = bag
      BY <2>1 DEF Batches
    <3>. QED  BY <3>1 DEF Bag
  <2>2. CASE ~(Size(bag) <= n)
    <3>1. b \in [Req -> 0 .. n] /\ \A r \in Req : b[r] <= bag[r]
      BY <2>2 DEF Batches
    <3>. QED  BY <3>1 DEF Bag
  <2>. QED  BY <2>1, <2>2
<1>2. Minus(bag, b) = [r \in Req |-> bag[r] - b[r]]
  BY DEF Minus
<1>3. ASSUME NEW r \in Req
      PROVE  bag[r] - b[r] \in Nat /\ b[r] + (bag[r] - b[r]) = bag[r]
  BY <1>1 DEF Bag
<1>. QED  BY <1>1, <1>2, <1>3 DEF Bag

(* The requests: the two kinds and their numbers tell them apart.          *)
LEMMA Requests ==
  /\ \A i \in Slots : Recv(i) \in Req /\ i \in Int /\ i # None
  /\ \A k \in 0 .. RecvSize : Send(k) \in Req
  /\ \A r \in Req : \/ \E i \in Slots : r = Recv(i)
                    \/ \E k \in 0 .. RecvSize : r = Send(k)
  /\ \A i, j : Recv(i) = Recv(j) <=> i = j
  /\ \A i, j : Send(i) = Send(j) <=> i = j
  /\ \A i, k : Recv(i) # Send(k)
BY SendRecvAssumption DEF Recv, Send, Slots, None

(* The types, and what the constants' assumption gives.                    *)
LEMMA Facts ==
  ASSUME KInv
  PROVE  /\ prepared \in Bag /\ submitted \in Bag /\ kernel \in Bag
         /\ cq \in Bag /\ batch \in Bag
         /\ current \in Slots \cup {None}
         /\ used \in [0 .. RecvSize -> BOOLEAN]
         /\ index \in 0 .. RecvSize
         /\ status \in Status
BY DEF KInv, TypeOK

(***************************************************************************)
(* Outstanding by its addends, for the next state as well: every addend is *)
(* a number.                                                               *)
(***************************************************************************)
LEMMA Counted ==
  ASSUME KInv, NEW r \in Req
  PROVE  /\ prepared[r] \in Nat /\ submitted[r] \in Nat /\ kernel[r] \in Nat
         /\ cq[r] \in Nat /\ batch[r] \in Nat
         /\ Outstanding(r) \in Nat
<1>1. /\ prepared[r] \in Nat /\ submitted[r] \in Nat /\ kernel[r] \in Nat
      /\ cq[r] \in Nat /\ batch[r] \in Nat
  BY Facts DEF Bag
<1>2. (IF current # None /\ r = Recv(current) THEN 1 ELSE 0) \in Nat
  OBVIOUS
<1>. QED  BY <1>1, <1>2 DEF Outstanding

(***************************************************************************)
(* A step that keeps what is outstanding, request by request, and what is  *)
(* marked, keeps RequestsKept.                                             *)
(***************************************************************************)
LEMMA KeptBySame ==
  ASSUME KInv, used' = used,
         \A r \in Req : Outstanding(r)' = Outstanding(r)
  PROVE  RequestsKept'
<1>1. \A i \in Slots : Outstanding(Recv(i))' = Outstanding(Recv(i))
  BY Requests
<1>2. \A k \in 0 .. RecvSize : Outstanding(Send(k))' = Outstanding(Send(k))
  BY Requests
<1>. HIDE DEF Outstanding
<1>3. RequestsKept
  BY DEF KInv
<1>. QED  BY <1>1, <1>2, <1>3 DEF RequestsKept

----------------------------------------------------------------------------
(* The constructor and StartReceiver leave every receive submitted.        *)
LEMMA InitInv == Init => KInv
<1>. SUFFICES ASSUME Init
              PROVE  KInv
  OBVIOUS
<1>. DEFINE S == {Recv(i) : i \in Slots}
<1>1. S \in SUBSET Req
  BY Requests
<1>2. /\ prepared = Empty /\ submitted = With(Empty, S) /\ kernel = Empty
      /\ cq = Empty /\ batch = Empty /\ current = None
  BY DEF Init
<1>3. \A i \in Slots : Recv(i) \in S
  OBVIOUS
<1>4. \A k \in 0 .. RecvSize : Send(k) \notin S
  BY Requests
<1>. HIDE DEF S
<1>5. submitted \in Bag /\ Empty \in Bag
  BY <1>2, EmptyFacts DEF With, Bag
<1>6. TypeOK
  BY <1>2, <1>5, SendRecvAssumption DEF Init, TypeOK, Status
<1>7. ASSUME NEW r \in Req
      PROVE  Outstanding(r) = IF r \in S THEN 1 ELSE 0
  <2>1. Empty[r] = 0 /\ submitted[r] = Empty[r] + (IF r \in S THEN 1 ELSE 0)
    BY <1>2, EmptyFacts DEF With
  <2>. QED  BY <2>1, <1>2 DEF Outstanding
<1>8. \A i \in Slots : Outstanding(Recv(i)) = 1
  BY <1>3, <1>7, Requests
<1>9. \A k \in 0 .. RecvSize : Outstanding(Send(k)) = 0
  BY <1>4, <1>7, Requests
<1>. QED  BY <1>6, <1>8, <1>9 DEF KInv, RequestsKept

(* The kernel thread takes an entry.                                       *)
LEMMA TakeStep ==
  ASSUME KInv, NEW q \in Req, Take(q)
  PROVE  KInv'
<1>1. /\ submitted[q] > 0
      /\ submitted' = Without(submitted, q) /\ kernel' = With(kernel, {q})
      /\ UNCHANGED <<prepared, cq, batch, current, used, index, status>>
  BY DEF Take
<1>2. /\ submitted' \in Bag /\ kernel' \in Bag
      /\ \A r \in Req :
           /\ submitted'[r] = submitted[r] - (IF r = q THEN 1 ELSE 0)
           /\ kernel'[r] = kernel[r] + (IF r = q THEN 1 ELSE 0)
  BY <1>1, Facts, WithFacts, WithoutFacts
<1>3. TypeOK'
  BY <1>1, <1>2, Facts DEF TypeOK
<1>4. ASSUME NEW r \in Req
      PROVE  Outstanding(r)' = Outstanding(r)
  <2>. DEFINE h == IF current # None /\ r = Recv(current) THEN 1 ELSE 0
  <2>1. Outstanding(r) = prepared[r] + submitted[r] + kernel[r] + cq[r]
                           + batch[r] + h
    BY DEF Outstanding
  <2>2. Outstanding(r)' = prepared[r] + submitted'[r] + kernel'[r] + cq[r]
                            + batch[r] + h
    BY <1>1 DEF Outstanding
  <2>3. h \in Nat
    OBVIOUS
  <2>. HIDE DEF h, Outstanding
  <2>4. /\ prepared[r] \in Nat /\ submitted[r] \in Nat /\ kernel[r] \in Nat
        /\ cq[r] \in Nat /\ batch[r] \in Nat
    BY Counted
  <2>. QED  BY <1>2, <2>1, <2>2, <2>3, <2>4
<1>. QED  BY <1>1, <1>3, <1>4, KeptBySame DEF KInv

(* The kernel finishes an operation.                                       *)
LEMMA CompleteStep ==
  ASSUME KInv, NEW q \in Req, Complete(q)
  PROVE  KInv'
<1>1. /\ kernel[q] > 0
      /\ kernel' = Without(kernel, q) /\ cq' = With(cq, {q})
      /\ UNCHANGED <<prepared, submitted, batch, current, used, index, status>>
  BY DEF Complete
<1>2. /\ kernel' \in Bag /\ cq' \in Bag
      /\ \A r \in Req :
           /\ kernel'[r] = kernel[r] - (IF r = q THEN 1 ELSE 0)
           /\ cq'[r] = cq[r] + (IF r = q THEN 1 ELSE 0)
  BY <1>1, Facts, WithFacts, WithoutFacts
<1>3. TypeOK'
  BY <1>1, <1>2, Facts DEF TypeOK
<1>4. ASSUME NEW r \in Req
      PROVE  Outstanding(r)' = Outstanding(r)
  <2>. DEFINE h == IF current # None /\ r = Recv(current) THEN 1 ELSE 0
  <2>1. Outstanding(r) = prepared[r] + submitted[r] + kernel[r] + cq[r]
                           + batch[r] + h
    BY DEF Outstanding
  <2>2. Outstanding(r)' = prepared[r] + submitted[r] + kernel'[r] + cq'[r]
                            + batch[r] + h
    BY <1>1 DEF Outstanding
  <2>3. h \in Nat
    OBVIOUS
  <2>. HIDE DEF h, Outstanding
  <2>4. /\ prepared[r] \in Nat /\ submitted[r] \in Nat /\ kernel[r] \in Nat
        /\ cq[r] \in Nat /\ batch[r] \in Nat
    BY Counted
  <2>. QED  BY <1>2, <2>1, <2>2, <2>3, <2>4
<1>. QED  BY <1>1, <1>3, <1>4, KeptBySame DEF KInv

(* The loop peeks a batch, whether or not it fits into cqes.               *)
LEMMA PeekStep ==
  ASSUME KInv, Peek
  PROVE  KInv'
<1>1. /\ batch = Empty /\ batch' \in Batches(cq, QueueSize)
      /\ cq' = Minus(cq, batch')
      /\ status' \in {"overrun", status}
      /\ UNCHANGED <<prepared, submitted, kernel, current, used, index>>
  BY DEF Peek, LoopHead
<1>2. QueueSize \in Nat
  BY SendRecvAssumption DEF QueueSize
<1>3. /\ batch' \in Bag /\ cq' \in Bag
      /\ \A r \in Req : batch'[r] + cq'[r] = cq[r]
  BY <1>1, <1>2, Facts, BatchFacts
<1>4. TypeOK'
  BY <1>1, <1>3, Facts DEF TypeOK, Status
<1>5. ASSUME NEW r \in Req
      PROVE  Outstanding(r)' = Outstanding(r)
  <2>1. batch[r] = 0
    BY <1>1, EmptyFacts
  <2>2. batch'[r] \in Nat /\ cq'[r] \in Nat /\ batch'[r] + cq'[r] = cq[r]
    BY <1>3 DEF Bag
  <2>. QED  BY <1>1, <2>1, <2>2, Counted DEF Outstanding
<1>. QED  BY <1>1, <1>4, <1>5, KeptBySame DEF KInv

(* A send is over: it was marked, and is now neither marked nor in flight. *)
LEMMA SendDoneStep ==
  ASSUME KInv, NEW k \in 0 .. RecvSize, SendDone(k)
  PROVE  KInv'
<1>1. /\ batch[Send(k)] > 0 /\ batch' = Without(batch, Send(k))
      /\ used' = [used EXCEPT ![k] = FALSE]
      /\ UNCHANGED <<prepared, submitted, kernel, cq, current, index, status>>
  BY DEF SendDone, At, ring
<1>2. /\ batch' \in Bag
      /\ \A r \in Req : batch'[r] = batch[r] - (IF r = Send(k) THEN 1 ELSE 0)
  BY <1>1, Facts, WithoutFacts, Requests
<1>3. TypeOK'
  BY <1>1, <1>2, Facts DEF TypeOK
<1>4. ASSUME NEW r \in Req
      PROVE  Outstanding(r)' = Outstanding(r) - (IF r = Send(k) THEN 1 ELSE 0)
  BY <1>1, <1>2, Counted DEF Outstanding
<1>5. \A i \in Slots : Outstanding(Recv(i))' = 1
  BY <1>4, Requests DEF KInv, RequestsKept
<1>6. ASSUME NEW j \in 0 .. RecvSize
      PROVE  /\ Outstanding(Send(j))' <= 1
             /\ Outstanding(Send(j))' = 1 => used'[j]
  <2>1. Send(j) \in Req /\ (Send(j) = Send(k) <=> j = k)
    BY Requests
  <2>2. /\ Outstanding(Send(j)) \in Nat /\ Outstanding(Send(j)) <= 1
        /\ Outstanding(Send(j)) = 1 => used[j]
    BY <2>1, Counted DEF KInv, RequestsKept
  <2>3. Outstanding(Send(j))'
          = Outstanding(Send(j)) - (IF j = k THEN 1 ELSE 0)
    BY <1>4, <2>1
  <2>4. j # k => used'[j] = used[j]
    BY <1>1, Facts
  <2>. HIDE DEF Outstanding
  <2>. QED  BY ONLY <2>2, <2>3, <2>4
<1>. QED  BY <1>3, <1>5, <1>6 DEF KInv, RequestsKept

(* A receive is over: it is the one whose handler runs.                    *)
LEMMA ReceivedStep ==
  ASSUME KInv, NEW i \in Slots, Received(i)
  PROVE  KInv'
<1>1. /\ current = None /\ batch[Recv(i)] > 0
      /\ batch' = Without(batch, Recv(i)) /\ current' = i
      /\ UNCHANGED <<prepared, submitted, kernel, cq, used, index, status>>
  BY DEF Received, At, ring
<1>2. /\ batch' \in Bag
      /\ \A r \in Req : batch'[r] = batch[r] - (IF r = Recv(i) THEN 1 ELSE 0)
  BY <1>1, Facts, WithoutFacts, Requests
<1>3. TypeOK'
  BY <1>1, <1>2, Facts DEF TypeOK
<1>4. ASSUME NEW r \in Req
      PROVE  Outstanding(r)' = Outstanding(r)
  <2>1. i # None
    BY Requests
  <2>. QED  BY <1>1, <1>2, <2>1, Counted DEF Outstanding
<1>. QED  BY <1>1, <1>3, <1>4, KeptBySame DEF KInv

(***************************************************************************)
(* The request that SendMessage takes is in flight nowhere, because it is  *)
(* not marked; afterwards it is marked and in flight once.                 *)
(***************************************************************************)
LEMMA SendMessageStep ==
  ASSUME KInv, SendMessage
  PROVE  /\ KInv'
         /\ Outstanding(Send(index)) = 0
<1>. DEFINE q == Send(index)
            W == With(prepared, {q})
<1>1. /\ ~used[index] /\ used' = [used EXCEPT ![index] = TRUE]
      /\ index' = NextIndex(index)
      /\ submitted' = Plus(submitted, W)
      /\ prepared' = Empty
      /\ UNCHANGED <<kernel, cq, batch, current, status>>
  BY DEF SendMessage, SetupSendRequest, Submit
<1>2. index \in 0 .. RecvSize /\ q \in Req
  BY Facts, Requests
<1>3. Outstanding(q) = 0
  <2>1. Outstanding(q) \in Nat
    BY <1>2, Counted
  <2>2. Outstanding(q) <= 1 /\ (Outstanding(q) = 1 => used[index])
    BY <1>2 DEF KInv, RequestsKept
  <2>. HIDE DEF Outstanding
  <2>. QED  BY <1>1, <2>1, <2>2
<1>4. index' \in 0 .. RecvSize
  BY <1>1, <1>2, SendRecvAssumption DEF NextIndex
<1>. HIDE DEF q
<1>5. /\ W \in Bag
      /\ \A r \in Req : W[r] = prepared[r] + (IF r = q THEN 1 ELSE 0)
  BY <1>2, Facts, WithFacts
<1>. HIDE DEF W
<1>6. /\ prepared' \in Bag /\ submitted' \in Bag
      /\ \A r \in Req :
           /\ prepared'[r] = 0
           /\ submitted'[r] = submitted[r] + W[r]
  BY <1>1, <1>5, Facts, PlusFacts, EmptyFacts
<1>7. TypeOK'
  BY <1>1, <1>4, <1>6, Facts DEF TypeOK
<1>8. ASSUME NEW r \in Req
      PROVE  Outstanding(r)' = Outstanding(r) + (IF r = q THEN 1 ELSE 0)
  <2>1. W[r] = prepared[r] + (IF r = q THEN 1 ELSE 0)
    BY <1>5
  <2>2. /\ prepared'[r] = 0
        /\ submitted'[r] = submitted[r] + W[r]
    BY <1>6
  <2>. DEFINE h == IF current # None /\ r = Recv(current) THEN 1 ELSE 0
  <2>3. Outstanding(r) = prepared[r] + submitted[r] + kernel[r] + cq[r]
                           + batch[r] + h
    BY DEF Outstanding
  <2>4. Outstanding(r)' = prepared'[r] + submitted'[r] + kernel[r] + cq[r]
                            + batch[r] + h
    BY <1>1 DEF Outstanding
  <2>5. h \in Nat
    OBVIOUS
  <2>. HIDE DEF h, Outstanding
  <2>6. /\ prepared[r] \in Nat /\ submitted[r] \in Nat /\ kernel[r] \in Nat
        /\ cq[r] \in Nat /\ batch[r] \in Nat
    BY Counted
  <2>. QED  BY <2>1, <2>2, <2>3, <2>4, <2>5, <2>6
<1>9. \A i \in Slots : Outstanding(Recv(i))' = 1
  BY <1>8, Requests DEF KInv, RequestsKept, q
<1>10. ASSUME NEW j \in 0 .. RecvSize
       PROVE  /\ Outstanding(Send(j))' <= 1
              /\ Outstanding(Send(j))' = 1 => used'[j]
  <2>1. Send(j) \in Req /\ (Send(j) = q <=> j = index)
    BY Requests DEF q
  <2>2. /\ Outstanding(Send(j)) <= 1
        /\ Outstanding(Send(j)) = 1 => used[j]
    BY DEF KInv, RequestsKept
  <2>3. Outstanding(Send(j))'
          = Outstanding(Send(j)) + (IF j = index THEN 1 ELSE 0)
    BY <1>8, <2>1
  <2>4. Outstanding(Send(j)) \in Nat
    BY <2>1, Counted
  <2>5. j = index => Outstanding(Send(j)) = 0
    BY <1>3, <2>1
  <2>6. used'[j] = IF j = index THEN TRUE ELSE used[j]
    BY <1>1, Facts
  <2>. HIDE DEF Outstanding
  <2>. QED  BY ONLY <2>2, <2>3, <2>4, <2>5, <2>6
<1>. QED  BY <1>3, <1>7, <1>9, <1>10 DEF KInv, RequestsKept, q

(* The handler's receive is armed again, submitted or only prepared.       *)
LEMMA HandlerReturnsStep ==
  ASSUME KInv, HandlerReturns
  PROVE  KInv'
<1>. DEFINE q == Recv(current)
            W == With(prepared, {q})
<1>1. /\ current # None /\ current' = None
      /\ SetupReceiveQueueEntry(current)
      /\ UNCHANGED <<kernel, cq, batch, used, index, status>>
  BY DEF HandlerReturns, InHandler
<1>2. current \in Slots /\ q \in Req
  BY <1>1, Facts, Requests
<1>. HIDE DEF q
<1>3. /\ W \in Bag
      /\ \A r \in Req : W[r] = prepared[r] + (IF r = q THEN 1 ELSE 0)
  BY <1>2, Facts, WithFacts
<1>4. \/ /\ submitted' = Plus(submitted, W)
         /\ prepared' = Empty
      \/ /\ prepared' = W
         /\ submitted' = submitted
  BY <1>1 DEF SetupReceiveQueueEntry, Submit, q
<1>. HIDE DEF W
<1>5. /\ prepared' \in Bag /\ submitted' \in Bag
      /\ \A r \in Req : prepared'[r] + submitted'[r] = W[r] + submitted[r]
  <2>1. CASE /\ submitted' = Plus(submitted, W)
             /\ prepared' = Empty
    <3>1. /\ prepared' \in Bag /\ submitted' \in Bag
          /\ \A r \in Req :
               /\ prepared'[r] = 0
               /\ submitted'[r] = submitted[r] + W[r]
      BY <2>1, <1>3, Facts, PlusFacts, EmptyFacts
    <3>2. \A r \in Req : /\ submitted[r] \in Nat
                         /\ W[r] \in Nat
      BY <1>3, Facts DEF Bag
    <3>. QED  BY <3>1, <3>2
  <2>2. CASE /\ prepared' = W
             /\ submitted' = submitted
    BY <2>2, <1>3, Facts
  <2>. QED  BY <1>4, <2>1, <2>2
<1>6. TypeOK'
  BY <1>1, <1>5, Facts DEF TypeOK
<1>7. ASSUME NEW r \in Req
      PROVE  Outstanding(r)' = Outstanding(r)
  <2>1. prepared'[r] + submitted'[r]
          = prepared[r] + (IF r = q THEN 1 ELSE 0) + submitted[r]
    BY <1>3, <1>5
  <2>2. prepared'[r] \in Nat /\ submitted'[r] \in Nat
    BY <1>5 DEF Bag
  <2>3. Outstanding(r) = prepared[r] + submitted[r] + kernel[r] + cq[r]
                           + batch[r] + (IF r = q THEN 1 ELSE 0)
    BY <1>1 DEF Outstanding, q
  <2>4. Outstanding(r)' = prepared'[r] + submitted'[r] + kernel[r] + cq[r]
                            + batch[r] + 0
    BY <1>1 DEF Outstanding
  <2>5. /\ prepared[r] \in Nat /\ submitted[r] \in Nat /\ kernel[r] \in Nat
        /\ cq[r] \in Nat /\ batch[r] \in Nat
    BY Counted
  <2>. HIDE DEF Outstanding
  <2>. QED  BY ONLY <2>1, <2>2, <2>3, <2>4, <2>5
<1>. QED  BY <1>1, <1>6, <1>7, KeptBySame DEF KInv

(* An exit of the process changes nothing but the status.                  *)
LEMMA ExitStep ==
  ASSUME KInv, status' \in Status,
         UNCHANGED <<prepared, submitted, kernel, cq, batch, current, used,
                     index>>
  PROVE  KInv'
BY DEF KInv, TypeOK, RequestsKept, Outstanding

----------------------------------------------------------------------------
(* Every step keeps the invariant.                                         *)
LEMMA NextStep == KInv /\ [Next]_vars => KInv'
<1>. SUFFICES ASSUME KInv, [Next]_vars
              PROVE  KInv'
  OBVIOUS
<1>1. CASE Peek
  BY <1>1, PeekStep
<1>2. CASE \E i \in Slots : Received(i)
  BY <1>2, ReceivedStep
<1>3. CASE \E k \in 0 .. RecvSize : SendDone(k)
  BY <1>3, SendDoneStep
<1>4. CASE SendMessage
  BY <1>4, SendMessageStep
<1>5. CASE SendMessageFatal
  BY <1>5, ExitStep DEF SendMessageFatal, ring, Status
<1>6. CASE HandlerReturns
  BY <1>6, HandlerReturnsStep
<1>7. CASE WaitFails
  BY <1>7, ExitStep DEF WaitFails, ring, Status
<1>8. CASE SendMessageError
  BY <1>8, ExitStep DEF SendMessageError, ring, Status
<1>9. CASE StopReceiver
  BY <1>9, ExitStep DEF StopReceiver, ring, Status
<1>10. CASE \E r \in Req : Take(r) \/ Complete(r)
  BY <1>10, TakeStep, CompleteStep
<1>11. CASE UNCHANGED vars
  BY <1>11, Facts, ExitStep DEF vars, ring
<1>. QED  BY <1>1, <1>2, <1>3, <1>4, <1>5, <1>6, <1>7, <1>8, <1>9, <1>10,
             <1>11 DEF Next, Work

(* KInv holds in every state of the class.                                 *)
THEOREM Invariance == Spec => []KInv
<1>. QED  BY InitInv, NextStep, PTL DEF Spec

(* Every variable has its type; the send index stays in the memory that    *)
(* the model gives the requests.                                           *)
THEOREM TypeCorrect == Spec => []TypeOK
<1>1. KInv => TypeOK
  BY DEF KInv
<1>. QED  BY <1>1, Invariance, PTL

(***************************************************************************)
(* Every receive is somewhere in the ring exactly once, and a send request *)
(* in flight is there once and marked.                                     *)
(***************************************************************************)
THEOREM NothingLost == Spec => []RequestsKept
<1>1. KInv => RequestsKept
  BY DEF KInv
<1>. QED  BY <1>1, Invariance, PTL

(***************************************************************************)
(* A step marks a send request, and so writes its buffer, only when no     *)
(* earlier send of it is in flight (SetupSendRequest).                     *)
(***************************************************************************)
NoneInFlight ==
  \A k \in 0 .. RecvSize : used'[k] /\ ~used[k] => Outstanding(Send(k)) = 0

(***************************************************************************)
(* The buffer of a datagram that is still to be sent is never written:     *)
(* what the kernel sends is what SendMessage was given.                    *)
(***************************************************************************)
THEOREM NeverOverwritten == Spec => [][NoneInFlight]_vars
<1>1. ASSUME KInv, [Next]_vars
      PROVE  [NoneInFlight]_vars
  <2>. SUFFICES ASSUME NEW k \in 0 .. RecvSize, used'[k], ~used[k]
                PROVE  Outstanding(Send(k)) = 0
    BY DEF NoneInFlight
  <2>. HIDE DEF Outstanding
  <2>1. CASE SendMessage
    <3>1. used' = [used EXCEPT ![index] = TRUE]
      BY <2>1 DEF SendMessage, SetupSendRequest
    <3>2. k = index
      BY <1>1, <3>1, Facts
    <3>. QED  BY <1>1, <2>1, <3>2, SendMessageStep
  <2>2. CASE \E j \in 0 .. RecvSize : SendDone(j)
    BY <1>1, <2>2, Facts DEF SendDone
  <2>3. CASE used' = used
    BY <2>3
  <2>4. CASE ~SendMessage /\ ~(\E j \in 0 .. RecvSize : SendDone(j))
    <3>1. used' = used
      BY <1>1, <2>4 DEF Next, Work, Peek, Received, SendMessageFatal,
         HandlerReturns, WaitFails, SendMessageError, StopReceiver, Take,
         Complete, vars
    <3>. QED  BY <3>1, <2>3
  <2>. QED  BY <2>1, <2>2, <2>4
<1>. QED  BY <1>1, Invariance, PTL DEF Spec
=============================================================================
