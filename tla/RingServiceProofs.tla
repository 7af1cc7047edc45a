------------------------- MODULE RingServiceProofs -------------------------
(***************************************************************************)
(* Ring and event loop implement AsyncOps for every set of requests, every *)
(* queue size and every application, and never forget to submit.           *)
(*                                                                         *)
(* A step that moves operations between submission queue, kernel,          *)
(* completion queue and batch is a stutter of AsyncOps; a callback is its  *)
(* Callback; the exits are its Close.                                      *)
(*                                                                         *)
(* The second part is about one application, TcpClient: it implements      *)
(* RingService, so all of this holds of it, and it keeps every request     *)
(* armed once.                                                             *)
(***************************************************************************)
EXTENDS RingService, TcpClient, FiniteSetTheorems, TLAPS

Inv ==
  /\ TypeOK
  /\ PendingCovers

(* A set of requests is finite.                                            *)
LEMMA SizeFacts ==
  ASSUME NEW S \in SUBSET Req
  PROVE  Cardinality(S) \in Nat
BY RingAssumption, FS_Subset, FS_CardinalityType

(* Adding to a bag, merging bags and taking out what is there keep bags.   *)
LEMMA BagFacts ==
  /\ Empty \in Bag
  /\ \A b \in Bag, S \in SUBSET Req : With(b, S) \in Bag
  /\ \A b1, b2 \in Bag : Plus(b1, b2) \in Bag
  /\ \A b \in Bag, r \in Req : b[r] > 0 => Without(b, r) \in Bag
BY DEF Empty, Bag, With, Plus, Without

----------------------------------------------------------------------------
(* What a callback leaves in the submission queue and gives to the kernel. *)
LEMMA IssueInv ==
  ASSUME Inv, NEW first \in SUBSET Req, NEW last \in SUBSET Req,
         NEW submit \in BOOLEAN, Issue(first, submit, last)
  PROVE  /\ sq' \in Bag /\ kernel' \in Bag
         /\ sqLen' \in 0 .. QueueSize
         /\ pending' \in BOOLEAN
         /\ status' \in {status, "sq_full"}
         /\ PendingCovers'
<1>1. /\ sq \in Bag /\ kernel \in Bag /\ sqLen \in 0 .. QueueSize
      /\ pending \in BOOLEAN /\ PendingCovers
  BY DEF Inv, TypeOK, RingTypeOK
<1>2. Cardinality(first) \in Nat /\ Cardinality(last) \in Nat
  BY SizeFacts
<1>3. CASE QueueFull(first, submit, last)
  <2>1. status' = "sq_full" /\ UNCHANGED <<sq, sqLen, kernel, pending>>
    BY <1>3 DEF Issue
  <2>. QED  BY <1>1, <2>1 DEF PendingCovers
<1>4. CASE ~QueueFull(first, submit, last)
  <2>1. /\ LET filled == With(sq, first)
           IN  /\ sq' = With(IF submit THEN Empty ELSE filled, last)
               /\ kernel' = IF submit THEN Plus(kernel, filled) ELSE kernel
        /\ sqLen' = (IF submit THEN 0 ELSE sqLen + Cardinality(first))
                      + Cardinality(last)
        /\ pending' = \/ last # {}
                      \/ ~submit /\ (pending \/ first # {})
        /\ status' = status
    BY <1>4, Zenon DEF Issue
  <2>2. With(sq, first) \in Bag
    BY <1>1, BagFacts
  <2>3. sq' \in Bag
    BY <2>1, <2>2, BagFacts
  <2>4. kernel' \in Bag
    BY <1>1, <2>1, <2>2, BagFacts
  <2>5. sqLen' \in 0 .. QueueSize
    BY <1>1, <1>2, <1>4, <2>1, RingAssumption DEF QueueFull
  <2>6. pending' \in BOOLEAN
    BY <2>1, Zenon
  <2>7. PendingCovers'
    <3> SUFFICES ASSUME ~pending' PROVE sq' = Empty
      BY DEF PendingCovers
    <3>1. last = {} /\ (submit \/ (~pending /\ first = {}))
      <4>1. ~(last # {} \/ (~submit /\ (pending \/ first # {})))
        BY <2>1, Zenon
      <4>. QED  BY <4>1, Zenon
    <3>2. CASE submit
      BY <2>1, <3>1, <3>2 DEF With, Empty
    <3>3. CASE ~submit
      BY <1>1, <2>1, <3>1, <3>3 DEF With, Empty, PendingCovers, Bag
    <3>. QED  BY <3>2, <3>3
  <2>. QED  BY <2>1, <2>3, <2>4, <2>5, <2>6, <2>7
<1>. QED  BY <1>3, <1>4

LEMMA InitInv == Init => Inv
<1> SUFFICES ASSUME NEW S \in SUBSET Req, Cardinality(S) <= QueueSize,
                    RingInit(S)
             PROVE  Inv
  BY DEF Init
<1>1. /\ sq = With(Empty, S) /\ sqLen = Cardinality(S) /\ kernel = Empty
      /\ cq = Empty /\ batch = Empty /\ pending = (S # {}) /\ run = TRUE
      /\ status = "running"
  BY DEF RingInit
<1>2. sqLen \in 0 .. QueueSize
  BY <1>1, SizeFacts, RingAssumption
<1>3. pending \in BOOLEAN
  BY <1>1, Zenon
<1>4. TypeOK
  BY <1>1, <1>2, <1>3, BagFacts DEF TypeOK, RingTypeOK, Status
<1>5. PendingCovers
  <2> SUFFICES ASSUME ~pending PROVE sq = Empty
    BY DEF PendingCovers
  <2>1. S = {}
    BY <1>1, Zenon
  <2>. QED  BY <1>1, <2>1 DEF With, Empty
<1>. QED  BY <1>4, <1>5 DEF Inv

LEMMA NextInv == Inv /\ [Next]_ringVars => Inv'
<1> SUFFICES ASSUME Inv, [Next]_ringVars PROVE Inv'
  OBVIOUS
<1>1. /\ sq \in Bag /\ sqLen \in 0 .. QueueSize /\ kernel \in Bag
      /\ cq \in Bag /\ batch \in Bag /\ pending \in BOOLEAN
      /\ run \in BOOLEAN /\ status \in Status /\ PendingCovers
  BY DEF Inv, TypeOK, RingTypeOK
<1> USE DEF Inv, TypeOK, RingTypeOK
<1>2. CASE LoopSubmit
  <2>1. 0 \in 0 .. QueueSize /\ Plus(kernel, sq) \in Bag
    BY <1>1, BagFacts, RingAssumption
  <2>. QED  BY <1>1, <1>2, <2>1, BagFacts DEF LoopSubmit, PendingCovers
<1>3. CASE LoopPeek
  <2>1. /\ cq' = [r \in Req |-> cq[r] - batch'[r]]
        /\ UNCHANGED <<sq, sqLen, kernel, pending, run, status>>
    BY <1>3 DEF LoopPeek, Minus
  <2>2. batch' \in Bag /\ \A r \in Req : batch'[r] <= cq[r]
    BY <1>1, <1>3 DEF LoopPeek, Batches, Bag
  <2>3. cq' \in Bag
    BY <1>1, <2>1, <2>2 DEF Bag
  <2>. QED  BY <1>1, <2>1, <2>2, <2>3 DEF PendingCovers
<1>4. CASE LoopWaitFails \/ LoopDone \/ DispatchUnmapped
  BY <1>1, <1>4
     DEF LoopWaitFails, LoopDone, DispatchUnmapped, PendingCovers, Status
<1>5. ASSUME NEW r \in Req, Complete(r) PROVE Inv'
  <2>1. Without(kernel, r) \in Bag /\ With(cq, {r}) \in Bag
    BY <1>1, <1>5, BagFacts DEF Complete
  <2>. QED  BY <1>1, <1>5, <2>1 DEF Complete, PendingCovers
<1>6. ASSUME NEW r \in Req, Dispatch(r) PROVE batch' \in Bag
  BY <1>1, <1>6, BagFacts DEF Dispatch, AtCompletion
<1>7. ASSUME NEW r \in Req, Stop(r) PROVE Inv'
  BY <1>1, <1>6, <1>7 DEF Stop, PendingCovers
<1>8. ASSUME NEW r \in Req, DispatchError(r) PROVE Inv'
  BY <1>1, <1>8 DEF DispatchError, PendingCovers, Status
<1>9. ASSUME NEW r \in Req, NEW first \in SUBSET Req, NEW last \in SUBSET Req,
             NEW submit \in BOOLEAN, Continue(r, first, submit, last)
      PROVE  Inv'
  <2>1. /\ Dispatch(r) /\ Issue(first, submit, last) /\ UNCHANGED <<cq, run>>
    BY <1>9 DEF Continue
  <2>2. batch' \in Bag
    BY <1>6, <2>1
  <2>3. /\ sq' \in Bag /\ kernel' \in Bag /\ sqLen' \in 0 .. QueueSize
        /\ pending' \in BOOLEAN /\ status' \in {status, "sq_full"}
        /\ PendingCovers'
    BY <2>1, IssueInv
  <2>. QED  BY <1>1, <2>1, <2>2, <2>3 DEF Status
<1>10. CASE UNCHANGED ringVars
  BY <1>1, <1>10 DEF ringVars, PendingCovers
<1>11. ASSUME NEW r \in Req, Handle(r) PROVE Inv'
  BY <1>7, <1>8, <1>9, <1>11 DEF Handle
<1>. QED
  BY <1>2, <1>3, <1>4, <1>5, <1>10, <1>11 DEF Next, LoopNext, LoopStep

THEOREM Invariance == Spec => []Inv
BY InitInv, NextInv, PTL DEF Spec

(* Queues stay bags and the submission queue never exceeds its size.       *)
THEOREM TypeCorrect == Spec => []TypeOK
<1>1. Inv => TypeOK
  BY DEF Inv
<1>. QED  BY <1>1, Invariance, PTL

(* Whatever callbacks do, _pending is set when an entry waits.             *)
THEOREM NeverForgets == Spec => []PendingCovers
<1>1. Inv => PendingCovers
  BY DEF Inv
<1>. QED  BY <1>1, Invariance, PTL

----------------------------------------------------------------------------
(* The refinement.                                                         *)

Now == [r \in Req |-> Outstanding(r)]

Open == run /\ status = "running"

LEMMA OpsInit == Init => Ops!Init
<1> SUFFICES ASSUME NEW S \in SUBSET Req, RingInit(S)
             PROVE  Ops!Init
  BY DEF Init
<1>1. /\ sq = With(Empty, S) /\ kernel = Empty /\ cq = Empty
      /\ batch = Empty /\ run = TRUE /\ status = "running"
  BY DEF RingInit
<1>2. Now \in [Req -> {0, 1}]
  BY <1>1 DEF Now, Outstanding, With, Empty
<1>3. Open = TRUE
  BY <1>1 DEF Open
<1>. QED  BY <1>2, <1>3 DEF Ops!Init, Now, Open

(* Moving operations along is a stutter.                                   *)
LEMMA Stutter ==
  ASSUME \A r \in Req : Outstanding(r)' = Outstanding(r), Open' = Open
  PROVE  UNCHANGED Ops!vars
BY DEF Ops!vars, Open

(* Giving up is Close.                                                     *)
LEMMA GivesUp ==
  ASSUME \A r \in Req : Outstanding(r)' = Outstanding(r), Open, ~Open'
  PROVE  Ops!Close
BY DEF Ops!Close, Open

(* A callback answers one operation and starts others.                     *)
LEMMA CallbackStep ==
  ASSUME Inv, NEW r \in Req, NEW first \in SUBSET Req,
         NEW last \in SUBSET Req, NEW submit \in BOOLEAN,
         Continue(r, first, submit, last)
  PROVE  Ops!Callback(r)
<1>1. /\ status = "running" /\ run /\ batch[r] > 0
      /\ batch' = Without(batch, r) /\ UNCHANGED <<cq, run>>
      /\ Issue(first, submit, last)
  BY DEF Continue, Dispatch, AtCompletion
<1>2. /\ sq \in [Req -> Nat] /\ kernel \in [Req -> Nat]
      /\ cq \in [Req -> Nat] /\ batch \in [Req -> Nat]
  BY DEF Inv, TypeOK, RingTypeOK, Bag
<1>3. Outstanding(r) > 0
  BY <1>1, <1>2 DEF Outstanding
<1>4. \A q \in Req : batch'[q] = IF q = r THEN batch[q] - 1 ELSE batch[q]
  BY <1>1, <1>2 DEF Without
<1> DEFINE In(q, S) == IF q \in S THEN 1 ELSE 0
           started == IF QueueFull(first, submit, last)
                      THEN [q \in Req |-> 0]
                      ELSE [q \in Req |-> In(q, first) + In(q, last)]
<1>5. started \in [Req -> 0 .. 2]
  OBVIOUS
<1>6. \A q \in Req :
        sq'[q] + kernel'[q] = sq[q] + kernel[q] + started[q]
  <2>1. CASE QueueFull(first, submit, last)
    <3>1. UNCHANGED <<sq, kernel>>
      BY <1>1, <2>1 DEF Issue
    <3>. QED  BY <1>2, <2>1, <3>1
  <2>2. CASE ~QueueFull(first, submit, last)
    <3>1. LET filled == With(sq, first)
          IN  /\ sq' = With(IF submit THEN Empty ELSE filled, last)
              /\ kernel' = IF submit THEN Plus(kernel, filled) ELSE kernel
      BY <1>1, <2>2, Zenon DEF Issue
    <3>2. CASE submit
      BY <1>2, <2>2, <3>1, <3>2 DEF With, Plus, Empty
    <3>3. CASE ~submit
      BY <1>2, <2>2, <3>1, <3>3 DEF With
    <3>. QED  BY <3>2, <3>3
  <2>. QED  BY <2>1, <2>2
<1>7. sq' \in [Req -> Nat] /\ kernel' \in [Req -> Nat]
  BY <1>1, IssueInv DEF Bag
<1>8. \A q \in Req :
        Outstanding(q)' = IF q = r THEN Outstanding(q) - 1 + started[q]
                                   ELSE Outstanding(q) + started[q]
  <2> TAKE q \in Req
  <2> HIDE DEF started
  <2>1. /\ sq[q] \in Nat /\ kernel[q] \in Nat /\ cq[q] \in Nat
        /\ batch[q] \in Nat /\ sq'[q] \in Nat /\ kernel'[q] \in Nat
        /\ started[q] \in Int /\ cq'[q] = cq[q]
    BY <1>1, <1>2, <1>5, <1>7
  <2>. QED  BY <1>4, <1>6, <2>1 DEF Outstanding
<1>9. Now' = [q \in Req |-> IF q = r THEN Now[q] - 1 + started[q]
                                     ELSE Now[q] + started[q]]
  BY <1>8 DEF Now
<1>10. Open' \in BOOLEAN /\ Open /\ Now[r] > 0
  BY <1>1, <1>3 DEF Open, Now
<1> HIDE DEF started
<1>. QED  BY <1>5, <1>9, <1>10 DEF Ops!Callback, Now, Open

LEMMA StopStep ==
  ASSUME Inv, NEW r \in Req, Stop(r)
  PROVE  Ops!Callback(r)
<1>1. /\ status = "running" /\ run /\ batch[r] > 0
      /\ batch' = Without(batch, r)
      /\ UNCHANGED <<sq, kernel, cq>> /\ run' = FALSE
  BY DEF Stop, Dispatch, AtCompletion
<1>2. /\ sq \in [Req -> Nat] /\ kernel \in [Req -> Nat]
      /\ cq \in [Req -> Nat] /\ batch \in [Req -> Nat]
  BY DEF Inv, TypeOK, RingTypeOK, Bag
<1> DEFINE started == [q \in Req |-> 0]
<1>3. started \in [Req -> 0 .. 2]
  OBVIOUS
<1>4. \A q \in Req : batch'[q] = IF q = r THEN batch[q] - 1 ELSE batch[q]
  BY <1>1, <1>2 DEF Without
<1>5. Now' = [q \in Req |-> IF q = r THEN Now[q] - 1 + started[q]
                                     ELSE Now[q] + started[q]]
  BY <1>1, <1>2, <1>4 DEF Now, Outstanding
<1>6. Open' \in BOOLEAN /\ Open /\ Now[r] > 0
  BY <1>1, <1>2 DEF Open, Now, Outstanding
<1> HIDE DEF started
<1>. QED  BY <1>3, <1>5, <1>6 DEF Ops!Callback, Now, Open

LEMMA OpsNext == Inv /\ [Next]_ringVars => [Ops!Next]_(Ops!vars)
<1> SUFFICES ASSUME Inv, [Next]_ringVars PROVE [Ops!Next]_(Ops!vars)
  OBVIOUS
<1>1. /\ sq \in [Req -> Nat] /\ kernel \in [Req -> Nat]
      /\ cq \in [Req -> Nat] /\ batch \in [Req -> Nat]
  BY DEF Inv, TypeOK, RingTypeOK, Bag
<1>2. CASE LoopSubmit
  <2>1. \A r \in Req : Outstanding(r)' = Outstanding(r)
    BY <1>1, <1>2 DEF LoopSubmit, Outstanding, Plus, Empty
  <2>2. Open' = Open
    BY <1>2 DEF LoopSubmit, Open
  <2>. QED  BY <2>1, <2>2, Stutter
<1>3. CASE LoopPeek
  <2>1. /\ batch = Empty /\ cq' = [r \in Req |-> cq[r] - batch'[r]]
        /\ UNCHANGED <<sq, kernel, run, status>>
        /\ batch' \in [Req -> Nat]
    BY <1>1, <1>3 DEF LoopPeek, LoopHead, Minus, Batches
  <2>2. \A r \in Req : Outstanding(r)' = Outstanding(r)
    BY <1>1, <2>1 DEF Outstanding, Empty
  <2>3. Open' = Open
    BY <2>1 DEF Open
  <2>. QED  BY <2>2, <2>3, Stutter
<1>4. CASE LoopWaitFails
  <2>1. /\ status = "running" /\ run /\ status' = "io_error"
        /\ UNCHANGED <<sq, kernel, cq, batch, run>>
    BY <1>4 DEF LoopWaitFails, LoopHead
  <2>. QED  BY <2>1, GivesUp DEF Ops!Next, Open, Outstanding
<1>5. CASE LoopDone \/ DispatchUnmapped
  <2>1. ~run /\ UNCHANGED <<sq, kernel, cq, batch, run>>
    BY <1>5 DEF LoopDone, DispatchUnmapped
  <2>. QED  BY <2>1, Stutter DEF Open, Outstanding
<1>6. ASSUME NEW r \in Req, Complete(r) PROVE UNCHANGED Ops!vars
  <2>1. /\ kernel' = Without(kernel, r) /\ cq' = With(cq, {r})
        /\ UNCHANGED <<sq, batch, run, status>>
    BY <1>6 DEF Complete
  <2>2. \A q \in Req : Outstanding(q)' = Outstanding(q)
    BY <1>1, <2>1 DEF Outstanding, Without, With
  <2>. QED  BY <2>1, <2>2, Stutter DEF Open
<1>7. ASSUME NEW r \in Req, DispatchError(r) PROVE Ops!Next
  <2>1. /\ status = "running" /\ run /\ status' = "io_error"
        /\ UNCHANGED <<sq, kernel, cq, batch, run>>
    BY <1>7 DEF DispatchError, AtCompletion
  <2>. QED  BY <2>1, GivesUp DEF Ops!Next, Open, Outstanding
<1>8. ASSUME NEW r \in Req, Handle(r) PROVE Ops!Next
  BY <1>7, <1>8, CallbackStep, StopStep DEF Handle, Ops!Next
<1>9. CASE UNCHANGED ringVars
  BY <1>9, Stutter DEF ringVars, Open, Outstanding
<1>. QED
  BY <1>2, <1>3, <1>4, <1>5, <1>6, <1>8, <1>9 DEF Next, LoopNext, LoopStep

(***************************************************************************)
(* Every operation that was started is answered by at most one callback    *)
(* and only those are, until the service is closed, for any application.   *)
(***************************************************************************)
THEOREM RingImplementsOps == Spec => Implements
<1>1. Init => Ops!Init
  BY OpsInit
<1>2. Inv /\ [Next]_ringVars => [Ops!Next]_(Ops!vars)
  BY OpsNext
<1>. QED  BY <1>1, <1>2, Invariance, PTL DEF Spec, Ops!Spec, Implements

----------------------------------------------------------------------------
(* TcpClient.                                                              *)

(* The requests that wait in the submission queue.                         *)
Waiting == {i \in Req : sq[i] = 1}

(***************************************************************************)
(* No request is in flight twice, so the submission queue holds each at    *)
(* most once; a callback that arms the request of its completion always    *)
(* finds room.  The limit is reached with the call of Shutdown().          *)
(***************************************************************************)
CInv ==
  /\ Inv
  /\ counter \in 0 .. Limit
  /\ run = (counter # Limit)
  /\ Cardinality(Req) <= QueueSize
  /\ AllArmed
  /\ sqLen = Cardinality(Waiting)
  /\ status # "sq_full"

(* The queues are bags of naturals.                                        *)
LEMMA ClientTypes ==
  ASSUME CInv
  PROVE  /\ sq \in [Req -> Nat] /\ kernel \in [Req -> Nat]
         /\ cq \in [Req -> Nat] /\ batch \in [Req -> Nat]
         /\ pending \in BOOLEAN /\ run \in BOOLEAN /\ status \in Status
         /\ sqLen \in 0 .. QueueSize
         /\ \A i \in Req : Outstanding(i) <= 1
BY DEF CInv, Inv, TypeOK, RingTypeOK, Bag, AllArmed

LEMMA ClientInitStep ==
  ASSUME ClientInit
  PROVE  Init /\ CInv
<1>1. /\ sq = With(Empty, Req) /\ sqLen = Cardinality(Req) /\ kernel = Empty
      /\ cq = Empty /\ batch = Empty /\ pending = (Req # {}) /\ run = TRUE
      /\ status = "running" /\ counter = 0 /\ Cardinality(Req) <= QueueSize
  BY DEF ClientInit, RingInit
<1>2. Init
  BY DEF ClientInit, Init
<1>3. \A i \in Req : sq[i] = 1 /\ Outstanding(i) = 1
  BY <1>1 DEF With, Empty, Outstanding
<1>4. Waiting = Req /\ AllArmed
  BY <1>3 DEF Waiting, AllArmed
<1>5. counter \in 0 .. Limit /\ counter # Limit
  BY <1>1, LimitAssumption
<1>6. run = (counter # Limit)
  BY <1>1, <1>5, Zenon
<1>. QED  BY <1>1, <1>2, <1>4, <1>5, <1>6, InitInv DEF CInv

(* What is in flight at most once and in one place is in no other.         *)
LEMMA OnePlace ==
  ASSUME NEW a \in Nat, NEW b \in Nat, NEW c \in Nat, NEW d \in Nat,
         a + b + c + d <= 1, d > 0
  PROVE  a = 0 /\ b = 0 /\ c = 0 /\ d = 1
OBVIOUS

(* A callback that answers r and arms it again finds room in the queue.    *)
LEMMA RearmHasRoom ==
  ASSUME CInv, NEW r \in Req, batch[r] > 0
  PROVE  /\ ~QueueFull({}, FALSE, {r})
         /\ Waiting \subseteq Req \ {r}
         /\ sq[r] = 0 /\ kernel[r] = 0 /\ cq[r] = 0 /\ batch[r] = 1
<1>1. /\ sq[r] \in Nat /\ kernel[r] \in Nat /\ cq[r] \in Nat
      /\ batch[r] \in Nat /\ Outstanding(r) <= 1
  BY ClientTypes
<1>2. sq[r] = 0 /\ kernel[r] = 0 /\ cq[r] = 0 /\ batch[r] = 1
  <2>1. sq[r] + kernel[r] + cq[r] + batch[r] <= 1 /\ batch[r] > 0
    BY <1>1 DEF Outstanding
  <2>. QED  BY <1>1, <2>1, OnePlace
<1>3. Waiting \subseteq Req \ {r}
  BY <1>2 DEF Waiting
<1>4. IsFiniteSet(Req)
  BY RingAssumption
<1>5. /\ IsFiniteSet(Req \ {r})
      /\ Cardinality(Req \ {r}) = Cardinality(Req) - 1
      /\ Cardinality(Req) \in Nat
  BY <1>4, FS_RemoveElement, FS_CardinalityType
<1>6. Cardinality(Waiting) <= Cardinality(Req) - 1
  BY <1>3, <1>5, FS_Subset
<1>7. Cardinality({}) = 0 /\ Cardinality({r}) = 1
  BY FS_EmptySet, FS_Singleton
<1>8. /\ sqLen = Cardinality(Waiting) /\ sqLen \in Nat
      /\ Cardinality(Req) <= QueueSize /\ QueueSize \in Nat
  BY ClientTypes, RingAssumption DEF CInv
<1>9. ~QueueFull({}, FALSE, {r})
  BY <1>5, <1>6, <1>7, <1>8 DEF QueueFull
<1>. QED  BY <1>2, <1>3, <1>9

(* A receive that does not end the run: the same request waits again.      *)
LEMMA Rearm ==
  ASSUME CInv, NEW r \in Req, Dispatch(r), Issue({}, FALSE, {r}),
         UNCHANGED <<cq, run>>
  PROVE  /\ Continue(r, {}, FALSE, {r})
         /\ \A i \in Req : Outstanding(i)' = Outstanding(i)
         /\ sqLen' = Cardinality(Waiting')
         /\ status' = status
<1>1. /\ batch[r] > 0 /\ batch' = Without(batch, r)
  BY DEF Dispatch, AtCompletion
<1>2. /\ ~QueueFull({}, FALSE, {r}) /\ Waiting \subseteq Req \ {r}
      /\ sq[r] = 0 /\ kernel[r] = 0 /\ cq[r] = 0 /\ batch[r] = 1
  BY <1>1, RearmHasRoom
<1>3. /\ sq' = With(With(sq, {}), {r}) /\ kernel' = kernel
      /\ sqLen' = sqLen + Cardinality({}) + Cardinality({r})
      /\ status' = status
  BY <1>2 DEF Issue
<1>4. /\ sq \in [Req -> Nat] /\ kernel \in [Req -> Nat]
      /\ cq \in [Req -> Nat] /\ batch \in [Req -> Nat] /\ sqLen \in Nat
      /\ \A i \in Req : Outstanding(i) <= 1
  BY ClientTypes, RingAssumption
<1>5. \A i \in Req : sq'[i] = IF i = r THEN sq[i] + 1 ELSE sq[i]
  BY <1>3, <1>4 DEF With
<1>6. \A i \in Req : batch'[i] = IF i = r THEN batch[i] - 1 ELSE batch[i]
  BY <1>1, <1>4 DEF Without
<1>7. \A i \in Req : Outstanding(i)' = Outstanding(i)
  <2> TAKE i \in Req
  <2>1. /\ sq[i] \in Nat /\ kernel[i] \in Nat /\ cq[i] \in Nat
        /\ batch[i] \in Nat
    BY <1>4
  <2>2. /\ sq'[i] = IF i = r THEN sq[i] + 1 ELSE sq[i]
        /\ batch'[i] = IF i = r THEN batch[i] - 1 ELSE batch[i]
        /\ kernel'[i] = kernel[i] /\ cq'[i] = cq[i]
    BY <1>3, <1>5, <1>6
  <2>3. sq'[i] + kernel'[i] + cq'[i] + batch'[i]
          = sq[i] + kernel[i] + cq[i] + batch[i]
    BY ONLY <2>1, <2>2
  <2>. QED  BY <2>3 DEF Outstanding
<1>8. \A i \in Req : Outstanding(i)' <= Depth
  <2> TAKE i \in Req
  <2>1. Outstanding(i)' = Outstanding(i) /\ Outstanding(i) <= 1
    BY <1>4, <1>7
  <2>2. Outstanding(i) \in Nat
    BY <1>4 DEF Outstanding
  <2>. QED  BY <2>1, <2>2, DepthAssumption
<1>9. sqLen' = Cardinality(Waiting')
  <2>1. Waiting' = Waiting \cup {r} /\ r \notin Waiting
    BY <1>2, <1>4, <1>5 DEF Waiting
  <2>2. IsFiniteSet(Waiting)
    BY <1>2, RingAssumption, FS_Subset
  <2>3. Cardinality(Waiting') = Cardinality(Waiting) + 1
    BY <2>1, <2>2, FS_AddElement
  <2>4. Cardinality({}) = 0 /\ Cardinality({r}) = 1
    BY FS_EmptySet, FS_Singleton
  <2>5. sqLen = Cardinality(Waiting)
    BY DEF CInv
  <2>. QED  BY <1>3, <1>4, <2>3, <2>4, <2>5
<1>. QED  BY <1>3, <1>7, <1>8, <1>9 DEF Continue

(* Steps that start no operation and answer none keep AllArmed.            *)
LEMMA StillArmed ==
  ASSUME CInv, \A i \in Req : Outstanding(i)' = Outstanding(i),
         run' = run, status' = "running" => status = "running"
  PROVE  AllArmed'
<1>1. /\ \A i \in Req : Outstanding(i) <= 1
      /\ run /\ status = "running" => \A i \in Req : Outstanding(i) = 1
  BY DEF CInv, AllArmed
<1>2. \A i \in Req : Outstanding(i)' <= 1
  BY <1>1
<1>3. run' /\ status' = "running" => \A i \in Req : Outstanding(i)' = 1
  BY <1>1
<1>. QED  BY <1>2, <1>3 DEF AllArmed

(* The steps of the loop and of the kernel.                                *)
LEMMA ClientLoop ==
  ASSUME CInv, LoopNext \/ \E i \in Req : Complete(i)
  PROVE  /\ \A i \in Req : Outstanding(i)' = Outstanding(i)
         /\ run' = run
         /\ status' = "running" => status = "running"
         /\ status' # "sq_full"
         /\ sqLen' = Cardinality(Waiting')
<1>1. /\ sq \in [Req -> Nat] /\ kernel \in [Req -> Nat]
      /\ cq \in [Req -> Nat] /\ batch \in [Req -> Nat]
      /\ sqLen = Cardinality(Waiting) /\ status # "sq_full"
  BY ClientTypes DEF CInv
<1>2. CASE LoopSubmit
  <2>1. \A i \in Req : Outstanding(i)' = Outstanding(i)
    BY <1>1, <1>2 DEF LoopSubmit, Outstanding, Plus, Empty
  <2>2. Waiting' = {} /\ sqLen' = 0 /\ UNCHANGED <<run, status>>
    BY <1>2 DEF LoopSubmit, Waiting, Empty
  <2>3. Cardinality({}) = 0
    BY FS_EmptySet
  <2>. QED  BY <1>1, <2>1, <2>2, <2>3
<1>3. CASE LoopPeek
  <2>1. /\ batch = Empty /\ cq' = [r \in Req |-> cq[r] - batch'[r]]
        /\ UNCHANGED <<sq, sqLen, kernel, run, status>>
        /\ batch' \in [Req -> Nat]
    BY <1>1, <1>3 DEF LoopPeek, LoopHead, Minus, Batches
  <2>2. \A i \in Req : Outstanding(i)' = Outstanding(i)
    BY <1>1, <2>1 DEF Outstanding, Empty
  <2>. QED  BY <1>1, <2>1, <2>2 DEF Waiting
<1>4. CASE LoopWaitFails \/ LoopDone \/ DispatchUnmapped
  <2>1. /\ status' \in {"io_error", "done", "crashed"}
        /\ UNCHANGED <<sq, sqLen, kernel, cq, batch, run>>
    BY <1>4 DEF LoopWaitFails, LoopDone, DispatchUnmapped
  <2>. QED  BY <1>1, <2>1 DEF Waiting, Outstanding
<1>5. ASSUME NEW r \in Req, Complete(r)
      PROVE  /\ \A i \in Req : Outstanding(i)' = Outstanding(i)
             /\ UNCHANGED <<sq, sqLen, run, status>>
  <2>1. /\ kernel' = Without(kernel, r) /\ cq' = With(cq, {r})
        /\ UNCHANGED <<sq, sqLen, batch, run, status>>
    BY <1>5 DEF Complete
  <2>2. \A i \in Req : Outstanding(i)' = Outstanding(i)
    BY <1>1, <2>1 DEF Outstanding, Without, With
  <2>. QED  BY <2>1, <2>2
<1>. QED  BY <1>1, <1>2, <1>3, <1>4, <1>5 DEF LoopNext, LoopStep, Waiting

(* The completion that reaches the limit.                                  *)
LEMMA ClientStops ==
  ASSUME CInv, NEW r \in Req, Dispatch(r), run' = FALSE,
         UNCHANGED <<sq, sqLen, kernel, cq, pending, status>>
  PROVE  /\ Stop(r) /\ AllArmed'
         /\ sqLen' = Cardinality(Waiting') /\ status' # "sq_full"
<1>1. /\ sq \in [Req -> Nat] /\ kernel \in [Req -> Nat]
      /\ cq \in [Req -> Nat] /\ batch \in [Req -> Nat]
      /\ \A i \in Req : Outstanding(i) <= 1
      /\ sqLen = Cardinality(Waiting) /\ status # "sq_full"
  BY ClientTypes DEF CInv
<1>2. batch[r] > 0 /\ batch' = Without(batch, r)
  BY DEF Dispatch, AtCompletion
<1>3. \A i \in Req : Outstanding(i)' <= 1
  <2> TAKE i \in Req
  <2>1. /\ sq[i] \in Nat /\ kernel[i] \in Nat /\ cq[i] \in Nat
        /\ batch[i] \in Nat
    BY <1>1
  <2>2. batch'[i] \in {batch[i] - 1, batch[i]}
    BY <1>1, <1>2 DEF Without
  <2>3. sq[i] + kernel[i] + cq[i] + batch[i] <= 1
    BY <1>1 DEF Outstanding
  <2>4. sq[i] + kernel[i] + cq[i] + batch'[i] <= 1
    BY ONLY <2>1, <2>2, <2>3
  <2>. QED  BY <2>4 DEF Outstanding
<1>4. AllArmed'
  BY <1>3 DEF AllArmed
<1>. QED  BY <1>1, <1>4 DEF Stop, Waiting

(* Every step of the client is one of RingService, and keeps CInv.         *)
LEMMA ClientStep ==
  ASSUME CInv, [ClientNext]_clientVars
  PROVE  [Next]_ringVars /\ CInv'
<1>1. /\ Inv /\ counter \in 0 .. Limit /\ run = (counter # Limit)
      /\ Cardinality(Req) <= QueueSize /\ AllArmed
      /\ sqLen = Cardinality(Waiting) /\ status # "sq_full"
  BY Zenon DEF CInv
<1>2. ASSUME [Next]_ringVars, AllArmed', sqLen' = Cardinality(Waiting'),
             status' # "sq_full", counter' \in 0 .. Limit,
             run' = (counter' # Limit)
      PROVE  [Next]_ringVars /\ CInv'
  <2>1. Inv'
    BY <1>1, <1>2, NextInv
  <2>. QED  BY <1>1, <1>2, <2>1, Zenon DEF CInv
<1>3. CASE Loop \/ \E i \in Req : Finish(i)
  <2>1. LoopNext \/ \E i \in Req : Complete(i)
    BY <1>3 DEF Loop, Finish
  <2>2. counter' = counter
    BY <1>3 DEF Loop, Finish
  <2>3. Next
    BY <2>1 DEF Next
  <2>4. /\ run' = run /\ status' # "sq_full"
        /\ sqLen' = Cardinality(Waiting') /\ AllArmed'
    BY <2>1, ClientLoop, StillArmed
  <2>5. counter' \in 0 .. Limit /\ run' = (counter' # Limit)
    BY <1>1, <2>2, <2>4, Zenon
  <2>. QED  BY <1>2, <2>3, <2>4, <2>5
<1>4. ASSUME NEW r \in Req, Fails(r) PROVE [Next]_ringVars /\ CInv'
  <2>1. /\ DispatchError(r) /\ counter' = counter
        /\ status' = "io_error" /\ run' = run
        /\ UNCHANGED <<sq, sqLen, kernel, cq, batch>>
    BY <1>4 DEF Fails, DispatchError
  <2>2. Next
    BY <2>1 DEF Next, Handle
  <2>3. AllArmed'
    BY <1>1, <2>1, StillArmed DEF Outstanding
  <2>4. sqLen' = Cardinality(Waiting') /\ status' # "sq_full"
    BY <1>1, <2>1 DEF Waiting
  <2>5. counter' \in 0 .. Limit /\ run' = (counter' # Limit)
    BY <1>1, <2>1, Zenon
  <2>. QED  BY <1>2, <2>2, <2>3, <2>4, <2>5
<1>5. ASSUME NEW r \in Req, Received(r) PROVE [Next]_ringVars /\ CInv'
  <2>1. Dispatch(r) /\ counter' = counter + 1 /\ UNCHANGED cq
    BY <1>5 DEF Received
  <2>2. run = TRUE
    BY <2>1, <1>1, Zenon DEF Dispatch, AtCompletion
  <2>3. counter # Limit
    BY <1>1, <2>2, Zenon
  <2>4. counter' \in 0 .. Limit
    BY <1>1, <2>1, <2>3, LimitAssumption
  <2>5. CASE counter' = Limit
    <3>1. run' = FALSE /\ UNCHANGED <<sq, sqLen, kernel, pending, status>>
      BY <1>5, <2>5 DEF Received
    <3>2. /\ Stop(r) /\ AllArmed'
          /\ sqLen' = Cardinality(Waiting') /\ status' # "sq_full"
      BY <2>1, <3>1, ClientStops
    <3>3. Next
      BY <3>2 DEF Next, Handle
    <3>4. run' = (counter' # Limit)
      BY <2>5, <3>1, Zenon
    <3>. QED  BY <1>2, <2>4, <3>2, <3>3, <3>4
  <2>6. CASE counter' # Limit
    <3>1. run' = run /\ Issue({}, FALSE, {r})
      BY <1>5, <2>6 DEF Received
    <3>2. /\ Continue(r, {}, FALSE, {r})
          /\ \A i \in Req : Outstanding(i)' = Outstanding(i)
          /\ sqLen' = Cardinality(Waiting') /\ status' = status
      BY <2>1, <3>1, Rearm
    <3>3. AllArmed'
      BY <3>1, <3>2, StillArmed
    <3>4. Next
      <4>1. {} \in SUBSET Req /\ {r} \in SUBSET Req /\ FALSE \in BOOLEAN
        OBVIOUS
      <4>2. Handle(r)
        BY <3>2, <4>1 DEF Handle
      <4>. QED  BY <4>2 DEF Next
    <3>5. run' = (counter' # Limit)
      BY <2>2, <2>6, <3>1, Zenon
    <3>6. status' # "sq_full"
      BY <1>1, <3>2
    <3>. QED  BY <1>2, <2>4, <3>2, <3>3, <3>4, <3>5, <3>6
  <2>. QED  BY <2>5, <2>6
<1>6. CASE UNCHANGED clientVars
  <2>1. UNCHANGED <<ringVars, counter>>
    BY <1>6 DEF clientVars
  <2>2. UNCHANGED <<sq, sqLen, kernel, cq, batch, pending, run, status>>
    BY <2>1 DEF ringVars
  <2>3. AllArmed' /\ sqLen' = Cardinality(Waiting') /\ status' # "sq_full"
    BY <1>1, <2>2, StillArmed DEF Outstanding, Waiting
  <2>4. counter' \in 0 .. Limit /\ run' = (counter' # Limit)
    BY <1>1, <2>1, <2>2, Zenon
  <2>. QED  BY <1>2, <2>1, <2>3, <2>4
<1>. QED  BY <1>3, <1>4, <1>5, <1>6 DEF ClientNext, HandleReceive

(* CInv holds in every state of the client.                                *)
THEOREM ClientInvariance == ClientSpec => []CInv
<1>1. ClientInit => CInv
  BY ClientInitStep
<1>2. CInv /\ [ClientNext]_clientVars => CInv'
  BY ClientStep
<1>. QED  BY <1>1, <1>2, PTL DEF ClientSpec

(***************************************************************************)
(* The client is an application of the ring: it implements RingService,    *)
(* with at most one operation outstanding on a request.                    *)
(***************************************************************************)
THEOREM ClientImplementsRing == ClientSpec => Spec
<1>1. ClientInit => Init
  BY ClientInitStep
<1>2. CInv /\ [ClientNext]_clientVars => [Next]_ringVars
  BY ClientStep
<1>. QED  BY <1>1, <1>2, ClientInvariance, PTL DEF ClientSpec, Spec

(* So every receive of the client is answered by one callback at most, and *)
(* none after Shutdown(); and its loop never blocks before a prepared one. *)
THEOREM ClientKeepsPromises == ClientSpec => Implements /\ []PendingCovers
BY ClientImplementsRing, RingImplementsOps, NeverForgets, PTL

(* Types of ring and counter: the counter never passes the limit.          *)
THEOREM ClientTypeCorrect == ClientSpec => []ClientTypeOK
<1>1. CInv => ClientTypeOK
  BY DEF CInv, Inv, TypeOK, ClientTypeOK
<1>. QED  BY <1>1, ClientInvariance, PTL

(* The connection is always read, and no buffer by two receives at once.   *)
THEOREM ClientAllArmed == ClientSpec => []AllArmed
<1>1. CInv => AllArmed
  BY DEF CInv
<1>. QED  BY <1>1, ClientInvariance, PTL

(* Arming a request again never meets a full submission queue.             *)
THEOREM ClientQueueSuffices == ClientSpec => [](status # "sq_full")
<1>1. CInv => status # "sq_full"
  BY DEF CInv
<1>. QED  BY <1>1, ClientInvariance, PTL
=============================================================================
