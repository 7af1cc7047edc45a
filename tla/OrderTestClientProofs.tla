----------------------- MODULE OrderTestClientProofs -----------------------
(***************************************************************************)
(* The properties of the order test client for every exchange: however     *)
(* late, silent or contradictory it is, and however its bytes are cut.     *)
(*                                                                         *)
(* The chain of elifs makes the requests follow each other in one of four  *)
(* ways (Machine, Chained).  A message says something about the request it *)
(* answers (Exchange).  The flags are only set by messages that are wanted *)
(* at the time, so that a flag tells of an answer in time, of the first    *)
(* request of its kind (Flags); the order the client would cancel is the   *)
(* last one it was told of (Informed).                                     *)
(***************************************************************************)
EXTENDS OrderTestClient, FiniteSetTheorems, SequenceTheorems,
        WellFoundedInduction, TLAPS

Kind == {"helo", "hrbt", "pdrq", "ornw", "oprq", "orcn", "blrq"}

FlagSet == {"helo", "pdrp", "ornw", "orrj", "oprp", "blrp", "orcn",
            "clrj", "orst", "ack", "err"}

Request == [kind : Kind, order : 0 .. 3]

MessageType == {"exst", "pdrp", "ack", "orcr", "orrj", "oprp", "orst", "ordn",
                "clrj", "blrp", "err", "fragment"}

Message == [type : MessageType, to : Nat, order : 0 .. 3, form : Form]

(* Where the client is when the last of n requests is of this kind, after  *)
(* c checks of a new order and with order o.                               *)
Stage(kind, c, o, n) ==
  \/ kind = "helo" /\ c = 0 /\ o = 1 /\ n = 1
  \/ kind = "hrbt" /\ c = 0 /\ o = 1 /\ n = 2
  \/ kind = "pdrq" /\ c = 0 /\ o = 1 /\ n = 3
  \/ kind = "ornw" /\ c = 0 /\ o = 1 /\ n = 4
  \/ kind = "oprq" /\ c = 1 /\ o = 1 /\ n = 5
  \/ kind = "orcn" /\ c = 1 /\ o = 1 /\ n = 6
  \/ kind = "blrq" /\ c = 1 /\ o = 1 /\ n \in 6 .. 7
  \/ kind = "ornw" /\ c = 1 /\ o = 2 /\ n \in 7 .. 8
  \/ kind = "oprq" /\ c = 2 /\ o = 2 /\ n \in 8 .. 9
  \/ kind = "orcn" /\ c = 2 /\ o = 2 /\ n \in 9 .. 10
  \/ kind = "blrq" /\ c = 2 /\ o = 2 /\ n \in 9 .. 11
  \/ kind = "ornw" /\ c = 2 /\ o = 3 /\ n \in 10 .. 12

(* The one flag that is set tells the last request, and the chain's place. *)
Machine ==
  /\ appl_init \in BOOLEAN
  /\ requests \in Seq(Request)
  /\ all_sent = (order_id > 1)
  /\ appl_init =>
       /\ sent = {} /\ requests = <<>> /\ ornw_counter = 0 /\ order_id = 1
  /\ ~appl_init =>
       LET n == Len(requests)
       IN  /\ n > 0
           /\ sent = {requests[n].kind}
           /\ Stage(requests[n].kind, ornw_counter, order_id, n)

(* What the chain sends after a request of this kind.                      *)
Successors(kind) ==
  CASE kind = "helo" -> {"hrbt"}
    [] kind = "hrbt" -> {"pdrq"}
    [] kind = "pdrq" -> {"ornw"}
    [] kind = "ornw" -> {"oprq"}
    [] kind = "oprq" -> {"orcn", "blrq"}
    [] kind = "orcn" -> {"blrq"}
    [] kind = "blrq" -> {"ornw"}

(* The requests follow each other as the chain has it, and number the new  *)
(* orders.                                                                 *)
Chained ==
  LET n == Len(requests)
  IN  /\ n > 0 => Is(1, "helo")
      /\ \A i \in 1 .. n : i < n => requests[i + 1].kind \in Successors(requests[i].kind)
      /\ \A i \in 1 .. n : Is(i, "ornw") => requests[i].order \in 1 .. order_id
      /\ \A i, j \in 1 .. n :
           Is(i, "ornw") /\ Is(j, "ornw") /\ i < j =>
             requests[i].order < requests[j].order
      /\ n > 0 /\ Is(n, "ornw") => requests[n].order = order_id

HeardTypes ==
  /\ recv \subseteq FlagSet
  /\ exchId \in 0 .. 3
  /\ errors \in BOOLEAN /\ warnings \in BOOLEAN
  /\ status \in {"running", "done", "lost"}
  /\ timely \subseteq 1 .. Len(requests)

(* What can be said to a request of this kind.                             *)
Says(kind) ==
  CASE kind = "helo" -> {"exst", "err"}
    [] kind = "hrbt" -> {}
    [] kind = "pdrq" -> {"pdrp", "err"}
    [] kind = "ornw" -> {"ack", "orcr", "orrj", "err"}
    [] kind = "oprq" -> {"oprp", "err"}
    [] kind = "orcn" -> {"ack", "orst", "ordn", "clrj", "err"}
    [] kind = "blrq" -> {"blrp", "err"}

(* A message on its way fits the request that it answers.                  *)
Fits(m) ==
  /\ m.to \in 0 .. answered
  /\ m.to = 0 => m.type \in {"exst", "fragment"}
  /\ m.to > 0 => /\ m.type \in Says(requests[m.to].kind)
                 /\ m.order = requests[m.to].order
  /\ m.type = "orcr" => m.order \in created
  /\ m.type = "orrj" => m.order \notin created

(* Orders exist that were asked for, and are told of in their order.       *)
Exchange ==
  /\ answered \in 0 .. Len(requests)
  /\ channel \in Seq(Message)
  /\ \A o \in created : \E i \in 1 .. answered : Is(i, "ornw") /\ requests[i].order = o
  /\ \A i \in 1 .. Len(channel) : Fits(channel[i])
  /\ \A i, j \in 1 .. Len(channel) :
       i < j /\ channel[i].type = "orcr" /\ channel[j].type = "orcr" =>
         channel[i].order <= channel[j].order

(* The i-th request was for an order that exists.                          *)
Exists(i) == Is(i, "ornw") /\ requests[i].order \in created

(* What the client knows of its orders, c being what it has heard, and k   *)
(* the messages of the channel that this includes.                         *)
Informed(c, k) ==
  /\ c.exchId \in created \cup {0}
  /\ "ornw" \in c.recv => c.exchId \in created
  /\ \A i \in c.timely : Is(i, "ornw") => i <= answered
  /\ \A i \in c.timely : Exists(i) => "ornw" \in c.recv /\ requests[i].order <= c.exchId
  /\ \A i \in 1 .. Len(channel) :
       i > k /\ channel[i].type = "orcr" => c.exchId <= channel[i].order

(* A flag tells of an answer in time, as long as it is looked at first.    *)
Flags(c) ==
  LET n == Len(requests)
  IN  /\ "helo" \in c.recv => 1 \in c.timely
      /\ "pdrp" \in c.recv => 3 \in c.timely
      /\ n <= 4 /\ ("ornw" \in c.recv \/ "orrj" \in c.recv) => 4 \in c.timely
      /\ n <= 5 /\ "oprp" \in c.recv => 5 \in c.timely
      /\ order_id = 1 /\ "blrp" \in c.recv => sent = {"blrq"} /\ n \in c.timely

(* Without an error the first request of each kind was answered in time.   *)
Clean(c) ==
  LET n == Len(requests)
  IN  ~c.errors =>
        /\ n >= 2 => 1 \in c.timely
        /\ n >= 4 => 3 \in c.timely
        /\ n >= 5 => 4 \in c.timely
        /\ n >= 6 => 5 \in c.timely
        /\ order_id >= 2 =>
             \E j \in {6, 7} : Is(j, "blrq") /\ j \in c.timely
                               /\ (j = 7 => ~Is(6, "blrq"))

(* The client has sent its cancel for this order, or will send none.       *)
Decided(i) == requests[i].order < order_id \/ sent = {"orcn"} \/ sent = {"blrq"}

Cancelled(i) ==
  \E j \in 1 .. Len(requests) :
    Is(j, "orcn") /\ requests[j].order = requests[i].order

CancelsCreated ==
  \A i \in 1 .. Len(requests) : Is(i, "orcn") => requests[i].order \in created

ToldAreCancelled ==
  \A i \in 1 .. Len(requests) : Told(i) /\ Decided(i) => Cancelled(i)

(* What the loop of data_received starts from.                             *)
Heard == [recv |-> recv, exchId |-> exchId, errors |-> errors,
          warnings |-> warnings, timely |-> timely,
          over |-> FALSE, raised |-> FALSE]

(* An exception in the middle of a message ends everything; what the       *)
(* client knows then is of no more use.                                    *)
OInv ==
  /\ Machine
  /\ Chained
  /\ HeardTypes
  /\ Exchange
  /\ CancelsCreated
  /\ status = "done" => order_id = 3 /\ Len(requests) >= 10
  /\ status # "lost" =>
       /\ Informed(Heard, 0)
       /\ Flags(Heard)
       /\ Clean(Heard)
       /\ ToldAreCancelled

----------------------------------------------------------------------------
(* Induction.  Its steps are stated for sets of numbers: a property P of   *)
(* the numbers is the set {n \in Nat : P(n)}.                              *)

(* A set of numbers that has one has a least one.                          *)
LEMMA LeastOf ==
  ASSUME NEW T \in SUBSET Nat, T # {}
  PROVE  \E m \in T : \A k \in T : m <= k
<1>. DEFINE R == OpToRel(<, Nat)
<1>1. IsWellFoundedOn(R, Nat)
  BY NatLessThanWellFounded
<1>2. \A a, b \in Nat : a < b => <<a, b>> \in R
  BY DEF OpToRel
<1>. HIDE DEF R
<1>3. PICK m \in T : \A k \in T : <<k, m>> \notin R
  BY <1>1, WFMin
<1>4. ASSUME NEW k \in T
      PROVE  m <= k
  <2>1. k \in Nat /\ m \in Nat /\ ~(k < m)
    BY <1>2, <1>3
  <2>. QED  BY <2>1
<1>. QED  BY <1>4

(* Induction over the natural numbers.                                     *)
LEMMA Induction ==
  ASSUME NEW S \in SUBSET Nat, 0 \in S, \A n \in S : n + 1 \in S
  PROVE  S = Nat
<1>. SUFFICES ASSUME Nat \ S # {}
              PROVE  FALSE
  OBVIOUS
<1>1. PICK m \in Nat \ S : \A k \in Nat \ S : m <= k
  BY LeastOf
<1>2. m # 0 /\ m - 1 \in Nat
  BY <1>1
<1>3. m - 1 \in S
  BY <1>1, <1>2
<1>4. (m - 1) + 1 \in S
  BY <1>3
<1>. QED  BY <1>1, <1>2, <1>4

(* A set of numbers that has one, and a bound, has a greatest one.         *)
LEMMA MaxFacts ==
  ASSUME NEW n \in Nat, NEW x \in SUBSET (1 .. n), x # {}
  PROVE  Max(x) \in x /\ \A y \in x : y <= Max(x)
<1>. DEFINE T == {u \in Nat : \A y \in x : y <= u}
<1>1. n \in T
  OBVIOUS
<1>2. PICK m \in T : \A k \in T : m <= k
  BY <1>1, LeastOf
<1>3. m \in x
  <2>. SUFFICES ASSUME m \notin x
                PROVE  FALSE
    OBVIOUS
  <2>1. \A y \in x : y \in Nat /\ y # 0 /\ y <= m /\ y # m
    BY <1>2
  <2>2. m - 1 \in Nat /\ \A y \in x : y <= m - 1
    <3>1. PICK y \in x : TRUE
      OBVIOUS
    <3>2. m \in Nat /\ y \in Nat /\ y # 0 /\ y <= m
      BY <2>1
    <3>3. m - 1 \in Nat
      BY <3>2
    <3>. QED  BY <2>1, <3>2, <3>3
  <2>3. m <= m - 1
    BY <2>2, <1>2
  <2>. QED  BY <2>2, <2>3
<1>4. \E y \in x : \A z \in x : y >= z
  BY <1>2, <1>3
<1>. QED  BY <1>4 DEF Max

----------------------------------------------------------------------------
(* The loop over what has arrived.                                         *)

(* h[k] is what has been heard after the first k of n messages.            *)
Follows(h, before, ms, n) ==
  /\ h[0] = before
  /\ \A k \in 1 .. n : h[k] = HearNext(h[k - 1], ms[k])
  /\ FoldLeft(HearNext, before, ms) = h[n]

(* The fold of data_received, message by message.                          *)
LEMMA FoldFacts ==
  ASSUME NEW ms, NEW n \in Nat, DOMAIN ms = 1 .. n, NEW before
  PROVE  \E h : Follows(h, before, ms, n)
<1>. DEFINE D == 1 .. n
            next(g, x) == IF x = {} THEN before
                          ELSE HearNext(g[x \ {Max(x)}], ms[Max(x)])
            Solves(g, k) ==
              g = [x \in SUBSET D |->
                     IF Cardinality(x) > k THEN before ELSE next(g, x)]
            iter == CHOOSE g : g = [x \in SUBSET D |-> next(g, x)]
<1>1. FoldLeft(HearNext, before, ms) = iter[D]
  BY DEF FoldLeft, MapThenFoldSet
<1>2. IsFiniteSet(D) /\ Cardinality(D) = n
  <2>1. 1 \in Int /\ n \in Int
    OBVIOUS
  <2>. QED  BY <2>1, FS_Interval
<1>3. \A x \in SUBSET D : IsFiniteSet(x) /\ Cardinality(x) \in Nat /\ Cardinality(x) <= n
  <2>. SUFFICES ASSUME NEW x \in SUBSET D
                PROVE  IsFiniteSet(x) /\ Cardinality(x) \in Nat /\ Cardinality(x) <= n
    OBVIOUS
  <2>. HIDE DEF D
  <2>1. IsFiniteSet(x) /\ Cardinality(x) <= Cardinality(D)
    BY <1>2, FS_Subset
  <2>. QED  BY <2>1, <1>2, FS_CardinalityType
<1>4. ASSUME NEW x \in SUBSET D, x # {}
      PROVE  /\ Max(x) \in x /\ Max(x) \in D
             /\ x \ {Max(x)} \in SUBSET D
             /\ Cardinality(x \ {Max(x)}) = Cardinality(x) - 1
  <2>1. Max(x) \in x
    BY <1>4, MaxFacts
  <2>. QED  BY <2>1, <1>3, FS_RemoveElement
<1>5. \A x \in SUBSET D : Cardinality(x) = 0 <=> x = {}
  BY <1>3, FS_EmptySet
<1>. HIDE DEF D
<1>6. \E g : g = [x \in SUBSET D |-> next(g, x)]
  <2>. DEFINE S == {k \in Nat : \E g : Solves(g, k)}
  <2>1. 0 \in S
    <3>. DEFINE g == [x \in SUBSET D |-> before]
    <3>1. Solves(g, 0)
      BY <1>3, <1>5
    <3>. QED  BY <3>1
  <2>2. ASSUME NEW k \in S
        PROVE  k + 1 \in S
    <3>1. PICK g : Solves(g, k)
      OBVIOUS
    <3>. DEFINE h == [x \in SUBSET D |->
                        IF Cardinality(x) > k + 1 THEN before ELSE next(g, x)]
    <3>2. ASSUME NEW x \in SUBSET D, x # {}, Cardinality(x) <= k + 1
          PROVE  h[x \ {Max(x)}] = g[x \ {Max(x)}]
      <4>. DEFINE y == x \ {Max(x)}
      <4>1. y \in SUBSET D /\ Cardinality(y) = Cardinality(x) - 1
        BY <3>2, <1>4
      <4>. HIDE DEF y
      <4>2. ~(Cardinality(y) > k) /\ ~(Cardinality(y) > k + 1)
        BY <4>1, <3>2, <1>3
      <4>. HIDE DEF next
      <4>3. g[y] = next(g, y)
        BY <4>1, <4>2, <3>1
      <4>4. h[y] = next(g, y)
        BY <4>1, <4>2
      <4>. QED  BY <4>3, <4>4 DEF y
    <3>3. \A x \in SUBSET D :
            h[x] = IF Cardinality(x) > k + 1 THEN before ELSE next(h, x)
      <4>. SUFFICES ASSUME NEW x \in SUBSET D, ~(Cardinality(x) > k + 1)
                    PROVE  next(h, x) = next(g, x)
        OBVIOUS
      <4>1. Cardinality(x) <= k + 1
        BY <1>3
      <4>. HIDE DEF h
      <4>. QED  BY <4>1, <3>2
    <3>4. Solves(h, k + 1)
      <4>1. h = [x \in SUBSET D |-> h[x]]
        OBVIOUS
      <4>. HIDE DEF h, next
      <4>. QED  BY <4>1, <3>3
    <3>. HIDE DEF Solves
    <3>. QED  BY <3>4
  <2>. HIDE DEF Solves
  <2>3. S = Nat
    BY <2>1, <2>2, Induction
  <2>4. PICK g : Solves(g, n)
    BY <2>3
  <2>5. \A x \in SUBSET D : ~(Cardinality(x) > n)
    BY <1>3
  <2>6. g = [x \in SUBSET D |-> next(g, x)]
    <3>. HIDE DEF next
    <3>. QED  BY <2>4, <2>5 DEF Solves
  <2>. QED  BY <2>6
<1>7. iter = [x \in SUBSET D |-> next(iter, x)]
  <2>. HIDE DEF next
  <2>. QED  BY <1>6
<1>. HIDE DEF iter
<1>. DEFINE h == [k \in 0 .. n |-> iter[1 .. k]]
<1>8. h[0] = before
  <2>1. 1 .. 0 = {} /\ {} \in SUBSET D /\ 0 \in 0 .. n
    OBVIOUS
  <2>. QED  BY <1>7, <2>1
<1>9. ASSUME NEW k \in 1 .. n
      PROVE  h[k] = HearNext(h[k - 1], ms[k])
  <2>1. /\ 1 .. k \in SUBSET D /\ 1 .. k # {} /\ k \in 1 .. k
        /\ k \in 0 .. n /\ k - 1 \in 0 .. n
    <3>1. /\ 1 .. k \subseteq 1 .. n /\ k \in 1 .. k
          /\ k \in 0 .. n /\ k - 1 \in 0 .. n
      OBVIOUS
    <3>. QED  BY <3>1 DEF D
  <2>2. Max(1 .. k) = k
    <3>1. k \in Nat /\ 1 .. k \in SUBSET (1 .. k)
      OBVIOUS
    <3>2. Max(1 .. k) \in 1 .. k /\ \A y \in 1 .. k : y <= Max(1 .. k)
      BY <2>1, <3>1, MaxFacts
    <3>. QED  BY <2>1, <3>2
  <2>3. (1 .. k) \ {k} = 1 .. (k - 1)
    OBVIOUS
  <2>4. iter[1 .. k] = HearNext(iter[(1 .. k) \ {Max(1 .. k)}], ms[Max(1 .. k)])
    BY <1>7, <2>1
  <2>. QED  BY <2>1, <2>2, <2>3, <2>4
<1>10. h[n] = iter[D]
  BY DEF D
<1>. HIDE DEF h
<1>. QED  BY <1>1, <1>8, <1>9, <1>10 DEF Follows

(* The least element of a set is the one that is below all others.         *)
LEMMA MinFacts ==
  ASSUME NEW S \in SUBSET Nat, NEW i \in S, \A j \in S : i <= j
  PROVE  Min(S) = i
<1>1. \E x \in S : \A y \in S : x <= y
  OBVIOUS
<1>2. Min(S) \in S /\ \A y \in S : Min(S) <= y
  BY <1>1 DEF Min
<1>3. \A x \in S : (\A y \in S : x <= y) => x = i
  OBVIOUS
<1>. QED  BY <1>2, <1>3, Zenon

----------------------------------------------------------------------------
(* Operators of the client.                                                *)

(* The types of the request sent last.                                     *)
LEMMA LastRequest ==
  ASSUME Machine, ~appl_init
  PROVE  /\ Len(requests) \in Nat /\ Len(requests) > 0
         /\ requests[Len(requests)] \in Request
         /\ requests[Len(requests)].kind \in Kind
         /\ sent = {requests[Len(requests)].kind}
         /\ Stage(requests[Len(requests)].kind, ornw_counter, order_id, Len(requests))
<1>1. /\ requests \in Seq(Request) /\ Len(requests) > 0
      /\ sent = {requests[Len(requests)].kind}
      /\ Stage(requests[Len(requests)].kind, ornw_counter, order_id, Len(requests))
  BY DEF Machine
<1>2. Len(requests) \in Nat /\ requests[Len(requests)] \in Request
  BY ONLY <1>1
<1>3. requests[Len(requests)].kind \in Kind
  BY ONLY <1>2 DEF Request
<1>. QED  BY <1>1, <1>2, <1>3

(* The last else of the chain is not reached.                              *)
LEMMA BranchFacts ==
  ASSUME Machine
  PROVE  /\ appl_init => Branch = "appl_init"
         /\ ~appl_init =>
              Branch = IF requests[Len(requests)].kind = "ornw" /\ ornw_counter >= 2
                       THEN "all_sent" ELSE requests[Len(requests)].kind
<1>1. CASE appl_init
  BY <1>1 DEF Branch
<1>2. CASE ~appl_init
  <2>. DEFINE k == requests[Len(requests)].kind
              X == {i \in DOMAIN Chain : Holds(Chain[i])}
  <2>1. /\ k \in Kind /\ sent = {k} /\ all_sent = (order_id > 1)
        /\ Stage(k, ornw_counter, order_id, Len(requests))
    BY <1>2, LastRequest DEF Machine
  <2>. HIDE DEF k
  <2>2. DOMAIN Chain = 1 .. 7
    BY DEF Chain
  <2>3. CASE k = "ornw" /\ ornw_counter >= 2
    <3>1. ~\E i \in DOMAIN Chain : Holds(Chain[i])
      <4>. SUFFICES ASSUME NEW i \in DOMAIN Chain, Holds(Chain[i])
                    PROVE  FALSE
        OBVIOUS
      <4>1. Chain[i] = "ornw" /\ ornw_counter < 2
        BY <2>1, <2>3 DEF Holds
      <4>2. ornw_counter \in Nat
        BY <2>1 DEF Stage
      <4>. QED  BY <2>3, <4>1, <4>2
    <3>2. order_id > 1
      BY <2>1, <2>3 DEF Stage
    <3>3. all_sent
      BY <2>1, <3>2, Zenon
    <3>4. Branch = "all_sent"
      BY <1>2, <3>1, <3>3 DEF Branch
    <3>. QED  BY <1>2, <2>3, <3>4 DEF k
  <2>4. CASE ~(k = "ornw" /\ ornw_counter >= 2)
    <3>1. ornw_counter \in Nat
      BY <2>1 DEF Stage
    <3>2. k = "ornw" => ornw_counter < 2
      BY <2>4, <3>1
    <3>3. \A i \in 1 .. 7 : Holds(Chain[i]) <=> Chain[i] = k
      BY <2>1, <3>2 DEF Holds
    <3>4. PICK i \in 1 .. 7 : Chain[i] = k
      BY <2>1 DEF Chain, Kind
    <3>5. \A j \in 1 .. 7 : Chain[j] = k => j = i
      BY <3>4 DEF Chain
    <3>6. i \in X /\ X \in SUBSET Nat /\ \A j \in X : i <= j
      BY <2>2, <3>3, <3>4, <3>5
    <3>7. Min(X) = i
      BY <3>6, MinFacts
    <3>8. \E j \in DOMAIN Chain : Holds(Chain[j])
      BY <3>6
    <3>9. Branch = Chain[Min(X)]
      BY <1>2, <3>8 DEF Branch
    <3>. QED  BY <1>2, <2>4, <3>4, <3>7, <3>9 DEF k
  <2>. QED  BY <2>3, <2>4
<1>. QED  BY <1>1, <1>2

(* Only messages that answer the last request are wanted.                  *)
LEMMA WantedFacts ==
  ASSUME NEW k \in Kind, sent = {k}, NEW t \in MessageType
  PROVE  IsWanted(t) <=> \/ k = "helo" /\ t = "exst"
                         \/ k = "pdrq" /\ t = "pdrp"
                         \/ k = "ornw" /\ t \in {"ack", "orcr", "orrj"}
                         \/ k = "oprq" /\ t = "oprp"
                         \/ k = "orcn" /\ t \in {"ack", "orst", "ordn", "clrj"}
                         \/ k = "blrq" /\ t = "blrp"
<1>1. DOMAIN Wanted = {"pdrq", "blrq", "oprq", "ornw", "orcn"}
  BY DEF Wanted
<1>2. /\ Wanted["pdrq"] = {"pdrp"} /\ Wanted["blrq"] = {"blrp"}
      /\ Wanted["oprq"] = {"oprp"} /\ Wanted["ornw"] = {"ack", "orcr", "orrj"}
      /\ Wanted["orcn"] = {"ack", "orst", "ordn", "clrj"}
  BY DEF Wanted
<1>3. IsWanted(t) <=> \/ t = "exst" /\ k = "helo"
                      \/ k \in DOMAIN Wanted /\ t \in Wanted[k]
  BY DEF IsWanted, Asking
<1>. HIDE DEF Wanted
<1>. QED  BY <1>1, <1>2, <1>3 DEF Kind

(* A wanted message sets a flag; that of a new order only if it exists.    *)
LEMMA FlagFacts ==
  ASSUME NEW k \in Kind, sent = {k}, NEW t \in MessageType, IsWanted(t)
  PROVE  /\ Flag(t) \in FlagSet \ {"err"}
         /\ Flag(t) = "helo" <=> t = "exst"
         /\ Flag(t) = "ornw" <=> t = "orcr"
         /\ \A x \in {"pdrp", "orrj", "oprp", "blrp"} : Flag(t) = x <=> t = x
<1>1. t \in {"exst", "pdrp", "ack", "orcr", "orrj", "oprp", "orst", "ordn",
             "clrj", "blrp"}
  BY WantedFacts
<1>. QED  BY <1>1 DEF Flag, FlagSet

(* What is before a request in the chain.                                  *)
LEMMA ChainFacts ==
  ASSUME NEW k \in Kind, NEW s \in Successors(k)
  PROVE  /\ s # "helo"
         /\ s = "hrbt" <=> k = "helo"
         /\ s = "pdrq" <=> k = "hrbt"
         /\ s = "ornw" <=> k \in {"pdrq", "blrq"}
         /\ s = "oprq" <=> k = "ornw"
         /\ s = "orcn" => k = "oprq"
         /\ s = "blrq" => k \in {"oprq", "orcn"}
         /\ k = "orcn" => s = "blrq"
         /\ k = "oprq" => s \in {"orcn", "blrq"}
BY DEF Kind, Successors

(* The places where requests of a kind can be.                             *)
LEMMA Places ==
  ASSUME Machine, Chained
  PROVE  LET n == Len(requests)
         IN  /\ n \in Nat
             /\ n >= 1 => Is(1, "helo")
             /\ n >= 2 => Is(2, "hrbt")
             /\ n >= 3 => Is(3, "pdrq")
             /\ n >= 4 => Is(4, "ornw")
             /\ n >= 5 => Is(5, "oprq")
             /\ n >= 6 => Is(6, "orcn") \/ Is(6, "blrq")
             /\ \A i \in 1 .. n : requests[i] \in Request
             /\ \A i \in 1 .. n : requests[i].kind \in Kind
             /\ \A i \in 1 .. n : requests[i].order \in 0 .. 3
             /\ \A i \in 1 .. n : Is(i, "pdrq") => i = 3
             /\ \A i \in 1 .. n : Is(i, "ornw") => i = 4 \/ i >= 7
             /\ \A i \in 1 .. n : Is(i, "oprq") => i = 5 \/ i >= 8
             /\ \A i \in 1 .. n : Is(i, "blrq") => i >= 6
<1>. DEFINE n == Len(requests)
<1>1. requests \in Seq(Request)
  BY DEF Machine
<1>2. n \in Nat /\ \A i \in 1 .. n : requests[i] \in Request
  BY ONLY <1>1
<1>3. \A i \in 1 .. n : requests[i].kind \in Kind /\ requests[i].order \in 0 .. 3
  BY ONLY <1>2 DEF Request
<1>4. /\ n > 0 => Is(1, "helo")
      /\ \A i \in 1 .. n : i < n => requests[i + 1].kind \in Successors(requests[i].kind)
  BY DEF Chained
<1>. HIDE DEF n
<1>5. ASSUME NEW i \in 1 .. n, i > 1
      PROVE  /\ i - 1 \in 1 .. n
             /\ requests[i - 1].kind \in Kind
             /\ requests[i].kind \in Successors(requests[i - 1].kind)
  <2>1. i - 1 \in 1 .. n /\ i - 1 < n /\ (i - 1) + 1 = i
    BY <1>2, <1>5
  <2>. QED  BY <2>1, <1>3, <1>4
<1>6. n >= 1 => Is(1, "helo")
  BY <1>2, <1>4
<1>7. n >= 2 => Is(2, "hrbt")
  <2>. SUFFICES ASSUME n >= 2 PROVE Is(2, "hrbt")
    OBVIOUS
  <2>1. 2 \in 1 .. n /\ 2 > 1 /\ 2 - 1 = 1 /\ n >= 1
    BY <1>2
  <2>. QED  BY <1>5, <1>6, <2>1, ChainFacts DEF Is
<1>8. n >= 3 => Is(3, "pdrq")
  <2>. SUFFICES ASSUME n >= 3 PROVE Is(3, "pdrq")
    OBVIOUS
  <2>1. 3 \in 1 .. n /\ 3 > 1 /\ 3 - 1 = 2 /\ n >= 2
    BY <1>2
  <2>. QED  BY <1>5, <1>7, <2>1, ChainFacts DEF Is
<1>9. n >= 4 => Is(4, "ornw")
  <2>. SUFFICES ASSUME n >= 4 PROVE Is(4, "ornw")
    OBVIOUS
  <2>1. 4 \in 1 .. n /\ 4 > 1 /\ 4 - 1 = 3 /\ n >= 3
    BY <1>2
  <2>. QED  BY <1>5, <1>8, <2>1, ChainFacts DEF Is
<1>10. n >= 5 => Is(5, "oprq")
  <2>. SUFFICES ASSUME n >= 5 PROVE Is(5, "oprq")
    OBVIOUS
  <2>1. 5 \in 1 .. n /\ 5 > 1 /\ 5 - 1 = 4 /\ n >= 4
    BY <1>2
  <2>. QED  BY <1>5, <1>9, <2>1, ChainFacts DEF Is
<1>11. n >= 6 => Is(6, "orcn") \/ Is(6, "blrq")
  <2>. SUFFICES ASSUME n >= 6 PROVE Is(6, "orcn") \/ Is(6, "blrq")
    OBVIOUS
  <2>1. 6 \in 1 .. n /\ 6 > 1 /\ 6 - 1 = 5 /\ n >= 5
    BY <1>2
  <2>. QED  BY <1>5, <1>10, <2>1, ChainFacts DEF Is
<1>12. \A i \in 1 .. n : Is(i, "helo") => i = 1
  BY <1>2, <1>5, ChainFacts DEF Is
<1>13. \A i \in 1 .. n : Is(i, "hrbt") => i = 2
  <2>. SUFFICES ASSUME NEW i \in 1 .. n, Is(i, "hrbt") PROVE i = 2
    OBVIOUS
  <2>1. i > 1
    BY <1>2, <1>6 DEF Is
  <2>2. i - 1 \in 1 .. n /\ Is(i - 1, "helo")
    BY <1>5, <2>1, ChainFacts DEF Is
  <2>3. i - 1 = 1
    BY <1>12, <2>2
  <2>. QED  BY <2>3
<1>14. \A i \in 1 .. n : Is(i, "pdrq") => i = 3
  <2>. SUFFICES ASSUME NEW i \in 1 .. n, Is(i, "pdrq") PROVE i = 3
    OBVIOUS
  <2>1. i > 1
    BY <1>2, <1>6 DEF Is
  <2>2. i - 1 \in 1 .. n /\ Is(i - 1, "hrbt")
    BY <1>5, <2>1, ChainFacts DEF Is
  <2>3. i - 1 = 2
    BY <1>13, <2>2
  <2>. QED  BY <2>3
<1>15. \A i \in 1 .. n : Is(i, "blrq") => i >= 6
  <2>. SUFFICES ASSUME NEW i \in 1 .. n, Is(i, "blrq"), ~(i >= 6) PROVE FALSE
    OBVIOUS
  <2>1. i \in {1, 2, 3, 4, 5} /\ n >= i
    BY <1>2
  <2>. QED  BY <1>2, <1>6, <1>7, <1>8, <1>9, <1>10, <2>1 DEF Is
<1>16. \A i \in 1 .. n : Is(i, "ornw") => i = 4 \/ i >= 7
  <2>. SUFFICES ASSUME NEW i \in 1 .. n, Is(i, "ornw") PROVE i = 4 \/ i >= 7
    OBVIOUS
  <2>1. i > 1
    BY <1>2, <1>6 DEF Is
  <2>2. i - 1 \in 1 .. n /\ (Is(i - 1, "pdrq") \/ Is(i - 1, "blrq"))
    BY <1>5, <2>1, ChainFacts DEF Is
  <2>3. i - 1 = 3 \/ i - 1 >= 6
    BY <1>14, <1>15, <2>2
  <2>. QED  BY <2>3
<1>17. \A i \in 1 .. n : Is(i, "oprq") => i = 5 \/ i >= 8
  <2>. SUFFICES ASSUME NEW i \in 1 .. n, Is(i, "oprq") PROVE i = 5 \/ i >= 8
    OBVIOUS
  <2>1. i > 1
    BY <1>2, <1>6 DEF Is
  <2>2. i - 1 \in 1 .. n /\ Is(i - 1, "ornw")
    BY <1>5, <2>1, ChainFacts DEF Is
  <2>3. i - 1 = 4 \/ i - 1 >= 7
    BY <1>16, <2>2
  <2>. QED  BY <2>3
<1>. QED
  BY <1>2, <1>3, <1>6, <1>7, <1>8, <1>9, <1>10, <1>11, <1>14, <1>15, <1>16, <1>17
     DEF n

----------------------------------------------------------------------------
(* The loop of data_received.                                              *)

Acc == [recv : SUBSET FlagSet, exchId : 0 .. 3, errors : BOOLEAN,
        warnings : BOOLEAN, timely : SUBSET (1 .. Len(requests)),
        over : BOOLEAN, raised : BOOLEAN]

(* What has been heard after k messages of the channel.                    *)
Good(c, k) ==
  /\ c \in Acc
  /\ c.timely \subseteq timely \cup {Len(requests)}
  /\ c.raised => c.over
  /\ ~c.raised => Informed(c, k) /\ Flags(c) /\ Clean(c)

(* The fields of what was heard.                                           *)
LEMMA AccFacts ==
  ASSUME NEW c \in Acc
  PROVE  /\ c.recv \subseteq FlagSet /\ c.exchId \in 0 .. 3
         /\ c.errors \in BOOLEAN /\ c.warnings \in BOOLEAN
         /\ c.timely \subseteq 1 .. Len(requests)
         /\ c.over \in BOOLEAN /\ c.raised \in BOOLEAN
BY DEF Acc

(* What does not touch flags, ids and answers keeps what is known.         *)
LEMMA GoodKept ==
  ASSUME NEW k \in Nat, NEW j \in Nat, k <= j, NEW c, Good(c, k),
         NEW d \in Acc, d.timely = c.timely, d.exchId = c.exchId,
         d.recv = c.recv \/ d.recv = c.recv \cup {"err"},
         c.errors => d.errors, d.raised => d.over, c.raised => d.raised
  PROVE  Good(d, j)
<1>1. d.timely \subseteq timely \cup {Len(requests)}
  BY DEF Good
<1>2. ASSUME ~d.raised
      PROVE  Informed(d, j) /\ Flags(d) /\ Clean(d)
  <2>1. Informed(c, k) /\ Flags(c) /\ Clean(c)
    BY <1>2 DEF Good
  <2>2. \A x \in {"helo", "pdrp", "ornw", "orrj", "oprp", "blrp"} :
          x \in d.recv <=> x \in c.recv
    OBVIOUS
  <2>3. Informed(d, j)
    <3>1. /\ d.exchId \in created \cup {0}
          /\ "ornw" \in d.recv => d.exchId \in created
          /\ \A i \in d.timely : Is(i, "ornw") => i <= answered
          /\ \A i \in d.timely :
               Exists(i) => "ornw" \in d.recv /\ requests[i].order <= d.exchId
      BY <2>1, <2>2 DEF Informed
    <3>2. \A i \in 1 .. Len(channel) :
            i > k /\ channel[i].type = "orcr" => d.exchId <= channel[i].order
      BY <2>1 DEF Informed
    <3>3. \A i \in 1 .. Len(channel) : i > j => i > k
      OBVIOUS
    <3>. QED  BY <3>1, <3>2, <3>3 DEF Informed
  <2>4. Flags(d)
    BY <2>1, <2>2 DEF Flags
  <2>5. Clean(d)
    BY <2>1 DEF Clean
  <2>. QED  BY <2>3, <2>4, <2>5
<1>. QED  BY <1>1, <1>2 DEF Good

(* What parsing a message changes.                                         *)
LEMMA ParseFacts ==
  ASSUME NEW c \in Acc, NEW m \in Message
  PROVE  LET d == ParseMessage(c, m)
         IN  /\ d \in Acc
             /\ d.recv = c.recv /\ d.timely = c.timely
             /\ c.errors => d.errors
             /\ d.over = (c.over \/ d.raised)
             /\ d.exchId = IF m.type = "orcr" /\ ~d.raised THEN m.order ELSE c.exchId
<1>. DEFINE raises == m.form = "key" /\ m.type \in {"exst", "pdrp", "orcr", "oprp", "err"}
            d == ParseMessage(c, m)
            e == c.errors \/ m.form # "whole" \/ m.type = "err"
            x == IF m.type = "orcr" /\ ~raises THEN m.order ELSE c.exchId
            o == c.over \/ raises
<1>1. d = [c EXCEPT !.errors = e, !.exchId = x, !.raised = raises, !.over = o]
  BY DEF ParseMessage
<1>2. m.order \in 0 .. 3
  BY DEF Message
<1>3. e \in BOOLEAN /\ raises \in BOOLEAN /\ o \in BOOLEAN
  OBVIOUS
<1>4. x \in 0 .. 3
  BY <1>2, AccFacts
<1>5. c.errors => e
  OBVIOUS
<1>6. o = (c.over \/ raises) /\ x = IF m.type = "orcr" /\ ~raises THEN m.order ELSE c.exchId
  OBVIOUS
<1>. HIDE DEF raises, d, e, x, o
<1>7. d \in Acc
  BY <1>1, <1>3, <1>4 DEF Acc
<1>8. /\ d.recv = c.recv /\ d.timely = c.timely /\ d.errors = e
      /\ d.exchId = x /\ d.raised = raises /\ d.over = o
  BY <1>1 DEF Acc
<1>9. c.errors => d.errors
  BY <1>5, <1>8, Zenon
<1>10. d.over = (c.over \/ d.raised)
  BY <1>6, <1>8, Zenon
<1>11. d.exchId = IF m.type = "orcr" /\ ~d.raised THEN m.order ELSE c.exchId
  BY <1>6, <1>8, Zenon
<1>. QED  BY <1>7, <1>8, <1>9, <1>10, <1>11 DEF d

(* What hearing a message changes.                                         *)
LEMMA HearFacts ==
  ASSUME NEW c \in Acc, ~c.over, ~c.raised, NEW m \in Message,
         NEW k \in Kind, sent = {k}, Len(requests) \in Nat, Len(requests) > 0
  PROVE  LET d == Hear(c, m)
         IN  /\ d \in Acc
             /\ d.recv = (c.recv \ {"err"})
                           \cup (IF IsWanted(m.type) THEN {Flag(m.type)} ELSE {})
             /\ d.timely = c.timely
                             \cup (IF Settles(m) THEN {Len(requests)} ELSE {})
             /\ c.errors => d.errors
             /\ d.raised => d.over
             /\ d.exchId = IF m.type = "orcr" /\ IsWanted("orcr") /\ ~d.raised
                           THEN m.order ELSE c.exchId
<1>. DEFINE wanted == IsWanted(m.type)
            v == (c.recv \ {"err"}) \cup (IF wanted THEN {Flag(m.type)} ELSE {})
            e == c.errors \/ \E p \in Asking : m.type \notin Wanted[p]
            w == c.warnings \/ (~wanted /\ m.type \in {"orcr", "orrj", "orst", "ordn", "clrj"})
            t == c.timely \cup (IF Settles(m) THEN {Len(requests)} ELSE {})
            f == [c EXCEPT !.recv = v, !.errors = e, !.warnings = w, !.timely = t]
            d == Hear(c, m)
<1>1. m.type \in MessageType
  BY DEF Message
<1>2. v \in SUBSET FlagSet
  <2>1. c.recv \subseteq FlagSet
    BY AccFacts
  <2>2. wanted => Flag(m.type) \in FlagSet
    BY <1>1, FlagFacts
  <2>. QED  BY <2>1, <2>2
<1>3. t \in SUBSET (1 .. Len(requests))
  BY AccFacts
<1>4. e \in BOOLEAN /\ w \in BOOLEAN /\ (c.errors => e)
  OBVIOUS
<1>5. d = IF wanted \/ m.type \in {"pdrp", "blrp", "oprp"}
          THEN ParseMessage(f, m) ELSE f
  BY DEF Hear
<1>. HIDE DEF v, e, w, t, d
<1>6. /\ f \in Acc /\ f.recv = v /\ f.timely = t /\ f.errors = e
      /\ f.exchId = c.exchId /\ f.over = c.over /\ f.raised = c.raised
  BY <1>2, <1>3, <1>4 DEF Acc
<1>. HIDE DEF f
<1>7. ~f.over /\ ~f.raised
  BY <1>6, Zenon
<1>8. c.errors => f.errors
  BY <1>4, <1>6, Zenon
<1>9. CASE wanted \/ m.type \in {"pdrp", "blrp", "oprp"}
  <2>1. d = ParseMessage(f, m)
    BY <1>5, <1>9
  <2>2. /\ d \in Acc /\ d.recv = f.recv /\ d.timely = f.timely
        /\ f.errors => d.errors
        /\ d.over = (f.over \/ d.raised)
        /\ d.exchId = IF m.type = "orcr" /\ ~d.raised THEN m.order ELSE f.exchId
    BY <2>1, <1>6, ParseFacts
  <2>3. d.recv = v /\ d.timely = t
    BY <2>2, <1>6, Zenon
  <2>4. (c.errors => d.errors) /\ (d.raised => d.over)
    BY <2>2, <1>8, Zenon
  <2>5. d.exchId = IF m.type = "orcr" /\ IsWanted("orcr") /\ ~d.raised
                   THEN m.order ELSE c.exchId
    <3>1. CASE m.type = "orcr"
      <4>1. m.type \notin {"pdrp", "blrp", "oprp"}
        BY <3>1
      <4>2. IsWanted("orcr")
        BY <4>1, <1>9, <3>1, Zenon
      <4>. QED  BY <4>2, <2>2, <1>6, Zenon
    <3>2. CASE m.type # "orcr"
      BY <3>2, <2>2, <1>6, Zenon
    <3>. QED  BY <3>1, <3>2
  <2>. QED  BY <2>2, <2>3, <2>4, <2>5 DEF d, v, t
<1>10. CASE ~(wanted \/ m.type \in {"pdrp", "blrp", "oprp"})
  <2>1. d = f
    BY <1>5, <1>10
  <2>2. d \in Acc /\ d.recv = v /\ d.timely = t
    BY <2>1, <1>6
  <2>3. (c.errors => d.errors) /\ (d.raised => d.over)
    BY <2>1, <1>7, <1>8, Zenon
  <2>4. ~(m.type = "orcr" /\ IsWanted("orcr"))
    BY <1>10, Zenon
  <2>5. d.exchId = c.exchId
    BY <2>1, <1>6
  <2>. QED  BY <2>2, <2>3, <2>4, <2>5 DEF d, v, t
<1>. QED  BY <1>9, <1>10

(* What an answer says.                                                    *)
LEMMA SaysFacts ==
  ASSUME NEW kind \in Kind, NEW t \in Says(kind)
  PROVE  /\ t = "exst" => kind = "helo"
         /\ t = "pdrp" => kind = "pdrq"
         /\ t \in {"orcr", "orrj"} => kind = "ornw"
         /\ t = "oprp" => kind = "oprq"
         /\ t = "blrp" => kind = "blrq"
         /\ kind = "ornw" => t \in {"ack", "orcr", "orrj", "err"}
         /\ t # "fragment"
BY DEF Kind, Says

(* A message of the channel and the request that it answers.               *)
LEMMA MessageFacts ==
  ASSUME Machine, Chained, Exchange, NEW k \in 1 .. Len(channel)
  PROVE  LET m == channel[k]
         IN  /\ m \in Message /\ m.type \in MessageType /\ m.order \in 0 .. 3
             /\ m.to \in Nat
             /\ m.to = 0 => m.type \in {"exst", "fragment"}
             /\ m.to > 0 =>
                  /\ m.to \in 1 .. Len(requests) /\ m.to <= answered
                  /\ requests[m.to].kind \in Kind
                  /\ m.type \in Says(requests[m.to].kind)
                  /\ m.order = requests[m.to].order
             /\ m.type = "orcr" => m.order \in created
             /\ m.type = "orrj" => m.order \notin created
<1>. DEFINE m == channel[k]
<1>1. /\ answered \in 0 .. Len(requests) /\ channel \in Seq(Message) /\ Fits(m)
  BY DEF Exchange
<1>2. m \in Message
  BY ONLY <1>1, k \in 1 .. Len(channel)
<1>3. m.type \in MessageType /\ m.order \in 0 .. 3
  BY <1>2 DEF Message
<1>4. Len(requests) \in Nat /\ \A i \in 1 .. Len(requests) : requests[i].kind \in Kind
  BY Places
<1>. HIDE DEF m
<1>5. /\ m.to \in 0 .. answered
      /\ m.to = 0 => m.type \in {"exst", "fragment"}
      /\ m.to > 0 => m.type \in Says(requests[m.to].kind) /\ m.order = requests[m.to].order
      /\ m.type = "orcr" => m.order \in created
      /\ m.type = "orrj" => m.order \notin created
  BY <1>1 DEF Fits
<1>6. m.to \in Nat /\ (m.to > 0 => m.to \in 1 .. Len(requests) /\ m.to <= answered)
  BY <1>1, <1>4, <1>5
<1>. QED  BY <1>2, <1>3, <1>4, <1>5, <1>6 DEF m

(* An answer that comes in time and sets a flag.                           *)
LEMMA HearFlags ==
  ASSUME Machine, Chained, Exchange, ~appl_init,
         NEW k \in 1 .. Len(channel), channel[k].type # "err",
         NEW c \in Acc, ~c.over, ~c.raised, Flags(c)
  PROVE  Flags(Hear(c, channel[k]))
<1>. DEFINE m == channel[k]
            n == Len(requests)
            K == requests[n].kind
            d == Hear(c, m)
<1>1. /\ n \in Nat /\ n > 0 /\ K \in Kind /\ sent = {K}
      /\ Stage(K, ornw_counter, order_id, n)
  BY LastRequest
<1>2. /\ m \in Message /\ m.type \in MessageType /\ m.to \in Nat
      /\ m.to = 0 => m.type \in {"exst", "fragment"}
      /\ m.to > 0 => /\ m.to \in 1 .. n
                     /\ requests[m.to].kind \in Kind
                     /\ m.type \in Says(requests[m.to].kind)
  BY MessageFacts
<1>3. /\ d.recv = (c.recv \ {"err"})
                    \cup (IF IsWanted(m.type) THEN {Flag(m.type)} ELSE {})
      /\ d.timely = c.timely \cup (IF Settles(m) THEN {n} ELSE {})
  BY <1>1, <1>2, HearFacts
<1>4. /\ Settles(m) <=> \/ m.to = n /\ m.type \notin {"ack", "orst"}
                        \/ m.type = "exst" /\ K = "helo"
  BY <1>1 DEF Settles
<1>5. /\ \A i \in 1 .. n : Is(i, "pdrq") => i = 3
      /\ \A i \in 1 .. n : Is(i, "ornw") => i = 4 \/ i >= 7
      /\ \A i \in 1 .. n : Is(i, "oprq") => i = 5 \/ i >= 8
      /\ \A i \in 1 .. n : Is(i, "blrq") => i >= 6
      /\ n >= 6 => Is(6, "orcn") \/ Is(6, "blrq")
  BY Places
<1>6. \A i \in 1 .. n : i < n => requests[i + 1].kind \in Successors(requests[i].kind)
  BY DEF Chained
<1>. HIDE DEF m, n, d
<1>7. /\ "helo" \in c.recv => 1 \in c.timely
      /\ "pdrp" \in c.recv => 3 \in c.timely
      /\ n <= 4 /\ ("ornw" \in c.recv \/ "orrj" \in c.recv) => 4 \in c.timely
      /\ n <= 5 /\ "oprp" \in c.recv => 5 \in c.timely
      /\ order_id = 1 /\ "blrp" \in c.recv => sent = {"blrq"} /\ n \in c.timely
  BY DEF Flags, n
<1>8. ASSUME NEW x \in {"helo", "pdrp", "ornw", "orrj", "oprp", "blrp"},
             x \in d.recv, x \notin c.recv
      PROVE  IsWanted(m.type) /\ Flag(m.type) = x
  BY <1>3, <1>8
<1>9. c.timely \subseteq d.timely /\ (Settles(m) => n \in d.timely)
  BY <1>3
<1>10. "helo" \in d.recv => 1 \in d.timely
  <2>. SUFFICES ASSUME "helo" \in d.recv, "helo" \notin c.recv PROVE 1 \in d.timely
    BY <1>7, <1>9
  <2>1. m.type = "exst"
    BY <1>1, <1>2, <1>8, FlagFacts
  <2>2. K = "helo"
    BY <1>1, <1>2, <1>8, <2>1, WantedFacts
  <2>3. n = 1
    BY <1>1, <2>2 DEF Stage
  <2>. QED  BY <1>4, <1>9, <2>1, <2>2, <2>3
<1>11. "pdrp" \in d.recv => 3 \in d.timely
  <2>. SUFFICES ASSUME "pdrp" \in d.recv, "pdrp" \notin c.recv PROVE 3 \in d.timely
    BY <1>7, <1>9
  <2>1. m.type = "pdrp"
    BY <1>1, <1>2, <1>8, FlagFacts
  <2>2. K = "pdrq"
    BY <1>1, <1>2, <1>8, <2>1, WantedFacts
  <2>3. n = 3
    BY <1>1, <2>2 DEF Stage
  <2>4. m.to \in 1 .. n /\ requests[m.to].kind = "pdrq"
    BY <1>2, <2>1, SaysFacts
  <2>5. m.to = 3
    BY <1>5, <2>4 DEF Is
  <2>. QED  BY <1>4, <1>9, <2>1, <2>3, <2>5
<1>12. ASSUME n <= 4, "ornw" \in d.recv \/ "orrj" \in d.recv
       PROVE  4 \in d.timely
  <2>. SUFFICES ASSUME "ornw" \notin c.recv, "orrj" \notin c.recv PROVE 4 \in d.timely
    BY <1>7, <1>9, <1>12
  <2>1. m.type \in {"orcr", "orrj"}
    BY <1>1, <1>2, <1>8, <1>12, FlagFacts
  <2>2. K = "ornw"
    BY <1>1, <1>2, <1>8, <1>12, <2>1, WantedFacts
  <2>3. n = 4
    BY <1>1, <1>12, <2>2 DEF Stage
  <2>4. m.to \in 1 .. n /\ requests[m.to].kind = "ornw"
    BY <1>2, <2>1, SaysFacts
  <2>5. m.to = 4 \/ m.to >= 7
    BY <1>5, <2>4 DEF Is
  <2>6. m.to = n
    BY <2>3, <2>4, <2>5
  <2>. QED  BY <1>4, <1>9, <2>1, <2>3, <2>6
<1>13. ASSUME n <= 5, "oprp" \in d.recv
       PROVE  5 \in d.timely
  <2>. SUFFICES ASSUME "oprp" \notin c.recv PROVE 5 \in d.timely
    BY <1>7, <1>9, <1>13
  <2>1. m.type = "oprp"
    BY <1>1, <1>2, <1>8, <1>13, FlagFacts
  <2>2. K = "oprq"
    BY <1>1, <1>2, <1>8, <1>13, <2>1, WantedFacts
  <2>3. n = 5
    BY <1>1, <1>13, <2>2 DEF Stage
  <2>4. m.to \in 1 .. n /\ requests[m.to].kind = "oprq"
    BY <1>2, <2>1, SaysFacts
  <2>5. m.to = 5 \/ m.to >= 8
    BY <1>5, <2>4 DEF Is
  <2>6. m.to = n
    BY <2>3, <2>4, <2>5
  <2>. QED  BY <1>4, <1>9, <2>1, <2>3, <2>6
<1>14. ASSUME order_id = 1, "blrp" \in d.recv
       PROVE  sent = {"blrq"} /\ n \in d.timely
  <2>. SUFFICES ASSUME "blrp" \notin c.recv PROVE sent = {"blrq"} /\ n \in d.timely
    BY <1>7, <1>9, <1>14
  <2>1. m.type = "blrp"
    BY <1>1, <1>2, <1>8, <1>14, FlagFacts
  <2>2. K = "blrq"
    BY <1>1, <1>2, <1>8, <1>14, <2>1, WantedFacts
  <2>3. n = 6 \/ n = 7
    BY <1>1, <1>14, <2>2 DEF Stage
  <2>4. m.to \in 1 .. n /\ requests[m.to].kind = "blrq"
    BY <1>2, <2>1, SaysFacts
  <2>5. m.to >= 6
    BY <1>5, <2>4 DEF Is
  <2>6. m.to = n
    <3>. SUFFICES ASSUME m.to # n PROVE FALSE
      OBVIOUS
    <3>1. m.to = 6 /\ n = 7
      BY <2>3, <2>4, <2>5
    <3>2. requests[6 + 1].kind \in Successors("blrq")
      BY <1>6, <2>4, <3>1
    <3>3. requests[7].kind = "ornw"
      BY <3>2 DEF Successors
    <3>. QED  BY <2>2, <3>1, <3>3
  <2>. QED  BY <1>1, <1>4, <1>9, <2>1, <2>2, <2>6
<1>. QED  BY <1>10, <1>11, <1>12, <1>13, <1>14 DEF Flags, d, m, n

(* An order that exists is known by its id as soon as it is confirmed.     *)
LEMMA HearInformed ==
  ASSUME Machine, Chained, Exchange, ~appl_init,
         NEW k \in 1 .. Len(channel), channel[k].type # "err",
         NEW c \in Acc, ~c.over, ~c.raised, Informed(c, k - 1),
         ~Hear(c, channel[k]).raised
  PROVE  Informed(Hear(c, channel[k]), k)
<1>. DEFINE m == channel[k]
            n == Len(requests)
            K == requests[n].kind
            d == Hear(c, m)
            confirms == m.type = "orcr" /\ IsWanted("orcr")
<1>1. /\ n \in Nat /\ n > 0 /\ K \in Kind /\ sent = {K}
      /\ Stage(K, ornw_counter, order_id, n)
  BY LastRequest
<1>2. /\ m \in Message /\ m.type \in MessageType /\ m.to \in Nat /\ m.order \in 0 .. 3
      /\ m.to = 0 => m.type \in {"exst", "fragment"}
      /\ m.to > 0 => /\ m.to \in 1 .. n /\ m.to <= answered
                     /\ requests[m.to].kind \in Kind
                     /\ m.type \in Says(requests[m.to].kind)
                     /\ m.order = requests[m.to].order
      /\ m.type = "orcr" => m.order \in created
      /\ m.type = "orrj" => m.order \notin created
  BY MessageFacts
<1>3. /\ d.recv = (c.recv \ {"err"})
                    \cup (IF IsWanted(m.type) THEN {Flag(m.type)} ELSE {})
      /\ d.timely = c.timely \cup (IF Settles(m) THEN {n} ELSE {})
      /\ d.exchId = IF confirms THEN m.order ELSE c.exchId
  BY <1>1, <1>2, HearFacts
<1>4. /\ Settles(m) <=> \/ m.to = n /\ m.type \notin {"ack", "orst"}
                        \/ m.type = "exst" /\ K = "helo"
  BY <1>1 DEF Settles
<1>5. /\ c.exchId \in created \cup {0}
      /\ "ornw" \in c.recv => c.exchId \in created
      /\ \A i \in c.timely : Is(i, "ornw") => i <= answered
      /\ \A i \in c.timely :
           Exists(i) => "ornw" \in c.recv /\ requests[i].order <= c.exchId
      /\ \A i \in 1 .. Len(channel) :
           i > k - 1 /\ channel[i].type = "orcr" => c.exchId <= channel[i].order
  BY DEF Informed
<1>6. \A i, j \in 1 .. Len(channel) :
        i < j /\ channel[i].type = "orcr" /\ channel[j].type = "orcr" =>
          channel[i].order <= channel[j].order
  BY DEF Exchange
<1>7. /\ \A i \in 1 .. n : requests[i].order \in 0 .. 3
      /\ c.exchId \in 0 .. 3 /\ c.timely \subseteq 1 .. n
  BY Places, AccFacts
<1>8. /\ channel \in Seq(Message) /\ Len(channel) \in Nat
      /\ \A i \in 1 .. Len(channel) : channel[i].order \in 0 .. 3
  <2>1. channel \in Seq(Message)
    BY DEF Exchange
  <2>2. Len(channel) \in Nat
    BY ONLY <2>1
  <2>. QED  BY <2>1, <2>2, MessageFacts
<1>9. m.type = "orcr" => c.exchId <= m.order
  <2>1. k > k - 1
    BY <1>8
  <2>. QED  BY <1>5, <2>1
<1>10. confirms <=> m.type = "orcr" /\ K = "ornw"
  <2>1. "orcr" \in MessageType
    BY DEF MessageType
  <2>2. IsWanted("orcr") <=> K = "ornw"
    BY <1>1, <2>1, WantedFacts
  <2>. QED  BY <2>2
<1>11. "ornw" \in d.recv <=> "ornw" \in c.recv \/ confirms
  <2>1. CASE IsWanted(m.type)
    <3>1. Flag(m.type) = "ornw" <=> m.type = "orcr"
      BY <1>1, <1>2, <2>1, FlagFacts
    <3>2. d.recv = (c.recv \ {"err"}) \cup {Flag(m.type)}
      BY <1>3, <2>1
    <3>. QED  BY <2>1, <3>1, <3>2
  <2>2. CASE ~IsWanted(m.type)
    <3>1. d.recv = (c.recv \ {"err"}) \cup {} /\ ~confirms
      BY <1>3, <2>2
    <3>. QED  BY <3>1
  <2>. QED  BY <2>1, <2>2
<1>. HIDE DEF m, d, confirms
<1>12. d.exchId \in 0 .. 3 /\ c.exchId <= d.exchId
  <2>1. CASE confirms
    BY <1>2, <1>3, <1>7, <1>9, <1>10, <2>1
  <2>2. CASE ~confirms
    BY <1>3, <1>7, <2>2
  <2>. QED  BY <2>1, <2>2
<1>13. d.exchId \in created \cup {0} /\ ("ornw" \in d.recv => d.exchId \in created)
  <2>1. CASE confirms
    BY <1>2, <1>3, <1>10, <2>1
  <2>2. CASE ~confirms
    BY <1>3, <1>5, <1>11, <2>2
  <2>. QED  BY <2>1, <2>2
<1>14. ASSUME NEW i \in d.timely, i \notin c.timely, Is(i, "ornw")
       PROVE  i = n /\ m.to = n /\ m.type \in {"orcr", "orrj"}
  <2>1. i = n /\ Settles(m)
    BY <1>3, <1>14
  <2>2. K = "ornw"
    BY <2>1, <1>14 DEF Is
  <2>3. m.to = n /\ m.type \notin {"ack", "orst"}
    BY <1>4, <2>1, <2>2
  <2>4. m.type \in {"ack", "orcr", "orrj", "err"}
    BY <1>1, <1>2, <2>2, <2>3, SaysFacts
  <2>. QED  BY <2>1, <2>3, <2>4 DEF m
<1>15. \A i \in d.timely : Is(i, "ornw") => i <= answered
  BY <1>1, <1>2, <1>5, <1>14
<1>16. ASSUME NEW i \in d.timely, Exists(i)
       PROVE  "ornw" \in d.recv /\ requests[i].order <= d.exchId
  <2>1. CASE i \in c.timely
    <3>1. "ornw" \in c.recv /\ requests[i].order <= c.exchId
      BY <1>5, <1>16, <2>1
    <3>2. requests[i].order \in 0 .. 3
      BY <1>7, <2>1
    <3>. QED  BY <1>7, <1>11, <1>12, <3>1, <3>2
  <2>2. CASE i \notin c.timely
    <3>1. Is(i, "ornw") /\ requests[i].order \in created
      BY <1>16 DEF Exists
    <3>2. i = n /\ m.to = n /\ m.type \in {"orcr", "orrj"}
      BY <1>14, <2>2, <3>1
    <3>3. m.order = requests[i].order
      BY <1>1, <1>2, <3>2
    <3>4. m.type = "orcr" /\ confirms
      BY <1>2, <1>10, <3>1, <3>2, <3>3 DEF Is
    <3>5. d.exchId = requests[i].order
      BY <1>3, <3>3, <3>4
    <3>. QED  BY <1>11, <1>12, <3>4, <3>5
  <2>. QED  BY <2>1, <2>2
<1>17. ASSUME NEW i \in 1 .. Len(channel), i > k, channel[i].type = "orcr"
       PROVE  d.exchId <= channel[i].order
  <2>1. CASE confirms
    BY <1>3, <1>6, <1>10, <1>17, <2>1 DEF m
  <2>2. CASE ~confirms
    <3>1. i > k - 1
      BY <1>8, <1>17
    <3>. QED  BY <1>3, <1>5, <1>17, <2>2, <3>1
  <2>. QED  BY <2>1, <2>2
<1>. QED  BY <1>13, <1>15, <1>16, <1>17 DEF Informed, d, m

(* One message of the channel that is neither early nor an err.            *)
LEMMA HearGood ==
  ASSUME Machine, Chained, Exchange, ~appl_init,
         NEW k \in 1 .. Len(channel), channel[k].type # "err",
         NEW c, Good(c, k - 1), ~c.over
  PROVE  Good(Hear(c, channel[k]), k)
<1>. DEFINE d == Hear(c, channel[k])
<1>1. /\ c \in Acc /\ ~c.raised
      /\ c.timely \subseteq timely \cup {Len(requests)}
      /\ Informed(c, k - 1) /\ Flags(c) /\ Clean(c)
  BY DEF Good
<1>2. /\ d \in Acc
      /\ d.timely = c.timely
                      \cup (IF Settles(channel[k]) THEN {Len(requests)} ELSE {})
      /\ c.errors => d.errors
      /\ d.raised => d.over
  <2>1. /\ Len(requests) \in Nat /\ Len(requests) > 0
        /\ requests[Len(requests)].kind \in Kind
        /\ sent = {requests[Len(requests)].kind}
    BY LastRequest
  <2>2. channel[k] \in Message
    BY MessageFacts
  <2>. QED  BY <1>1, <2>1, <2>2, HearFacts
<1>3. Flags(d)
  BY <1>1, HearFlags
<1>4. ~d.raised => Informed(d, k)
  BY <1>1, HearInformed
<1>. HIDE DEF d
<1>5. c.timely \subseteq d.timely /\ d.timely \subseteq timely \cup {Len(requests)}
  BY <1>1, <1>2
<1>6. Clean(d)
  <2>1. ~d.errors => ~c.errors
    BY <1>2
  <2>. QED  BY <1>1, <1>5, <2>1 DEF Clean
<1>7. Good(d, k)
  BY <1>2, <1>3, <1>4, <1>5, <1>6 DEF Good
<1>. QED  BY <1>7 DEF d

(* A message that is early or an err, of which the ids may be read.        *)
LEMMA ParseGood ==
  ASSUME Machine, Chained, Exchange, NEW k \in 1 .. Len(channel),
         NEW c, Good(c, k - 1), ~c.over
  PROVE  Good(ParseMessage(c, channel[k]), k)
<1>. DEFINE m == channel[k]
            d == ParseMessage(c, m)
<1>1. /\ c \in Acc /\ ~c.raised
      /\ c.timely \subseteq timely \cup {Len(requests)}
      /\ Informed(c, k - 1) /\ Flags(c) /\ Clean(c)
  BY DEF Good
<1>2. /\ m \in Message /\ m.order \in 0 .. 3
      /\ m.type = "orcr" => m.order \in created
  BY MessageFacts
<1>3. /\ d \in Acc
      /\ d.recv = c.recv /\ d.timely = c.timely
      /\ c.errors => d.errors
      /\ d.over = (c.over \/ d.raised)
      /\ d.exchId = IF m.type = "orcr" /\ ~d.raised THEN m.order ELSE c.exchId
  BY <1>1, <1>2, ParseFacts
<1>4. /\ c.exchId \in 0 .. 3 /\ c.timely \subseteq 1 .. Len(requests)
      /\ \A i \in 1 .. Len(requests) : requests[i].order \in 0 .. 3
      /\ \A i \in 1 .. Len(channel) : channel[i].order \in 0 .. 3
      /\ Len(channel) \in Nat
  <2>1. channel \in Seq(Message)
    BY DEF Exchange
  <2>2. Len(channel) \in Nat
    BY ONLY <2>1
  <2>. QED  BY <1>1, <2>2, AccFacts, Places, MessageFacts
<1>5. /\ c.exchId \in created \cup {0}
      /\ "ornw" \in c.recv => c.exchId \in created
      /\ \A i \in c.timely : Is(i, "ornw") => i <= answered
      /\ \A i \in c.timely :
           Exists(i) => "ornw" \in c.recv /\ requests[i].order <= c.exchId
      /\ \A i \in 1 .. Len(channel) :
           i > k - 1 /\ channel[i].type = "orcr" => c.exchId <= channel[i].order
  BY <1>1 DEF Informed
<1>6. \A i, j \in 1 .. Len(channel) :
        i < j /\ channel[i].type = "orcr" /\ channel[j].type = "orcr" =>
          channel[i].order <= channel[j].order
  BY DEF Exchange
<1>7. m.type = "orcr" => c.exchId <= m.order
  <2>1. k > k - 1
    BY <1>4
  <2>. QED  BY <1>5, <2>1
<1>. HIDE DEF m, d
<1>8. /\ d.exchId \in 0 .. 3 /\ c.exchId <= d.exchId
      /\ d.exchId \in created \cup {0}
      /\ "ornw" \in d.recv => d.exchId \in created
  <2>1. CASE m.type = "orcr" /\ ~d.raised
    BY <1>2, <1>3, <1>4, <1>7, <2>1
  <2>2. CASE ~(m.type = "orcr" /\ ~d.raised)
    BY <1>3, <1>4, <1>5, <2>2
  <2>. QED  BY <2>1, <2>2
<1>9. ASSUME NEW i \in d.timely, Exists(i)
      PROVE  "ornw" \in d.recv /\ requests[i].order <= d.exchId
  <2>1. i \in c.timely /\ requests[i].order \in 0 .. 3
    BY <1>3, <1>4
  <2>2. "ornw" \in c.recv /\ requests[i].order <= c.exchId
    BY <1>5, <1>9, <2>1
  <2>. QED  BY <1>3, <1>4, <1>8, <2>1, <2>2
<1>10. ASSUME NEW i \in 1 .. Len(channel), i > k, channel[i].type = "orcr"
       PROVE  d.exchId <= channel[i].order
  <2>1. CASE m.type = "orcr" /\ ~d.raised
    BY <1>3, <1>6, <1>10, <2>1 DEF m
  <2>2. CASE ~(m.type = "orcr" /\ ~d.raised)
    <3>1. i > k - 1
      BY <1>4, <1>10
    <3>. QED  BY <1>3, <1>5, <1>10, <2>2, <3>1
  <2>. QED  BY <2>1, <2>2
<1>11. Informed(d, k)
  BY <1>3, <1>5, <1>8, <1>9, <1>10 DEF Informed
<1>12. Flags(d) /\ Clean(d)
  BY <1>1, <1>3 DEF Flags, Clean
<1>13. Good(d, k)
  BY <1>1, <1>3, <1>11, <1>12 DEF Good
<1>. QED  BY <1>13 DEF d, m

(* Any message of the channel.                                             *)
LEMMA NextGood ==
  ASSUME Machine, Chained, Exchange, NEW k \in 1 .. Len(channel),
         NEW c, Good(c, k - 1)
  PROVE  Good(HearNext(c, channel[k]), k)
<1>. DEFINE m == channel[k]
<1>1. c \in Acc /\ c.over \in BOOLEAN /\ c.raised \in BOOLEAN
  BY AccFacts DEF Good
<1>2. k \in Nat /\ k - 1 \in Nat /\ k - 1 <= k
  OBVIOUS
<1>3. appl_init \in BOOLEAN
  BY DEF Machine
<1>4. "err" \in FlagSet
  BY DEF FlagSet
<1>. HIDE DEF m
<1>5. CASE c.over
  <2>1. HearNext(c, m) = c
    BY <1>5 DEF HearNext
  <2>2. c.recv = c.recv \/ c.recv = c.recv \cup {"err"}
    OBVIOUS
  <2>3. c.raised => c.over
    BY DEF Good
  <2>4. Good(c, k)
    BY <1>1, <1>2, <2>2, <2>3, GoodKept
  <2>. QED  BY <2>1, <2>4 DEF m
<1>6. CASE ~c.over /\ m.type = "fragment"
  <2>. DEFINE d == [c EXCEPT !.errors = TRUE, !.over = TRUE]
  <2>1. HearNext(c, m) = d
    BY <1>6 DEF HearNext
  <2>2. /\ d \in Acc /\ d.timely = c.timely /\ d.exchId = c.exchId
        /\ d.recv = c.recv /\ d.errors /\ d.over /\ d.raised = c.raised
    BY <1>1 DEF Acc
  <2>. HIDE DEF d
  <2>3. Good(d, k)
    BY <1>2, <2>2, GoodKept
  <2>. QED  BY <2>1, <2>3 DEF m
<1>7. ASSUME ~c.over
      PROVE  /\ Good(ParseMessage(c, m), k)
             /\ ParseMessage(c, m) \in Acc
  BY <1>7, ParseGood DEF Good, m
<1>8. CASE ~c.over /\ m.type # "fragment" /\ appl_init
  <2>. DEFINE p == ParseMessage(c, m)
              d == [p EXCEPT !.errors = TRUE, !.over = TRUE]
  <2>1. HearNext(c, m) = d
    BY <1>8 DEF HearNext
  <2>. HIDE DEF p
  <2>2. p \in Acc /\ Good(p, k)
    BY <1>7, <1>8 DEF p
  <2>3. /\ d \in Acc /\ d.timely = p.timely /\ d.exchId = p.exchId
        /\ d.recv = p.recv /\ d.errors /\ d.over /\ d.raised = p.raised
    BY <2>2 DEF Acc
  <2>. HIDE DEF d
  <2>4. Good(d, k)
    BY <1>2, <2>2, <2>3, GoodKept
  <2>. QED  BY <2>1, <2>4 DEF m
<1>9. CASE ~c.over /\ m.type = "err" /\ ~appl_init
  <2>. DEFINE p == ParseMessage(c, m)
              d == [p EXCEPT !.recv = @ \cup {"err"}, !.over = TRUE]
  <2>1. HearNext(c, m) = d
    BY <1>9 DEF HearNext
  <2>. HIDE DEF p
  <2>2. p \in Acc /\ Good(p, k)
    BY <1>7, <1>9 DEF p
  <2>3. /\ d \in Acc /\ d.timely = p.timely /\ d.exchId = p.exchId
        /\ d.recv = p.recv \cup {"err"} /\ d.errors = p.errors
        /\ d.over /\ d.raised = p.raised
    BY <1>4, <2>2 DEF Acc
  <2>. HIDE DEF d
  <2>4. Good(d, k)
    BY <1>2, <2>2, <2>3, GoodKept
  <2>. QED  BY <2>1, <2>4 DEF m
<1>10. CASE ~c.over /\ m.type # "fragment" /\ ~appl_init /\ m.type # "err"
  <2>1. HearNext(c, m) = Hear(c, m)
    BY <1>10 DEF HearNext
  <2>2. Good(Hear(c, m), k)
    BY <1>10, HearGood DEF m
  <2>. QED  BY <2>1, <2>2 DEF m
<1>. QED  BY <1>3, <1>5, <1>6, <1>8, <1>9, <1>10

(* The part of a message that is not all there.                            *)
Fragment == [type |-> "fragment", to |-> 0, order |-> 0, form |-> "whole"]

(* A message that was cut off ends the loop with an error.                 *)
LEMMA FragmentGood ==
  ASSUME NEW k \in Nat, NEW c, Good(c, k)
  PROVE  Good(HearNext(c, Fragment), k)
<1>1. c \in Acc /\ c.over \in BOOLEAN /\ c.raised \in BOOLEAN
  BY AccFacts DEF Good
<1>2. Fragment.type = "fragment"
  BY DEF Fragment
<1>3. CASE c.over
  <2>1. HearNext(c, Fragment) = c
    BY <1>3 DEF HearNext
  <2>. QED  BY <2>1
<1>4. CASE ~c.over
  <2>. DEFINE d == [c EXCEPT !.errors = TRUE, !.over = TRUE]
  <2>1. HearNext(c, Fragment) = d
    BY <1>2, <1>4 DEF HearNext
  <2>2. /\ d \in Acc /\ d.timely = c.timely /\ d.exchId = c.exchId
        /\ d.recv = c.recv /\ d.errors /\ d.over /\ d.raised = c.raised
    BY <1>1 DEF Acc
  <2>. HIDE DEF d
  <2>3. Good(d, k)
    BY <2>2, GoodKept
  <2>. QED  BY <2>1, <2>3
<1>. QED  BY <1>1, <1>3, <1>4

(* What has arrived, when n messages and perhaps a part have arrived.      *)
Arrived(n, cut) == SubSeq(channel, 1, n) \o (IF cut THEN <<Fragment>> ELSE <<>>)

(* What is still to come.                                                  *)
Left(n, cut) ==
  LET rest == SubSeq(channel, n + 1, Len(channel))
  IN  IF cut THEN <<Fragment>> \o Tail(rest) ELSE rest

(* What the loop walks through.                                            *)
LEMMA ArrivedFacts ==
  ASSUME channel \in Seq(Message), NEW n \in 0 .. Len(channel), NEW cut \in BOOLEAN
  PROVE  /\ DOMAIN Arrived(n, cut) = 1 .. (IF cut THEN n + 1 ELSE n)
         /\ \A k \in 1 .. n : Arrived(n, cut)[k] = channel[k]
         /\ cut => Arrived(n, cut)[n + 1] = Fragment
<1>. DEFINE s == SubSeq(channel, 1, n)
            t == IF cut THEN <<Fragment>> ELSE <<>>
<1>1. n \in Nat /\ Len(channel) \in Nat /\ 1 \in Nat
  BY ONLY channel \in Seq(Message), n \in 0 .. Len(channel)
<1>2. Fragment \in Message
  BY DEF Fragment, Message, MessageType, Form
<1>3. /\ s \in Seq(Message) /\ Len(s) = n
      /\ \A k \in 1 .. n : s[k] = channel[k]
  BY <1>1, n \in 0 .. Len(channel), channel \in Seq(Message)
<1>4. /\ t \in Seq(Message) /\ Len(t) = IF cut THEN 1 ELSE 0
      /\ cut => t[1] = Fragment
  BY <1>2
<1>. HIDE DEF s, t
<1>5. /\ Len(s \o t) = Len(s) + Len(t) /\ s \o t \in Seq(Message)
      /\ \A i \in 1 .. Len(s) + Len(t) :
           (s \o t)[i] = IF i <= Len(s) THEN s[i] ELSE t[i - Len(s)]
  BY ONLY <1>3, <1>4, ConcatProperties
<1>6. DOMAIN (s \o t) = 1 .. (IF cut THEN n + 1 ELSE n)
  <2>1. DOMAIN (s \o t) = 1 .. Len(s \o t)
    BY ONLY <1>5
  <2>. QED  BY <1>1, <1>3, <1>4, <1>5, <2>1
<1>7. \A k \in 1 .. n : (s \o t)[k] = channel[k]
  BY <1>1, <1>3, <1>4, <1>5
<1>8. cut => (s \o t)[n + 1] = Fragment
  BY <1>1, <1>3, <1>4, <1>5
<1>9. Arrived(n, cut) = s \o t
  BY DEF Arrived, s, t
<1>. QED  BY <1>6, <1>7, <1>8, <1>9

(* What stays in the channel.                                              *)
LEMMA LeftFacts ==
  ASSUME channel \in Seq(Message), NEW n \in 0 .. Len(channel), NEW cut \in BOOLEAN,
         cut => n < Len(channel)
  PROVE  /\ Left(n, cut) \in Seq(Message)
         /\ Len(Left(n, cut)) = Len(channel) - n
         /\ \A k \in 1 .. Len(Left(n, cut)) :
              Left(n, cut)[k] = channel[n + k] \/ Left(n, cut)[k] = Fragment
<1>. DEFINE r == SubSeq(channel, n + 1, Len(channel))
<1>1. n \in Nat /\ Len(channel) \in Nat
  BY ONLY channel \in Seq(Message), n \in 0 .. Len(channel)
<1>2. Fragment \in Message
  BY DEF Fragment, Message, MessageType, Form
<1>3. /\ r \in Seq(Message) /\ Len(r) = Len(channel) - n
      /\ \A k \in 1 .. Len(r) : r[k] = channel[n + k]
  <2>1. CASE n < Len(channel)
    BY <1>1, <2>1, channel \in Seq(Message)
  <2>2. CASE n = Len(channel)
    BY <1>1, <2>2, channel \in Seq(Message)
  <2>. QED  BY <1>1, <2>1, <2>2
<1>. HIDE DEF r
<1>4. CASE ~cut
  <2>1. Left(n, cut) = r
    BY <1>4 DEF Left, r
  <2>. QED  BY <1>3, <2>1
<1>5. CASE cut
  <2>. DEFINE u == <<Fragment>>
              v == Tail(r)
  <2>1. Left(n, cut) = u \o v
    BY <1>5 DEF Left, r
  <2>2. r # <<>>
    BY <1>1, <1>3, <1>5
  <2>3. /\ v \in Seq(Message) /\ Len(v) = Len(r) - 1
        /\ \A k \in 1 .. Len(v) : v[k] = r[k + 1]
    BY ONLY <1>3, <2>2
  <2>4. u \in Seq(Message) /\ Len(u) = 1 /\ u[1] = Fragment
    BY ONLY <1>2
  <2>. HIDE DEF u, v
  <2>5. /\ Len(u \o v) = Len(u) + Len(v) /\ u \o v \in Seq(Message)
        /\ \A i \in 1 .. Len(u) + Len(v) :
             (u \o v)[i] = IF i <= Len(u) THEN u[i] ELSE v[i - Len(u)]
    <3>1. u \in Seq(Message) /\ v \in Seq(Message)
      BY <2>3, <2>4
    <3>. QED  BY ONLY <3>1, ConcatProperties
  <2>6. Len(u \o v) = Len(channel) - n
    BY <1>1, <1>3, <2>3, <2>4, <2>5
  <2>7. ASSUME NEW k \in 1 .. Len(u \o v)
        PROVE  (u \o v)[k] = channel[n + k] \/ (u \o v)[k] = Fragment
    <3>1. CASE k = 1
      BY <1>1, <2>4, <2>5, <2>6, <3>1
    <3>2. CASE k > 1
      <4>1. /\ k - 1 \in 1 .. Len(v) /\ k \in 1 .. Len(r) /\ (k - 1) + 1 = k
            /\ ~(k <= 1) /\ Len(r) \in Nat
        BY <1>1, <1>3, <2>3, <2>4, <2>5, <3>2
      <4>2. (u \o v)[k] = v[k - 1]
        BY <2>4, <2>5, <4>1
      <4>3. v[k - 1] = r[k]
        BY <2>3, <4>1
      <4>. QED  BY <1>3, <4>1, <4>2, <4>3
    <3>. QED  BY <1>1, <2>6, <3>1, <3>2
  <2>. QED  BY <2>1, <2>5, <2>6, <2>7
<1>. QED  BY <1>4, <1>5

(* After the loop.                                                         *)
LEMMA LoopGood ==
  ASSUME Machine, Chained, Exchange, Good(Heard, 0),
         NEW n \in 0 .. Len(channel), NEW cut \in BOOLEAN
  PROVE  Good(FoldLeft(HearNext, Heard, Arrived(n, cut)), n)
<1>. DEFINE ms == Arrived(n, cut)
            l == IF cut THEN n + 1 ELSE n
            end == FoldLeft(HearNext, Heard, ms)
<1>1. channel \in Seq(Message)
  BY DEF Exchange
<1>2. n \in Nat /\ Len(channel) \in Nat /\ l \in Nat /\ n <= Len(channel)
  <2>1. n \in Nat /\ Len(channel) \in Nat /\ n <= Len(channel)
    BY ONLY <1>1, n \in 0 .. Len(channel)
  <2>. QED  BY <2>1
<1>3. /\ DOMAIN ms = 1 .. l
      /\ \A k \in 1 .. n : ms[k] = channel[k]
      /\ cut => ms[n + 1] = Fragment
  BY <1>1, ArrivedFacts
<1>. HIDE DEF ms, l
<1>4. PICK h : Follows(h, Heard, ms, l)
  BY <1>2, <1>3, FoldFacts
<1>5. /\ h[0] = Heard
      /\ \A k \in 1 .. l : h[k] = HearNext(h[k - 1], ms[k])
      /\ end = h[l]
  BY <1>4 DEF Follows
<1>. HIDE DEF end
<1>. USE DEF l
<1>6. Good(h[n], n)
  <2>. DEFINE S == {k \in Nat : k <= n => Good(h[k], k)}
  <2>1. 0 \in S
    BY <1>5
  <2>2. ASSUME NEW k \in S PROVE k + 1 \in S
    <3>. SUFFICES ASSUME k + 1 <= n PROVE Good(h[k + 1], k + 1)
      OBVIOUS
    <3>1. /\ k \in Nat /\ k <= n /\ k + 1 \in 1 .. l /\ k + 1 \in 1 .. n
          /\ (k + 1) - 1 = k /\ k + 1 \in 1 .. Len(channel)
      BY <1>2
    <3>2. Good(h[k], k)
      BY <3>1
    <3>3. h[k + 1] = HearNext(h[k], channel[k + 1])
      BY <1>3, <1>5, <3>1
    <3>4. Good(HearNext(h[k], channel[k + 1]), k + 1)
      BY <3>1, <3>2, NextGood
    <3>. QED  BY <3>3, <3>4
  <2>. HIDE DEF S
  <2>3. S \in SUBSET Nat
    BY DEF S
  <2>4. S = Nat
    BY <2>1, <2>2, <2>3, Induction
  <2>5. n \in S
    BY <1>2, <2>4
  <2>. QED  BY <1>2, <2>5 DEF S
<1>7. CASE cut
  <2>1. n + 1 \in 1 .. l /\ (n + 1) - 1 = n /\ l = n + 1
    BY <1>2, <1>7
  <2>2. end = HearNext(h[n], Fragment)
    BY <1>3, <1>5, <1>7, <2>1
  <2>. QED  BY <1>2, <1>6, <2>2, FragmentGood DEF end, ms
<1>8. CASE ~cut
  BY <1>5, <1>6, <1>8 DEF end, ms
<1>. QED  BY <1>7, <1>8

----------------------------------------------------------------------------
(* The steps of the exchange and of data_received.                         *)

(* Steps that send nothing keep the chain.                                 *)
LEMMA ChainKept ==
  ASSUME Machine, Chained, UNCHANGED <<flagVars, requests>>
  PROVE  Machine' /\ Chained'
<1>1. UNCHANGED <<appl_init, sent, all_sent, ornw_counter, order_id, requests>>
  BY DEF flagVars
<1>2. Machine'
  BY <1>1 DEF Machine, Stage
<1>3. Chained'
  BY <1>1 DEF Chained, Is
<1>. QED  BY <1>2, <1>3

(* What holds while the connection does.                                   *)
LEMMA Running ==
  ASSUME OInv, status = "running"
  PROVE  /\ Machine /\ Chained /\ HeardTypes /\ Exchange /\ CancelsCreated
         /\ Informed(Heard, 0) /\ Flags(Heard) /\ Clean(Heard) /\ ToldAreCancelled
         /\ Good(Heard, 0)
<1>1. /\ Machine /\ Chained /\ HeardTypes /\ Exchange /\ CancelsCreated
      /\ Informed(Heard, 0) /\ Flags(Heard) /\ Clean(Heard) /\ ToldAreCancelled
  BY DEF OInv
<1>2. /\ Heard \in Acc /\ Heard.timely = timely /\ ~Heard.raised
  BY <1>1 DEF Heard, Acc, HeardTypes
<1>. QED  BY <1>1, <1>2 DEF Good

(* A call of data_received keeps the invariant.                            *)
LEMMA DataStep ==
  ASSUME OInv, NEW n \in 0 .. Len(channel), NEW cut \in BOOLEAN,
         DataReceived(n, cut)
  PROVE  OInv'
<1>. DEFINE after == FoldLeft(HearNext, Heard, Arrived(n, cut))
<1>1. /\ status = "running"
      /\ IF cut THEN SubSeq(channel, n + 1, Len(channel)) # <<>> ELSE n > 0
      /\ channel' = Left(n, cut)
      /\ recv' = after.recv /\ exchId' = after.exchId /\ errors' = after.errors
      /\ warnings' = after.warnings /\ timely' = after.timely
      /\ status' = IF after.raised THEN "lost" ELSE "running"
      /\ UNCHANGED <<flagVars, requests, answered, created>>
  BY DEF DataReceived, Arrived, Left, Heard, Fragment
<1>2. UNCHANGED <<appl_init, sent, all_sent, ornw_counter, order_id,
                  requests, answered, created>>
  BY <1>1 DEF flagVars
<1>3. /\ Machine /\ Chained /\ HeardTypes /\ Exchange /\ CancelsCreated
      /\ Informed(Heard, 0) /\ Flags(Heard) /\ Clean(Heard) /\ ToldAreCancelled
      /\ Good(Heard, 0)
  BY <1>1, Running
<1>4. Good(after, n)
  BY <1>3, LoopGood
<1>. HIDE DEF after
<1>5. /\ after \in Acc /\ after.timely \subseteq timely \cup {Len(requests)}
  BY <1>4 DEF Good
<1>6. Machine' /\ Chained'
  BY <1>1, <1>3, ChainKept
<1>7. HeardTypes'
  <2>1. /\ after.recv \subseteq FlagSet /\ after.exchId \in 0 .. 3
        /\ after.errors \in BOOLEAN /\ after.warnings \in BOOLEAN
        /\ after.timely \subseteq 1 .. Len(requests)
    BY <1>5, AccFacts
  <2>. QED  BY <1>1, <1>2, <2>1 DEF HeardTypes
<1>8. /\ channel \in Seq(Message) /\ Len(channel) \in Nat /\ n \in Nat
      /\ n <= Len(channel)
      /\ \A i \in 1 .. Len(channel) : Fits(channel[i])
      /\ \A i, j \in 1 .. Len(channel) :
           i < j /\ channel[i].type = "orcr" /\ channel[j].type = "orcr" =>
             channel[i].order <= channel[j].order
  <2>1. channel \in Seq(Message)
    BY <1>3 DEF Exchange
  <2>2. Len(channel) \in Nat
    BY ONLY <2>1
  <2>. QED  BY <1>3, <2>1, <2>2 DEF Exchange
<1>9. cut => n < Len(channel)
  <2>. SUFFICES ASSUME cut, ~(n < Len(channel)) PROVE FALSE
    OBVIOUS
  <2>1. n = Len(channel)
    BY <1>8
  <2>2. SubSeq(channel, n + 1, Len(channel)) = <<>>
    BY <1>8, <2>1
  <2>. QED  BY <1>1, <2>2
<1>10. /\ channel' \in Seq(Message)
       /\ Len(channel') = Len(channel) - n
       /\ \A k \in 1 .. Len(channel') :
            channel'[k] = channel[n + k] \/ channel'[k] = Fragment
  BY <1>1, <1>8, <1>9, LeftFacts
<1>11. \A k \in 1 .. Len(channel') : n + k \in 1 .. Len(channel)
  BY <1>8, <1>10
<1>12. Fragment.type = "fragment" /\ Fragment.to = 0
  BY DEF Fragment
<1>13. Exchange'
  <2>1. answered' \in 0 .. Len(requests')
    BY <1>2, <1>3 DEF Exchange
  <2>2. \A o \in created' : \E i \in 1 .. answered' :
          Is(i, "ornw")' /\ requests'[i].order = o
    BY <1>2, <1>3 DEF Exchange, Is
  <2>3. ASSUME NEW k \in 1 .. Len(channel') PROVE Fits(channel[k])'
    <3>1. CASE channel'[k] = Fragment
      <4>1. answered \in Nat
        BY <1>3, Places DEF Exchange
      <4>. QED  BY <1>2, <1>12, <3>1, <4>1 DEF Fits
    <3>2. CASE channel'[k] = channel[n + k]
      <4>1. Fits(channel[n + k])
        BY <1>8, <1>11
      <4>. QED  BY <1>2, <3>2, <4>1 DEF Fits
    <3>. QED  BY <1>10, <3>1, <3>2
  <2>4. ASSUME NEW i \in 1 .. Len(channel'), NEW j \in 1 .. Len(channel'),
               i < j, channel'[i].type = "orcr", channel'[j].type = "orcr"
        PROVE  channel'[i].order <= channel'[j].order
    <3>1. channel'[i] = channel[n + i] /\ channel'[j] = channel[n + j]
      BY <1>10, <1>12, <2>4
    <3>2. n + i < n + j /\ n + i \in 1 .. Len(channel) /\ n + j \in 1 .. Len(channel)
      BY <1>8, <1>11, <2>4
    <3>. QED  BY <1>8, <2>4, <3>1, <3>2
  <2>. QED  BY <1>10, <2>1, <2>2, <2>3, <2>4 DEF Exchange
<1>14. CancelsCreated'
  BY <1>2, <1>3 DEF CancelsCreated, Is
<1>15. ASSUME status' # "lost"
       PROVE  Informed(Heard, 0)' /\ Flags(Heard)' /\ Clean(Heard)' /\ ToldAreCancelled'
  <2>1. ~after.raised
    BY <1>1, <1>15
  <2>2. Informed(after, n) /\ Flags(after) /\ Clean(after)
    BY <1>4, <2>1 DEF Good
  <2>3. /\ Heard'.recv = after.recv /\ Heard'.exchId = after.exchId
        /\ Heard'.errors = after.errors /\ Heard'.timely = after.timely
    BY <1>1 DEF Heard
  <2>4. Informed(Heard, 0)'
    <3>1. /\ Heard'.exchId \in created' \cup {0}
          /\ "ornw" \in Heard'.recv => Heard'.exchId \in created'
          /\ \A i \in Heard'.timely : Is(i, "ornw")' => i <= answered'
          /\ \A i \in Heard'.timely : Exists(i)' =>
               "ornw" \in Heard'.recv /\ requests'[i].order <= Heard'.exchId
      BY <1>2, <2>2, <2>3 DEF Informed, Is, Exists
    <3>2. ASSUME NEW i \in 1 .. Len(channel'), channel'[i].type = "orcr"
          PROVE  Heard'.exchId <= channel'[i].order
      <4>1. channel'[i] = channel[n + i]
        BY <1>10, <1>12, <3>2
      <4>2. n + i \in 1 .. Len(channel) /\ n + i > n
        BY <1>8, <1>11
      <4>. QED  BY <2>2, <2>3, <3>2, <4>1, <4>2 DEF Informed
    <3>. QED  BY <3>1, <3>2 DEF Informed
  <2>5. Flags(Heard)'
    BY <1>2, <2>2, <2>3 DEF Flags
  <2>6. Clean(Heard)'
    BY <1>2, <2>2, <2>3 DEF Clean, Is
  <2>7. ToldAreCancelled'
    <3>. SUFFICES ASSUME NEW i \in 1 .. Len(requests), Told(i)', Decided(i)'
                  PROVE  Cancelled(i)'
      BY <1>2 DEF ToldAreCancelled
    <3>1. Is(i, "ornw") /\ i \in after.timely /\ requests[i].order \in created
      BY <1>1, <1>2 DEF Told, Is
    <3>2. Decided(i)
      BY <1>2 DEF Decided
    <3>3. i \in timely
      <4>. SUFFICES ASSUME i = Len(requests) PROVE FALSE
        BY <1>5, <3>1
      <4>1. Len(requests) \in Nat /\ Len(requests) > 0
        BY <1>3, Places
      <4>2. requests[i].order = order_id
        BY <1>3, <3>1, <4>1 DEF Chained
      <4>3. ~appl_init
        BY <1>3, <4>1 DEF Machine
      <4>4. sent = {"ornw"}
        BY <1>3, <3>1, <4>3, LastRequest DEF Is
      <4>5. order_id \in Nat
        <5>1. Stage(requests[Len(requests)].kind, ornw_counter, order_id, Len(requests))
          BY <1>3, <4>3, LastRequest
        <5>. QED  BY ONLY <5>1 DEF Stage
      <4>6. sent # {"orcn"} /\ sent # {"blrq"}
        BY <4>4
      <4>. QED  BY ONLY <3>2, <4>2, <4>5, <4>6 DEF Decided
    <3>4. Cancelled(i)
      BY <1>3, <3>1, <3>2, <3>3 DEF ToldAreCancelled, Told
    <3>. QED  BY <1>2, <3>4 DEF Cancelled, Is
  <2>. QED  BY <2>4, <2>5, <2>6, <2>7
<1>16. status' \in {"lost", "running"}
  BY <1>1
<1>. QED  BY <1>6, <1>7, <1>13, <1>14, <1>15, <1>16 DEF OInv

(* The exchange says something more, perhaps in answer to one request more *)
(* and with one order more.                                                *)
LEMMA MoreSaid ==
  ASSUME OInv, status = "running",
         UNCHANGED <<flagVars, heardVars, status, requests, timely>>,
         answered' \in {answered, answered + 1}, answered' <= Len(requests),
         NEW news \in Seq(Message), channel' = channel \o news,
         \/ created' = created
         \/ /\ answered' = answered + 1
            /\ Is(answered', "ornw")
            /\ created' = created \cup {requests[answered'].order},
         \A j \in 1 .. Len(news) : Fits(news[j])',
         \A j \in 1 .. Len(news) :
           news[j].type = "orcr" =>
             /\ answered' = answered + 1
             /\ Is(answered', "ornw")
             /\ news[j].order = requests[answered'].order
  PROVE  OInv'
<1>1. /\ Machine /\ Chained /\ HeardTypes /\ Exchange /\ CancelsCreated
      /\ Informed(Heard, 0) /\ Flags(Heard) /\ Clean(Heard) /\ ToldAreCancelled
  BY Running
<1>2. UNCHANGED <<appl_init, sent, all_sent, order_id, recv, exchId, errors,
                  warnings, status, requests, timely>>
  BY DEF flagVars, heardVars
<1>3. Machine' /\ Chained'
  BY <1>1, ChainKept
<1>4. HeardTypes'
  BY <1>1, <1>2 DEF HeardTypes
<1>5. /\ answered \in 0 .. Len(requests) /\ channel \in Seq(Message)
      /\ \A o \in created : \E i \in 1 .. answered : Is(i, "ornw") /\ requests[i].order = o
      /\ \A i \in 1 .. Len(channel) : Fits(channel[i])
      /\ \A i, j \in 1 .. Len(channel) :
           i < j /\ channel[i].type = "orcr" /\ channel[j].type = "orcr" =>
             channel[i].order <= channel[j].order
  BY <1>1 DEF Exchange
<1>6. /\ Len(requests) \in Nat
      /\ \A i \in 1 .. Len(requests) : requests[i].order \in 0 .. 3
      /\ \A i \in 1 .. Len(requests) : requests[i].kind \in Kind
  BY <1>1, Places
<1>7. answered \in Nat /\ answered' \in Nat /\ answered <= answered'
  BY <1>5, <1>6
<1>8. \A i, j \in 1 .. Len(requests) :
        Is(i, "ornw") /\ Is(j, "ornw") /\ i < j =>
          requests[i].order < requests[j].order
  BY <1>1 DEF Chained
<1>9. created \subseteq created'
  OBVIOUS
<1>10. ASSUME NEW i \in 1 .. answered, Is(i, "ornw"), requests[i].order \in created'
       PROVE  requests[i].order \in created
  <2>. SUFFICES ASSUME answered' = answered + 1, Is(answered', "ornw"),
                       requests[i].order = requests[answered'].order
                PROVE  FALSE
    BY <1>10
  <2>1. i \in 1 .. Len(requests) /\ answered' \in 1 .. Len(requests) /\ i < answered'
    BY <1>6, <1>7
  <2>2. requests[i].order < requests[answered'].order
    BY <1>8, <1>10, <2>1
  <2>3. requests[i].order \in 0 .. 3
    BY <1>6, <2>1
  <2>. QED  BY <2>2, <2>3
<1>11. ASSUME NEW o \in created, answered' = answered + 1, Is(answered', "ornw")
       PROVE  o <= requests[answered'].order
  <2>1. PICK i \in 1 .. answered : Is(i, "ornw") /\ requests[i].order = o
    BY <1>5
  <2>2. i \in 1 .. Len(requests) /\ answered' \in 1 .. Len(requests) /\ i < answered'
    BY <1>6, <1>7, <1>11
  <2>3. requests[i].order < requests[answered'].order
    BY <1>8, <1>11, <2>1, <2>2
  <2>4. requests[i].order \in 0 .. 3 /\ requests[answered'].order \in 0 .. 3
    BY <1>6, <2>2
  <2>. QED  BY <2>1, <2>3, <2>4
<1>12. /\ channel' \in Seq(Message)
       /\ Len(channel') = Len(channel) + Len(news)
       /\ Len(channel) \in Nat /\ Len(news) \in Nat
       /\ \A i \in 1 .. Len(channel) + Len(news) :
            channel'[i] = IF i <= Len(channel) THEN channel[i] ELSE news[i - Len(channel)]
  <2>1. /\ Len(channel \o news) = Len(channel) + Len(news)
        /\ channel \o news \in Seq(Message)
        /\ \A i \in 1 .. Len(channel) + Len(news) :
             (channel \o news)[i] = IF i <= Len(channel) THEN channel[i]
                                    ELSE news[i - Len(channel)]
    BY ONLY <1>5, news \in Seq(Message), ConcatProperties
  <2>2. Len(channel) \in Nat /\ Len(news) \in Nat
    BY ONLY <1>5, news \in Seq(Message)
  <2>. QED  BY <2>1, <2>2
<1>13. ASSUME NEW k \in 1 .. Len(channel')
       PROVE  \/ k \in 1 .. Len(channel) /\ channel'[k] = channel[k]
              \/ k > Len(channel) /\ \E j \in 1 .. Len(news) : channel'[k] = news[j]
  <2>1. CASE k <= Len(channel)
    BY <1>12, <2>1
  <2>2. CASE k > Len(channel)
    <3>. DEFINE c == Len(channel)
                l == Len(news)
    <3>0. c \in Nat /\ l \in Nat /\ k \in 1 .. c + l /\ k > c
      BY <1>12, <2>2
    <3>. HIDE DEF c, l
    <3>1. k - c \in 1 .. l /\ ~(k <= c)
      BY ONLY <3>0
    <3>2. channel'[k] = news[k - c]
      BY <1>12, <3>0, <3>1 DEF c, l
    <3>3. \E j \in 1 .. l : channel'[k] = news[j]
      BY ONLY <3>1, <3>2
    <3>. QED  BY <2>2, <3>3 DEF l
  <2>3. k <= Len(channel) \/ k > Len(channel)
    <3>1. k \in Nat /\ Len(channel) \in Nat
      BY <1>12
    <3>. QED  BY ONLY <3>1
  <2>. QED  BY ONLY <2>1, <2>2, <2>3
<1>14. ASSUME NEW k \in 1 .. Len(channel)
       PROVE  Fits(channel[k])' \/ channel'[k] # channel[k]
  <2>1. Fits(channel[k])
    BY <1>5
  <2>2. channel[k].type = "orrj" => channel[k].order \notin created'
    <3>. SUFFICES ASSUME channel[k].type = "orrj", channel[k].order \in created'
                  PROVE  FALSE
      OBVIOUS
    <3>1. channel[k].to > 0 /\ channel[k].to \in 1 .. answered
      BY <1>7, <2>1 DEF Fits
    <3>2. /\ channel[k].type \in Says(requests[channel[k].to].kind)
          /\ channel[k].order = requests[channel[k].to].order
          /\ channel[k].order \notin created
      BY <2>1, <3>1 DEF Fits
    <3>3. requests[channel[k].to].kind \in Kind
      BY <1>5, <1>6, <1>7, <3>1
    <3>4. Is(channel[k].to, "ornw")
      BY <3>2, <3>3, SaysFacts DEF Is
    <3>. QED  BY <1>10, <3>1, <3>2, <3>4
  <2>3. channel[k].to \in 0 .. answered'
    BY <1>7, <2>1 DEF Fits
  <2>. QED  BY <1>2, <1>9, <2>1, <2>2, <2>3 DEF Fits
<1>15. \A k \in 1 .. Len(channel') : Fits(channel[k])'
  BY <1>13, <1>14 DEF Fits
<1>16. ASSUME NEW k \in 1 .. Len(channel'), channel'[k].type = "orcr", k > Len(channel)
       PROVE  /\ answered' = answered + 1 /\ Is(answered', "ornw")
              /\ channel'[k].order = requests[answered'].order
  <2>1. PICK j \in 1 .. Len(news) : channel'[k] = news[j]
    BY <1>12, <1>13, <1>16
  <2>. QED  BY <1>16, <2>1
<1>17. ASSUME NEW i \in 1 .. Len(channel'), NEW j \in 1 .. Len(channel'),
              i < j, channel'[i].type = "orcr", channel'[j].type = "orcr"
       PROVE  channel'[i].order <= channel'[j].order
  <2>1. CASE j <= Len(channel)
    <3>1. /\ i \in 1 .. Len(channel) /\ j \in 1 .. Len(channel)
          /\ channel'[i] = channel[i] /\ channel'[j] = channel[j]
      BY <1>12, <1>17, <2>1
    <3>. QED  BY <1>5, <1>17, <3>1
  <2>2. CASE j > Len(channel)
    <3>1. /\ answered' = answered + 1 /\ Is(answered', "ornw")
          /\ channel'[j].order = requests[answered'].order
      BY <1>16, <1>17, <2>2
    <3>2. requests[answered'].order \in 0 .. 3
      BY <1>6, <1>7, <3>1
    <3>3. CASE i <= Len(channel)
      <4>1. i \in 1 .. Len(channel) /\ channel'[i] = channel[i]
        BY <1>12, <1>17, <3>3
      <4>2. channel[i].order \in created
        BY <1>5, <1>17, <4>1 DEF Fits
      <4>3. channel[i].order <= requests[answered'].order
        BY <1>11, <3>1, <4>2
      <4>. QED  BY <3>1, <4>1, <4>3
    <3>4. CASE i > Len(channel)
      <4>1. channel'[i].order = requests[answered'].order
        BY <1>16, <1>17, <3>4
      <4>. QED  BY ONLY <3>1, <3>2, <4>1
    <3>. QED  BY <1>12, <3>3, <3>4
  <2>. QED  BY <1>12, <2>1, <2>2
<1>18. \A o \in created' : \E i \in 1 .. answered' : Is(i, "ornw")' /\ requests'[i].order = o
  <2>. SUFFICES ASSUME NEW o \in created'
                PROVE  \E i \in 1 .. answered' : Is(i, "ornw") /\ requests[i].order = o
    BY <1>2 DEF Is
  <2>1. CASE o \in created
    <3>1. PICK i \in 1 .. answered : Is(i, "ornw") /\ requests[i].order = o
      BY <1>5, <2>1
    <3>2. i \in 1 .. answered'
      BY <1>7
    <3>. QED  BY <3>1, <3>2
  <2>2. CASE o \notin created
    <3>1. /\ answered' = answered + 1 /\ Is(answered', "ornw")
          /\ o = requests[answered'].order
      BY <2>2
    <3>2. answered' \in 1 .. answered'
      BY <1>7, <3>1
    <3>. QED  BY <3>1, <3>2
  <2>. QED  BY <2>1, <2>2
<1>19. Exchange'
  <2>1. answered' \in 0 .. Len(requests')
    BY <1>2, <1>6, <1>7
  <2>. QED  BY <1>12, <1>15, <1>17, <1>18, <2>1 DEF Exchange
<1>20. CancelsCreated'
  BY <1>1, <1>2, <1>9 DEF CancelsCreated, Is
<1>21. Heard' = Heard /\ Heard.timely = timely /\ Heard.exchId = exchId
  BY <1>2 DEF Heard
<1>22. /\ exchId \in created \cup {0}
       /\ "ornw" \in Heard.recv => exchId \in created
       /\ \A i \in timely : Is(i, "ornw") => i <= answered
       /\ \A i \in timely :
            Exists(i) => "ornw" \in Heard.recv /\ requests[i].order <= exchId
       /\ \A i \in 1 .. Len(channel) : channel[i].type = "orcr" => exchId <= channel[i].order
  BY <1>1, <1>21 DEF Informed
<1>23. timely \subseteq 1 .. Len(requests)
  BY <1>1 DEF HeardTypes
<1>24. ASSUME NEW i \in timely, Exists(i)' PROVE Exists(i)
  <2>1. Is(i, "ornw") /\ requests[i].order \in created'
    BY <1>2, <1>24 DEF Exists, Is
  <2>2. i \in 1 .. answered
    BY <1>7, <1>22, <1>23, <2>1
  <2>. QED  BY <1>10, <2>1, <2>2 DEF Exists
<1>25. Informed(Heard, 0)'
  <2>1. ASSUME NEW i \in 1 .. Len(channel'), channel'[i].type = "orcr"
        PROVE  exchId <= channel'[i].order
    <3>1. CASE i <= Len(channel)
      BY <1>12, <1>22, <2>1, <3>1
    <3>2. CASE i > Len(channel)
      <4>1. /\ answered' = answered + 1 /\ Is(answered', "ornw")
            /\ channel'[i].order = requests[answered'].order
        BY <1>16, <2>1, <3>2
      <4>2. requests[answered'].order \in 0 .. 3
        BY <1>6, <1>7, <4>1
      <4>. QED  BY <1>11, <1>22, <4>1, <4>2
    <3>. QED  BY <1>12, <3>1, <3>2
  <2>2. \A i \in timely : Is(i, "ornw")' => i <= answered'
    <3>. SUFFICES ASSUME NEW i \in timely, Is(i, "ornw") PROVE i <= answered'
      BY <1>2 DEF Is
    <3>1. i <= answered /\ i \in Nat
      BY <1>22, <1>23
    <3>. QED  BY <1>7, <3>1
  <2>3. \A i \in timely :
          Exists(i)' => "ornw" \in Heard.recv /\ requests[i].order <= exchId
    BY <1>22, <1>24
  <2>4. exchId \in created' \cup {0} /\ ("ornw" \in Heard.recv => exchId \in created')
    BY <1>9, <1>22
  <2>. QED  BY <1>2, <1>21, <2>1, <2>2, <2>3, <2>4 DEF Informed
<1>26. Flags(Heard)' /\ Clean(Heard)'
  BY <1>1, <1>2, <1>21 DEF Flags, Clean, Is
<1>27. ToldAreCancelled'
  <2>. SUFFICES ASSUME NEW i \in 1 .. Len(requests), Told(i)', Decided(i)'
                PROVE  Cancelled(i)'
    BY <1>2 DEF ToldAreCancelled
  <2>1. i \in timely /\ Exists(i)'
    BY <1>2 DEF Told, Exists, Is
  <2>2. Told(i)
    BY <1>24, <2>1 DEF Told, Exists
  <2>3. Decided(i)
    BY <1>2 DEF Decided
  <2>4. Cancelled(i)
    BY <1>1, <2>2, <2>3 DEF ToldAreCancelled
  <2>. QED  BY <1>2, <2>4 DEF Cancelled, Is
<1>28. status' = "running"
  BY <1>2
<1>. QED  BY <1>3, <1>4, <1>19, <1>20, <1>25, <1>26, <1>27, <1>28 DEF OInv

(* The answers as sequences of types that fit the request.                 *)
LEMMA AnswerFacts ==
  ASSUME NEW kind \in Kind, NEW i \in DOMAIN Answers(kind)
  PROVE  LET types == Answers(kind)[i]
         IN  /\ types \in Seq(MessageType) /\ Len(types) \in Nat
             /\ \A j \in 1 .. Len(types) : types[j] \in Says(kind)
             /\ "orcr" \in ToSet(types) => kind = "ornw" /\ types = <<"ack", "orcr">>
             /\ \A j \in 1 .. Len(types) : types[j] = "orcr" => "orcr" \in ToSet(types)
<1>. DEFINE types == Answers(kind)[i]
<1>1. \/ kind = "helo" /\ types \in {<<"exst">>, <<"err">>, << >>}
      \/ kind = "hrbt" /\ types = << >>
      \/ kind = "pdrq" /\ types \in {<<"pdrp">>, <<"err">>, << >>}
      \/ kind = "ornw" /\ types \in {<<"ack", "orcr">>, <<"orrj">>, <<"ack">>,
                                      <<"err">>, << >>}
      \/ kind = "oprq" /\ types \in {<<"oprp">>, <<"err">>, << >>}
      \/ kind = "orcn" /\ types \in {<<"ack", "orst", "ordn">>, <<"clrj">>,
                                      <<"err">>, << >>}
      \/ kind = "blrq" /\ types \in {<<"blrp">>, <<"err">>, << >>}
  <2>1. kind = "helo" => types \in {<<"exst">>, <<"err">>, << >>}
    BY DEF Answers
  <2>2. kind = "hrbt" => types = << >>
    BY DEF Answers
  <2>3. kind = "pdrq" => types \in {<<"pdrp">>, <<"err">>, << >>}
    BY DEF Answers
  <2>4. kind = "ornw" => types \in {<<"ack", "orcr">>, <<"orrj">>, <<"ack">>,
                                    <<"err">>, << >>}
    BY DEF Answers
  <2>5. kind = "oprq" => types \in {<<"oprp">>, <<"err">>, << >>}
    BY DEF Answers
  <2>6. kind = "orcn" => types \in {<<"ack", "orst", "ordn">>, <<"clrj">>,
                                    <<"err">>, << >>}
    BY DEF Answers
  <2>7. kind = "blrq" => types \in {<<"blrp">>, <<"err">>, << >>}
    BY DEF Answers
  <2>. HIDE DEF types
  <2>. QED  BY <2>1, <2>2, <2>3, <2>4, <2>5, <2>6, <2>7, Zenon DEF Kind
<1>. HIDE DEF types
<1>2. types \in Seq(MessageType) /\ Len(types) \in Nat
  <2>1. /\ <<"exst">> \in Seq(MessageType) /\ <<"err">> \in Seq(MessageType)
        /\ <<"pdrp">> \in Seq(MessageType) /\ <<"orrj">> \in Seq(MessageType)
        /\ <<"ack">> \in Seq(MessageType) /\ <<"oprp">> \in Seq(MessageType)
        /\ <<"clrj">> \in Seq(MessageType) /\ <<"blrp">> \in Seq(MessageType)
    BY DEF MessageType
  <2>2. << >> \in Seq(MessageType) /\ <<"ack", "orcr">> \in Seq(MessageType)
    BY DEF MessageType
  <2>3. <<"ack", "orst", "ordn">> \in Seq(MessageType)
    BY DEF MessageType
  <2>4. types \in Seq(MessageType)
    BY <1>1, <2>1, <2>2, <2>3, Zenon
  <2>. QED  BY ONLY <2>4
<1>3. \A j \in 1 .. Len(types) : types[j] \in Says(kind)
  BY <1>1 DEF Says
<1>4. \A j \in 1 .. Len(types) : types[j] = "orcr" => "orcr" \in ToSet(types)
  BY <1>2 DEF ToSet
<1>5. "orcr" \in ToSet(types) => kind = "ornw" /\ types = <<"ack", "orcr">>
  BY <1>1 DEF ToSet
<1>. QED  BY <1>2, <1>3, <1>4, <1>5 DEF types

(* An unasked exst sets the flag of helo only while helo is waited for.    *)
LEMMA StatusStep ==
  ASSUME OInv, StatusChanges
  PROVE  OInv'
<1>. DEFINE m == [type |-> "exst", to |-> 0, order |-> 0, form |-> "whole"]
            news == <<m>>
<1>1. /\ status = "running" /\ channel' = Append(channel, m)
      /\ UNCHANGED <<flagVars, heardVars, status, requests, answered, created, timely>>
  BY DEF StatusChanges
<1>2. m \in Message
  BY DEF Message, MessageType, Form
<1>3. /\ m.type = "exst" /\ m.to = 0
  OBVIOUS
<1>. HIDE DEF m
<1>4. news \in Seq(Message) /\ Len(news) = 1 /\ news[1] = m
  BY <1>2
<1>5. channel \in Seq(Message) /\ answered \in Nat /\ answered <= Len(requests)
  BY <1>1, Running, Places DEF Exchange
<1>6. channel' = channel \o news
  BY <1>1, <1>2, <1>5
<1>. HIDE DEF news
<1>7. \A j \in 1 .. Len(news) : news[j] = m
  BY <1>4
<1>8. \A j \in 1 .. Len(news) : Fits(news[j])' /\ news[j].type # "orcr"
  BY <1>1, <1>3, <1>5, <1>7 DEF Fits
<1>. QED  BY <1>1, <1>4, <1>5, <1>6, <1>8, MoreSaid

(* The exchange looks at the next request.                                 *)
LEMMA AnswerStep ==
  ASSUME OInv, ExchangeAnswers
  PROVE  OInv'
<1>. DEFINE a == answered'
            r == requests[a]
<1>1. /\ status = "running" /\ answered < Len(requests) /\ a = answered + 1
      /\ UNCHANGED <<flagVars, heardVars, status, requests, timely>>
  BY DEF ExchangeAnswers
<1>2. PICK i \in DOMAIN Answers(r.kind), form \in Form :
        LET types == Answers(r.kind)[i]
        IN /\ channel' = channel \o
                [j \in DOMAIN types |->
                   [type |-> types[j], to |-> answered', order |-> r.order,
                    form |-> IF j = Len(types) THEN form ELSE "whole"]]
           /\ created' = IF "orcr" \in ToSet(types)
                         THEN created \cup {r.order} ELSE created
  BY DEF ExchangeAnswers
<1>. DEFINE types == Answers(r.kind)[i]
<1>0. PICK news :
        news = [j \in DOMAIN types |->
                 [type |-> types[j], to |-> a, order |-> r.order,
                  form |-> IF j = Len(types) THEN form ELSE "whole"]]
  OBVIOUS
<1>3. /\ Machine /\ Chained /\ Exchange
  BY <1>1, Running
<1>4. /\ Len(requests) \in Nat /\ answered \in 0 .. Len(requests)
      /\ channel \in Seq(Message)
  BY <1>3, Places DEF Exchange
<1>5. a \in 1 .. Len(requests) /\ a \in Nat /\ a <= Len(requests)
  BY <1>1, <1>4
<1>6. r.kind \in Kind /\ r.order \in 0 .. 3
  BY <1>3, <1>5, Places
<1>7. /\ types \in Seq(MessageType) /\ Len(types) \in Nat
      /\ \A j \in 1 .. Len(types) : types[j] \in Says(r.kind)
      /\ "orcr" \in ToSet(types) => r.kind = "ornw" /\ types = <<"ack", "orcr">>
      /\ \A j \in 1 .. Len(types) : types[j] = "orcr" => "orcr" \in ToSet(types)
  BY <1>6, AnswerFacts
<1>8. channel' = channel \o news
  BY <1>0, <1>2
<1>9. created' = IF "orcr" \in ToSet(types) THEN created \cup {r.order} ELSE created
  BY <1>2
<1>. HIDE DEF types
<1>10. DOMAIN types = 1 .. Len(types) /\ \A j \in 1 .. Len(types) : types[j] \in MessageType
  BY <1>7
<1>11. /\ news \in Seq(Message) /\ Len(news) = Len(types)
       /\ \A j \in 1 .. Len(types) :
            news[j].type = types[j] /\ news[j].to = a /\ news[j].order = r.order
  <2>1. \A j \in 1 .. Len(types) : news[j] \in Message
    BY <1>0, <1>5, <1>6, <1>10 DEF Message, Form
  <2>2. news = [j \in 1 .. Len(types) |-> news[j]]
    BY <1>0, <1>10
  <2>3. \A j \in 1 .. Len(types) :
          news[j].type = types[j] /\ news[j].to = a /\ news[j].order = r.order
    BY <1>0, <1>10
  <2>4. news \in Seq(Message) /\ Len(news) = Len(types)
    BY ONLY <1>7, <2>1, <2>2
  <2>. QED  BY <2>3, <2>4
<1>12. "orcr" \in ToSet(types) => Is(a, "ornw")
  BY <1>7 DEF Is
<1>13. \/ created' = created
       \/ Is(a, "ornw") /\ created' = created \cup {r.order}
  BY <1>9, <1>12
<1>14. ASSUME NEW j \in 1 .. Len(news)
       PROVE  /\ news[j].type = types[j] /\ news[j].to = a
              /\ news[j].order = r.order /\ types[j] \in Says(r.kind)
              /\ types[j] = "orcr" => "orcr" \in ToSet(types)
  BY <1>7, <1>11
<1>15. ASSUME NEW j \in 1 .. Len(news), news[j].type = "orcr"
       PROVE  Is(a, "ornw") /\ news[j].order = r.order /\ news[j].order \in created'
  BY <1>9, <1>12, <1>14, <1>15
<1>16. ASSUME NEW j \in 1 .. Len(news), news[j].type = "orrj"
       PROVE  news[j].order \notin created'
  <2>1. types[j] = "orrj" /\ j \in 1 .. Len(types)
    BY <1>11, <1>14, <1>16
  <2>2. "orcr" \notin ToSet(types)
    <3>. SUFFICES ASSUME types = <<"ack", "orcr">> PROVE FALSE
      BY <1>7
    <3>. QED  BY <2>1
  <2>3. Is(a, "ornw")
    BY <1>6, <1>14, <2>1, SaysFacts DEF Is
  <2>4. r.order \notin created
    <3>. SUFFICES ASSUME NEW k \in 1 .. answered, Is(k, "ornw"),
                         requests[k].order = r.order
                  PROVE  FALSE
      BY <1>3 DEF Exchange
    <3>1. k \in 1 .. Len(requests) /\ k < a
      BY <1>1, <1>4
    <3>2. requests[k].order < r.order
      BY <1>3, <1>5, <2>3, <3>1 DEF Chained
    <3>. QED  BY <1>6, <3>2
  <2>. QED  BY <1>9, <1>14, <2>2, <2>4
<1>17. \A j \in 1 .. Len(news) : Fits(news[j])'
  <2>. SUFFICES ASSUME NEW j \in 1 .. Len(news) PROVE Fits(news[j])'
    OBVIOUS
  <2>1. requests' = requests
    BY <1>1
  <2>2. /\ news[j].to = a /\ a > 0 /\ a \in 0 .. a
        /\ news[j].type \in Says(r.kind) /\ news[j].order = r.order
    BY <1>5, <1>14
  <2>3. requests'[news[j].to] = r
    BY <2>1, <2>2
  <2>4. news[j].type = "orcr" => news[j].order \in created'
    BY <1>15
  <2>5. news[j].type = "orrj" => news[j].order \notin created'
    BY <1>16
  <2>. HIDE DEF r, a
  <2>6. news[j].to \in 0 .. answered'
    BY <2>2 DEF a
  <2>7. news[j].to # 0
    BY <1>5, <2>2
  <2>8. /\ news[j].type \in Says(requests'[news[j].to].kind)
        /\ news[j].order = requests'[news[j].to].order
    BY <2>2, <2>3
  <2>. QED  BY <2>4, <2>5, <2>6, <2>7, <2>8 DEF Fits, Says
<1>18. answered' \in {answered, answered + 1} /\ answered' <= Len(requests)
  BY <1>1, <1>5
<1>19. \/ created' = created
       \/ /\ answered' = answered + 1
          /\ Is(answered', "ornw")
          /\ created' = created \cup {requests[answered'].order}
  BY <1>1, <1>13
<1>20. \A j \in 1 .. Len(news) :
         news[j].type = "orcr" =>
           /\ answered' = answered + 1
           /\ Is(answered', "ornw")
           /\ news[j].order = requests[answered'].order
  BY <1>1, <1>15
<1>. QED
  BY <1>1, <1>8, <1>11, <1>17, <1>18, <1>19, <1>20, MoreSaid

(* What is known stays as it is when the connection breaks.                *)
LEMMA CloseStep ==
  ASSUME OInv, ExchangeCloses \/ UNCHANGED vars
  PROVE  OInv'
<1>1. UNCHANGED <<flagVars, heardVars, requests, exchangeVars, timely>>
  BY DEF ExchangeCloses, vars
<1>2. status' = "lost" \/ status' = status
  BY DEF ExchangeCloses, vars
<1>3. UNCHANGED <<appl_init, sent, all_sent, order_id, recv, exchId, errors, warnings,
                  requests, answered, created, channel, timely>>
  BY <1>1 DEF flagVars, heardVars, exchangeVars
<1>4. Machine' /\ Chained'
  BY <1>1, ChainKept DEF OInv
<1>5. HeardTypes' /\ CancelsCreated'
  BY <1>2, <1>3 DEF OInv, HeardTypes, CancelsCreated, Is
<1>6. Exchange'
  BY <1>3 DEF OInv, Exchange, Is, Fits
<1>7. (status' = "done" => order_id' = 3 /\ Len(requests') >= 10)
  BY <1>2, <1>3 DEF OInv
<1>8. ASSUME status' # "lost"
      PROVE  Informed(Heard, 0)' /\ Flags(Heard)' /\ Clean(Heard)' /\ ToldAreCancelled'
  <2>1. Informed(Heard, 0) /\ Flags(Heard) /\ Clean(Heard) /\ ToldAreCancelled
    BY <1>2, <1>8 DEF OInv
  <2>2. Heard' = Heard
    BY <1>3 DEF Heard
  <2>3. Informed(Heard, 0)'
    BY <1>3, <2>1, <2>2 DEF Informed, Is, Exists
  <2>4. Flags(Heard)' /\ Clean(Heard)'
    BY <1>3, <2>1, <2>2 DEF Flags, Clean, Is
  <2>5. ToldAreCancelled'
    BY <1>3, <2>1 DEF ToldAreCancelled, Told, Decided, Cancelled, Is
  <2>. QED  BY <2>3, <2>4, <2>5
<1>. QED  BY <1>4, <1>5, <1>6, <1>7, <1>8 DEF OInv

----------------------------------------------------------------------------
(* The steps of the timer.                                                 *)

(* A branch of the chain tells the last request.                           *)
LEMMA BranchIs ==
  ASSUME Machine, NEW k \in Kind, Branch = k
  PROVE  /\ ~appl_init /\ sent = {k} /\ Len(requests) \in Nat /\ Len(requests) > 0
         /\ requests[Len(requests)].kind = k
         /\ k = "ornw" => ornw_counter < 2
         /\ Stage(k, ornw_counter, order_id, Len(requests))
<1>1. ~appl_init
  <2>1. "appl_init" \notin Kind
    BY DEF Kind
  <2>. QED  BY <2>1, BranchFacts
<1>2. /\ Len(requests) \in Nat /\ Len(requests) > 0
      /\ sent = {requests[Len(requests)].kind}
      /\ Stage(requests[Len(requests)].kind, ornw_counter, order_id, Len(requests))
  BY <1>1, LastRequest
<1>3. "all_sent" \notin Kind
  BY DEF Kind
<1>4. /\ ~(requests[Len(requests)].kind = "ornw" /\ ornw_counter >= 2)
      /\ requests[Len(requests)].kind = k
  BY <1>1, <1>3, BranchFacts
<1>5. ornw_counter \in Nat
  BY <1>2 DEF Stage
<1>6. k = "ornw" => ornw_counter < 2
  BY <1>4, <1>5
<1>. QED  BY <1>1, <1>2, <1>4, <1>6

(* The requests, and what else stays, when one more is sent.               *)
LEMMA SendFacts ==
  ASSUME requests \in Seq(Request), NEW kind \in Kind, NEW order \in 0 .. 3,
         Send(kind, order)
  PROVE  LET n == Len(requests)
         IN  /\ n \in Nat /\ Len(requests') = n + 1
             /\ requests' \in Seq(Request)
             /\ \A i \in 1 .. n : requests'[i] = requests[i]
             /\ requests'[n + 1].kind = kind /\ requests'[n + 1].order = order
             /\ \A i \in 1 .. n + 1 : i \in 1 .. n \/ i = n + 1
             /\ UNCHANGED <<status, answered, created, channel, timely>>
<1>. DEFINE n == Len(requests)
            r == [kind |-> kind, order |-> order]
<1>1. r \in Request /\ r.kind = kind /\ r.order = order
  BY DEF Request
<1>2. /\ requests' = Append(requests, r)
      /\ UNCHANGED <<status, answered, created, channel, timely>>
  BY DEF Send, exchangeVars
<1>. HIDE DEF r
<1>3. /\ n \in Nat /\ Len(Append(requests, r)) = n + 1
      /\ Append(requests, r) \in Seq(Request)
      /\ \A i \in 1 .. n : Append(requests, r)[i] = requests[i]
      /\ Append(requests, r)[n + 1] = r
  BY ONLY <1>1, requests \in Seq(Request)
<1>4. \A i \in 1 .. n + 1 : i \in 1 .. n \/ i = n + 1
  BY ONLY <1>3
<1>. QED  BY <1>1, <1>2, <1>3, <1>4

(* Orders that exist were asked for.                                       *)
LEMMA CreatedFacts ==
  ASSUME Machine, Chained, Exchange, order_id \in Nat
  PROVE  created \subseteq 1 .. order_id
<1>. SUFFICES ASSUME NEW o \in created
              PROVE  o \in 1 .. order_id
  OBVIOUS
<1>1. PICK i \in 1 .. answered : Is(i, "ornw") /\ requests[i].order = o
  BY DEF Exchange
<1>2. i \in 1 .. Len(requests)
  BY <1>1, Places DEF Exchange
<1>. QED  BY <1>1, <1>2 DEF Chained

(* A request that goes out where the chain has it, for an order that is    *)
(* the newest, or exists if it is cancelled, after the error that the last *)
(* request without an answer is.                                           *)
LEMMA SendStep ==
  ASSUME OInv, status = "running",
         NEW kind \in Kind, NEW order \in 0 .. 3, Send(kind, order),
         appl_init' = FALSE, sent' = {kind}, all_sent' = (order_id' > 1),
         Stage(kind, ornw_counter', order_id', Len(requests) + 1),
         Len(requests) = 0 => kind = "helo",
         Len(requests) > 0 => kind \in Successors(requests[Len(requests)].kind),
         order_id \in Nat, order_id' \in {order_id, order_id + 1},
         kind = "ornw" =>
           /\ order = order_id' /\ order > 0
           /\ \A i \in 1 .. Len(requests) : Is(i, "ornw") => requests[i].order < order,
         kind = "orcn" => order \in created,
         recv' = recv \/ recv' = recv \ {"ack"}, exchId' = exchId,
         errors' \in BOOLEAN, warnings' \in BOOLEAN, errors => errors',
         order_id' = 1 => sent # {"blrq"},
         ~errors' =>
           /\ Len(requests) \in {1, 3, 4, 5} => Len(requests) \in timely
           /\ order_id = 1 /\ order_id' = 2 =>
                /\ Len(requests) \in {6, 7} /\ Len(requests) \in timely
                /\ Is(Len(requests), "blrq")
                /\ Len(requests) = 7 => ~Is(6, "blrq"),
         \A i \in 1 .. Len(requests) :
           Told(i) /\ Decided(i)' =>
             Decided(i) \/ (kind = "orcn" /\ requests[i].order = order)
  PROVE  OInv'
<1>0. PICK n : n = Len(requests)
  OBVIOUS
<1>1. /\ Machine /\ Chained /\ HeardTypes /\ Exchange /\ CancelsCreated
      /\ Informed(Heard, 0) /\ Flags(Heard) /\ Clean(Heard) /\ ToldAreCancelled
  BY Running
<1>2. /\ n \in Nat /\ Len(requests') = n + 1
      /\ requests' \in Seq(Request)
      /\ \A i \in 1 .. n : requests'[i] = requests[i]
      /\ requests'[n + 1].kind = kind /\ requests'[n + 1].order = order
      /\ \A i \in 1 .. n + 1 : i \in 1 .. n \/ i = n + 1
      /\ UNCHANGED <<status, answered, created, channel, timely>>
  BY <1>0, <1>1, SendFacts DEF Machine
<1>3. n > 0 => requests[n].kind = requests[Len(requests)].kind
  BY <1>0
<1>4. \A i \in 1 .. n : requests[i].order \in 0 .. 3
  BY <1>0, <1>1, Places
<1>5. Machine'
  <2>1. /\ Len(requests') > 0 /\ Len(requests') = Len(requests) + 1
        /\ requests'[Len(requests')].kind = kind
    BY <1>0, <1>2
  <2>. QED  BY <1>2, <2>1 DEF Machine
<1>6. Chained'
  <2>1. Is(1, "helo")'
    <3>1. CASE n = 0
      BY <1>0, <1>2, <3>1 DEF Is
    <3>2. CASE n > 0
      BY <1>0, <1>1, <1>2, <3>2 DEF Chained, Is
    <3>. QED  BY <1>0, <1>2, <3>1, <3>2
  <2>2. ASSUME NEW i \in 1 .. n + 1, i < n + 1
        PROVE  requests'[i + 1].kind \in Successors(requests'[i].kind)
    <3>1. i \in 1 .. n
      BY <1>2, <2>2
    <3>2. CASE i < n
      <4>1. i + 1 \in 1 .. n
        BY <1>2, <3>1, <3>2
      <4>. QED  BY <1>0, <1>1, <1>2, <3>1, <3>2, <4>1 DEF Chained, Is
    <3>3. CASE i = n
      <4>1. n > 0
        BY <1>0, <3>1, <3>3
      <4>. QED  BY <1>0, <1>2, <3>1, <3>3, <4>1
    <3>. QED  BY <1>0, <1>2, <3>1, <3>2, <3>3
  <2>3. ASSUME NEW i \in 1 .. n + 1, Is(i, "ornw")'
        PROVE  requests'[i].order \in 1 .. order_id'
    <3>1. CASE i \in 1 .. n
      <4>1. requests[i].order \in 1 .. order_id
        BY <1>0, <1>1, <1>2, <2>3, <3>1 DEF Chained, Is
      <4>. QED  BY <1>0, <1>2, <3>1, <4>1
    <3>2. CASE i = n + 1
      BY <1>0, <1>2, <2>3, <3>2 DEF Is
    <3>. QED  BY <1>2, <3>1, <3>2
  <2>4. ASSUME NEW i \in 1 .. n + 1, NEW j \in 1 .. n + 1,
               Is(i, "ornw")', Is(j, "ornw")', i < j
        PROVE  requests'[i].order < requests'[j].order
    <3>1. i \in 1 .. n
      BY <1>2, <2>4
    <3>2. CASE j \in 1 .. n
      BY <1>0, <1>1, <1>2, <2>4, <3>1, <3>2 DEF Chained, Is
    <3>3. CASE j = n + 1
      BY <1>0, <1>2, <2>4, <3>1, <3>3 DEF Is
    <3>. QED  BY <1>0, <1>2, <3>2, <3>3
  <2>5. Is(n + 1, "ornw")' => requests'[n + 1].order = order_id'
    BY <1>0, <1>2 DEF Is
  <2>. QED  BY <1>2, <2>1, <2>2, <2>3, <2>4, <2>5 DEF Chained
<1>7. HeardTypes'
  <2>1. timely \subseteq 1 .. n + 1
    BY <1>0, <1>1, <1>2 DEF HeardTypes, Is
  <2>. QED  BY <1>0, <1>1, <1>2, <2>1 DEF HeardTypes, Is
<1>8. /\ answered \in 0 .. n /\ channel \in Seq(Message)
      /\ \A i \in 1 .. answered : i \in 1 .. n
  BY <1>0, <1>1, <1>2 DEF Exchange, Is
<1>9. Exchange'
  <2>1. answered' \in 0 .. n + 1
    BY <1>0, <1>2, <1>8
  <2>2. \A o \in created' : \E i \in 1 .. answered' :
          Is(i, "ornw")' /\ requests'[i].order = o
    BY <1>0, <1>1, <1>2, <1>8 DEF Exchange, Is
  <2>3. ASSUME NEW k \in 1 .. Len(channel) PROVE Fits(channel[k])'
    <3>1. Fits(channel[k])
      BY <1>0, <1>1 DEF Exchange, Is
    <3>2. channel[k].to > 0 => requests'[channel[k].to] = requests[channel[k].to]
      BY <1>2, <1>8, <3>1 DEF Fits
    <3>. QED  BY <1>2, <3>1, <3>2 DEF Fits
  <2>. QED  BY <1>1, <1>2, <2>1, <2>2, <2>3 DEF Exchange
<1>10. CancelsCreated'
  <2>. SUFFICES ASSUME NEW i \in 1 .. n + 1, Is(i, "orcn")'
                PROVE  requests'[i].order \in created
    BY <1>2 DEF CancelsCreated
  <2>1. CASE i \in 1 .. n
    BY <1>0, <1>1, <1>2, <2>1 DEF CancelsCreated, Is
  <2>2. CASE i = n + 1
    BY <1>0, <1>2, <2>2 DEF Is
  <2>. QED  BY <1>0, <1>2, <2>1, <2>2
<1>11. /\ Heard'.recv = recv' /\ Heard'.exchId = exchId
       /\ Heard'.errors = errors' /\ Heard'.timely = timely
       /\ Heard.recv = recv /\ Heard.exchId = exchId
       /\ Heard.errors = errors /\ Heard.timely = timely
  BY <1>2 DEF Heard
<1>12. \A x \in {"helo", "pdrp", "ornw", "orrj", "oprp", "blrp"} :
         x \in recv' <=> x \in recv
  OBVIOUS
<1>13. timely \subseteq 1 .. n
  BY <1>0, <1>1 DEF HeardTypes, Is
<1>14. Informed(Heard, 0)'
  <2>1. \A i \in timely : Is(i, "ornw")' => i <= answered'
    BY <1>0, <1>1, <1>2, <1>11, <1>13 DEF Informed, Is
  <2>2. \A i \in timely : Exists(i)' => "ornw" \in recv' /\ requests'[i].order <= exchId
    BY <1>0, <1>1, <1>2, <1>11, <1>12, <1>13 DEF Informed, Exists, Is
  <2>3. \A i \in 1 .. Len(channel) :
          i > 0 /\ channel[i].type = "orcr" => exchId <= channel[i].order
    BY <1>0, <1>1, <1>11 DEF Informed, Is
  <2>4. exchId \in created \cup {0} /\ ("ornw" \in recv' => exchId \in created)
    BY <1>1, <1>11, <1>12 DEF Informed
  <2>. QED  BY <1>2, <1>11, <2>1, <2>2, <2>3, <2>4 DEF Informed
<1>15. Flags(Heard)'
  <2>1. /\ "helo" \in recv => 1 \in timely
        /\ "pdrp" \in recv => 3 \in timely
        /\ n <= 4 /\ ("ornw" \in recv \/ "orrj" \in recv) => 4 \in timely
        /\ n <= 5 /\ "oprp" \in recv => 5 \in timely
        /\ order_id = 1 /\ "blrp" \in recv => sent = {"blrq"}
    BY <1>0, <1>1, <1>11 DEF Flags, Is
  <2>2. ~(order_id' = 1 /\ "blrp" \in recv)
    <3>. SUFFICES ASSUME order_id' = 1, "blrp" \in recv PROVE FALSE
      OBVIOUS
    <3>1. order_id \in {0, 1}
      OBVIOUS
    <3>2. order_id # 0
      <4>1. n = 0 => appl_init
        BY <1>0, <1>1 DEF Machine, Is
      <4>2. appl_init => order_id = 1
        BY <1>0, <1>1 DEF Machine, Is
      <4>3. ~appl_init => order_id # 0
        BY <1>1, LastRequest DEF Stage
      <4>. QED  BY <4>2, <4>3
    <3>. QED  BY <2>1, <3>1, <3>2
  <2>3. (n + 1 <= 4 => n <= 4) /\ (n + 1 <= 5 => n <= 5)
    BY <1>2
  <2>. QED  BY <1>2, <1>11, <1>12, <2>1, <2>2, <2>3 DEF Flags
<1>16. Clean(Heard)'
  <2>. SUFFICES ASSUME ~errors'
                PROVE  /\ n + 1 >= 2 => 1 \in timely
                       /\ n + 1 >= 4 => 3 \in timely
                       /\ n + 1 >= 5 => 4 \in timely
                       /\ n + 1 >= 6 => 5 \in timely
                       /\ order_id' >= 2 =>
                            \E j \in {6, 7} : Is(j, "blrq")' /\ j \in timely
                                              /\ (j = 7 => ~Is(6, "blrq")')
    BY <1>2, <1>11 DEF Clean
  <2>1. /\ n >= 2 => 1 \in timely
        /\ n >= 4 => 3 \in timely
        /\ n >= 5 => 4 \in timely
        /\ n >= 6 => 5 \in timely
        /\ order_id >= 2 =>
             \E j \in {6, 7} : Is(j, "blrq") /\ j \in timely
                               /\ (j = 7 => ~Is(6, "blrq"))
    BY <1>0, <1>1, <1>11 DEF Clean, Is
  <2>2. /\ n + 1 >= 2 => 1 \in timely
        /\ n + 1 >= 4 => 3 \in timely
        /\ n + 1 >= 5 => 4 \in timely
        /\ n + 1 >= 6 => 5 \in timely
    <3>1. (n + 1 >= 2 => n >= 2 \/ n = 1) /\ (n + 1 >= 4 => n >= 4 \/ n = 3)
          /\ (n + 1 >= 5 => n >= 5 \/ n = 4) /\ (n + 1 >= 6 => n >= 6 \/ n = 5)
      BY <1>2
    <3>. QED  BY <1>0, <2>1, <3>1
  <2>3. ASSUME order_id' >= 2
        PROVE  \E j \in {6, 7} : Is(j, "blrq") /\ j \in timely
                                 /\ (j = 7 => ~Is(6, "blrq"))
    <3>1. order_id >= 2 \/ (order_id = 1 /\ order_id' = 2)
      BY <2>3
    <3>. QED  BY <2>1, <3>1
  <2>4. ASSUME NEW j \in {6, 7}, j \in timely
        PROVE  /\ Is(j, "blrq") => Is(j, "blrq")'
               /\ j = 7 /\ ~Is(6, "blrq") => ~Is(6, "blrq")'
    <3>1. j \in 1 .. n /\ 6 \in 1 .. n
      BY <1>2, <1>13, <2>4
    <3>. QED  BY <1>2, <3>1 DEF Is
  <2>. QED  BY <2>2, <2>3, <2>4
<1>17. ToldAreCancelled'
  <2>. SUFFICES ASSUME NEW i \in 1 .. n + 1, Told(i)', Decided(i)'
                PROVE  Cancelled(i)'
    BY <1>2 DEF ToldAreCancelled
  <2>1. i \in timely
    BY <1>2 DEF Told
  <2>2. i \in 1 .. n
    BY <1>13, <2>1
  <2>3. Told(i)
    BY <1>0, <1>2, <2>1, <2>2 DEF Told, Is
  <2>4. CASE Decided(i)
    <3>1. PICK j \in 1 .. n : Is(j, "orcn") /\ requests[j].order = requests[i].order
      BY <1>0, <1>1, <2>2, <2>3, <2>4 DEF ToldAreCancelled, Cancelled, Is
    <3>2. j \in 1 .. n + 1 /\ Is(j, "orcn")' /\ requests'[j].order = requests'[i].order
      BY <1>0, <1>2, <2>2, <3>1 DEF Is
    <3>. QED  BY <1>0, <1>2, <3>2 DEF Cancelled, Is
  <2>5. CASE kind = "orcn" /\ requests[i].order = order
    <3>1. /\ n + 1 \in 1 .. n + 1 /\ Is(n + 1, "orcn")'
          /\ requests'[n + 1].order = requests'[i].order
      BY <1>2, <2>2, <2>5 DEF Is
    <3>. QED  BY <1>2, <3>1 DEF Cancelled
  <2>. QED  BY <1>0, <2>2, <2>3, <2>4, <2>5
<1>18. status' = "running"
  BY <1>0, <1>2
<1>. QED
  BY <1>5, <1>6, <1>7, <1>9, <1>10, <1>14, <1>15, <1>16, <1>17, <1>18 DEF OInv

(* The first request.                                                      *)
LEMMA HeloStep ==
  ASSUME OInv, status = "running", SendHelo
  PROVE  OInv'
<1>1. /\ Send("helo", 0) /\ appl_init' = FALSE /\ sent' = sent \cup {"helo"}
      /\ UNCHANGED <<all_sent, ornw_counter, order_id, recv, exchId, errors, warnings>>
  BY DEF SendHelo, heardVars
<1>2. /\ Machine /\ Chained /\ HeardTypes
  BY Running
<1>3. appl_init
  <2>1. \A k \in Kind \cup {"all_sent"} : k # "appl_init"
    BY DEF Kind
  <2>2. Branch = "appl_init"
    BY DEF SendHelo
  <2>3. ~appl_init => requests[Len(requests)].kind \in Kind
    BY <1>2, LastRequest
  <2>. QED  BY <1>2, <2>1, <2>2, <2>3, BranchFacts
<1>4. sent = {} /\ Len(requests) = 0 /\ ornw_counter = 0 /\ order_id = 1
  BY <1>2, <1>3 DEF Machine
<1>5. all_sent' = (order_id' > 1)
  BY <1>1, <1>2 DEF Machine
<1>6. Stage("helo", ornw_counter', order_id', Len(requests) + 1)
  BY <1>1, <1>4 DEF Stage
<1>7. errors' \in BOOLEAN /\ warnings' \in BOOLEAN /\ (errors => errors')
  BY <1>1, <1>2 DEF HeardTypes
<1>8. "helo" \in Kind /\ 0 \in 0 .. 3 /\ sent' = {"helo"}
  BY <1>1, <1>4 DEF Kind
<1>9. \A i \in 1 .. Len(requests) : FALSE
  BY <1>4
<1>10. order_id \in Nat /\ order_id' \in {order_id, order_id + 1} /\ ~(order_id' = 2)
  BY <1>1, <1>4
<1>11. Len(requests) \notin {1, 3, 4, 5} /\ sent # {"blrq"}
  BY <1>4
<1>12. ~errors' =>
         /\ Len(requests) \in {1, 3, 4, 5} => Len(requests) \in timely
         /\ order_id = 1 /\ order_id' = 2 =>
              /\ Len(requests) \in {6, 7} /\ Len(requests) \in timely
              /\ Is(Len(requests), "blrq")
              /\ Len(requests) = 7 => ~Is(6, "blrq")
  BY <1>10, <1>11
<1>13. \A i \in 1 .. Len(requests) :
         Told(i) /\ Decided(i)' =>
           Decided(i) \/ ("helo" = "orcn" /\ requests[i].order = 0)
  BY <1>9
<1>14. /\ Len(requests) = 0 => "helo" = "helo"
       /\ Len(requests) > 0 => "helo" \in Successors(requests[Len(requests)].kind)
       /\ "helo" # "ornw" /\ "helo" # "orcn"
       /\ order_id' = 1 => sent # {"blrq"}
  BY <1>4, <1>11
<1>. QED
  BY ONLY OInv, status = "running", <1>1, <1>5, <1>6, <1>7, <1>8, <1>10, <1>12,
          <1>13, <1>14, SendStep

(* Every other request: kind, after the last one was k.                    *)
LEMMA ChainStep ==
  ASSUME OInv, status = "running",
         NEW k \in Kind, Branch = k, NEW kind \in Successors(k), kind \in Kind,
         NEW order \in Nat, Send(kind, order), Moves(k, kind),
         UNCHANGED <<appl_init, exchId>>,
         ornw_counter' = IF k = "ornw" THEN ornw_counter + 1 ELSE ornw_counter,
         order_id' = IF k = "blrq" THEN order_id + 1 ELSE order_id,
         all_sent' = IF k = "blrq" THEN TRUE ELSE all_sent,
         recv' = recv \/ recv' = recv \ {"ack"},
         errors' \in BOOLEAN, warnings' \in BOOLEAN, errors => errors',
         ~errors' =>
           /\ k = "helo" => "helo" \in recv
           /\ k = "pdrq" => "pdrp" \in recv
           /\ k = "ornw" => "ornw" \in recv \/ "orrj" \in recv
           /\ k = "oprq" => "oprp" \in recv
           /\ k = "blrq" => "blrp" \in recv,
         kind = "ornw" => order = order_id',
         kind \notin {"ornw", "orcn"} => order = 0,
         kind = "orcn" => order \in created,
         k = "oprq" =>
           \A i \in 1 .. Len(requests) :
             Told(i) => Decided(i) \/ (kind = "orcn" /\ requests[i].order = order)
  PROVE  OInv'
<1>0. PICK n : n = Len(requests)
  OBVIOUS
<1>1. /\ Machine /\ Chained /\ HeardTypes /\ Exchange /\ Flags(Heard)
  BY Running
<1>2. /\ ~appl_init /\ sent = {k} /\ n \in Nat /\ n > 0
      /\ requests[n].kind = k
      /\ k = "ornw" => ornw_counter < 2
      /\ Stage(k, ornw_counter, order_id, n)
  BY <1>0, <1>1, BranchIs
<1>3. order_id \in Nat /\ order_id > 0 /\ order_id <= 3 /\ ornw_counter \in Nat
  BY <1>2 DEF Stage
<1>4. Stage(kind, ornw_counter', order_id', n + 1)
  <2>1. /\ k = "helo" => kind = "hrbt"
        /\ k = "hrbt" => kind = "pdrq"
        /\ k = "pdrq" => kind = "ornw"
        /\ k = "ornw" => kind = "oprq"
        /\ k = "oprq" => kind \in {"orcn", "blrq"}
        /\ k = "orcn" => kind = "blrq"
        /\ k = "blrq" => kind = "ornw"
    BY DEF Successors
  <2>. QED  BY <1>2, <2>1 DEF Stage
<1>5. order \in 0 .. 3
  <2>1. order_id' \in 0 .. 3
    BY <1>4 DEF Stage
  <2>2. created \subseteq 0 .. 3
    BY <1>1, <1>3, CreatedFacts
  <2>. QED  BY <2>1, <2>2
<1>6. all_sent' = (order_id' > 1)
  <2>1. CASE k = "blrq"
    <3>1. (order_id' > 1) = TRUE
      BY <1>3, <2>1
    <3>2. all_sent' = TRUE
      BY <2>1
    <3>. QED  BY <3>1, <3>2, Zenon
  <2>2. CASE k # "blrq"
    BY <1>1, <2>2 DEF Machine
  <2>. QED  BY <2>1, <2>2
<1>7. appl_init' = FALSE /\ sent' = {kind}
  <2>1. appl_init' = FALSE
    BY <1>1, <1>2 DEF Machine
  <2>2. sent' = {kind}
    BY <1>2 DEF Moves
  <2>. QED  BY <2>1, <2>2
<1>8. ASSUME kind = "ornw"
      PROVE  /\ order = order_id' /\ order > 0
             /\ \A i \in 1 .. n : Is(i, "ornw") => requests[i].order < order
  <2>1. k \in {"pdrq", "blrq"}
    BY <1>8, ChainFacts
  <2>2. CASE k = "pdrq"
    <3>1. n = 3
      BY <1>2, <2>2 DEF Stage
    <3>2. \A i \in 1 .. n : ~Is(i, "ornw")
      BY <1>0, <1>1, <3>1, Places
    <3>. QED  BY <1>3, <1>8, <2>2, <3>2
  <2>3. CASE k = "blrq"
    <3>1. \A i \in 1 .. n : Is(i, "ornw") => requests[i].order \in 1 .. order_id
      BY <1>0, <1>1 DEF Chained
    <3>. QED  BY <1>3, <1>8, <2>3, <3>1
  <2>. QED  BY <2>1, <2>2, <2>3
<1>9. order_id' = 1 => sent # {"blrq"}
  BY <1>2, <1>3
<1>10. ASSUME ~errors', n \in {1, 3, 4, 5}
       PROVE  n \in timely
  <2>1. /\ "helo" \in recv => 1 \in timely
        /\ "pdrp" \in recv => 3 \in timely
        /\ n <= 4 /\ ("ornw" \in recv \/ "orrj" \in recv) => 4 \in timely
        /\ n <= 5 /\ "oprp" \in recv => 5 \in timely
    BY <1>0, <1>1 DEF Flags, Heard
  <2>2. /\ n = 1 => k = "helo"
        /\ n = 3 => k = "pdrq"
        /\ n = 4 => k = "ornw"
        /\ n = 5 => k = "oprq"
    BY <1>2 DEF Stage
  <2>. QED  BY <1>10, <2>1, <2>2
<1>11. ASSUME ~errors', order_id = 1, order_id' = 2
       PROVE  /\ n \in {6, 7} /\ n \in timely /\ Is(n, "blrq")
              /\ n = 7 => ~Is(6, "blrq")
  <2>1. k = "blrq"
    BY <1>11
  <2>2. n \in {6, 7}
    BY <1>2, <1>11, <2>1 DEF Stage
  <2>3. n \in timely
    BY <1>0, <1>1, <1>11, <2>1 DEF Flags, Heard
  <2>4. ASSUME n = 7, Is(6, "blrq")
        PROVE  FALSE
    <3>1. 6 \in 1 .. n /\ 6 < n /\ 6 + 1 = n
      BY <2>4
    <3>2. requests[n].kind \in Successors(requests[6].kind)
      BY <1>0, <1>1, <3>1 DEF Chained
    <3>3. requests[6].kind \in Kind
      BY <1>0, <1>1, <3>1, Places
    <3>. QED  BY <1>2, <2>1, <2>4, <3>2, <3>3, ChainFacts DEF Is
  <2>. QED  BY <1>2, <2>1, <2>2, <2>3, <2>4 DEF Is
<1>12. ASSUME NEW i \in 1 .. n, Told(i), Decided(i)'
       PROVE  Decided(i) \/ (kind = "orcn" /\ requests[i].order = order)
  <2>1. CASE k \in {"orcn", "blrq"}
    BY <1>2, <2>1 DEF Decided
  <2>2. CASE k = "oprq"
    BY <1>0, <1>12, <2>2
  <2>3. CASE k \notin {"orcn", "blrq", "oprq"}
    <3>1. kind \notin {"orcn", "blrq"}
      BY <2>3, ChainFacts
    <3>2. requests \in Seq(Request)
      BY <1>1 DEF Machine
    <3>3. requests'[i] = requests[i]
      BY <1>0, <1>5, <3>2, SendFacts
    <3>. QED  BY <1>7, <1>12, <2>3, <3>1, <3>3 DEF Decided
  <2>. QED  BY <2>1, <2>2, <2>3
<1>13. order_id' \in {order_id, order_id + 1}
  OBVIOUS
<1>14. n = 0 => kind = "helo"
  BY <1>2
<1>15. n > 0 => kind \in Successors(requests[n].kind)
  BY <1>2
<1>16. ~errors' =>
         /\ n \in {1, 3, 4, 5} => n \in timely
         /\ order_id = 1 /\ order_id' = 2 =>
              /\ n \in {6, 7} /\ n \in timely
              /\ Is(n, "blrq")
              /\ n = 7 => ~Is(6, "blrq")
  BY <1>10, <1>11
<1>17. kind = "ornw" =>
         /\ order = order_id' /\ order > 0
         /\ \A i \in 1 .. n : Is(i, "ornw") => requests[i].order < order
  BY <1>8
<1>18. \A i \in 1 .. n :
         Told(i) /\ Decided(i)' =>
           Decided(i) \/ (kind = "orcn" /\ requests[i].order = order)
  BY <1>12
<1>19. /\ kind = "orcn" => order \in created
       /\ recv' = recv \/ recv' = recv \ {"ack"}
       /\ exchId' = exchId /\ errors' \in BOOLEAN /\ warnings' \in BOOLEAN
       /\ errors => errors'
  OBVIOUS
<1>. QED
  BY ONLY OInv, status = "running", Send(kind, order), kind \in Kind, <1>0, <1>3,
          <1>4, <1>5, <1>6, <1>7, <1>9, <1>13, <1>14, <1>15, <1>16, <1>17, <1>18,
          <1>19, SendStep

(* The second request records whether helo was answered.                   *)
LEMMA HeartbeatStep ==
  ASSUME OInv, status = "running", SendHeartbeat
  PROVE  OInv'
<1>1. /\ Branch = "helo" /\ Send("hrbt", 0) /\ Moves("helo", "hrbt")
      /\ UNCHANGED <<appl_init, all_sent, ornw_counter, order_id, recv, exchId, warnings>>
      /\ errors' = (errors \/ "helo" \notin recv)
  BY DEF SendHeartbeat, Records
<1>2. errors \in BOOLEAN /\ warnings \in BOOLEAN
  BY Running DEF HeardTypes
<1>3. "helo" \in Kind /\ "hrbt" \in Kind /\ "hrbt" \in Successors("helo")
  BY DEF Kind, Successors
<1>4. errors' \in BOOLEAN /\ (errors => errors') /\ (~errors' => "helo" \in recv)
  BY <1>1, <1>2
<1>. QED  BY ONLY OInv, status = "running", <1>1, <1>2, <1>3, <1>4, ChainStep

(* Nobody answers the heartbeat, and nothing is recorded.                  *)
LEMMA PairDataStep ==
  ASSUME OInv, status = "running", SendPairData
  PROVE  OInv'
<1>1. /\ Branch = "hrbt" /\ Send("pdrq", 0) /\ Moves("hrbt", "pdrq")
      /\ UNCHANGED <<appl_init, all_sent, ornw_counter, order_id, recv, exchId,
                     errors, warnings>>
  BY DEF SendPairData, heardVars
<1>2. errors \in BOOLEAN /\ warnings \in BOOLEAN
  BY Running DEF HeardTypes
<1>3. "hrbt" \in Kind /\ "pdrq" \in Kind /\ "pdrq" \in Successors("hrbt")
  BY DEF Kind, Successors
<1>. QED  BY ONLY OInv, status = "running", <1>1, <1>2, <1>3, ChainStep

(* The first order records whether the pair data came.                     *)
LEMMA NewOrderStep ==
  ASSUME OInv, status = "running", SendNewOrder
  PROVE  OInv'
<1>1. /\ Branch = "pdrq" /\ Send("ornw", order_id) /\ Moves("pdrq", "ornw")
      /\ UNCHANGED <<appl_init, all_sent, ornw_counter, order_id, recv, exchId, warnings>>
      /\ errors' = (errors \/ "pdrp" \notin recv)
  BY DEF SendNewOrder, Records
<1>2. errors \in BOOLEAN /\ warnings \in BOOLEAN /\ Machine
  BY Running DEF HeardTypes
<1>3. "pdrq" \in Kind /\ "ornw" \in Kind /\ "ornw" \in Successors("pdrq")
  BY DEF Kind, Successors
<1>4. errors' \in BOOLEAN /\ (errors => errors') /\ (~errors' => "pdrp" \in recv)
  BY <1>1, <1>2
<1>5. order_id \in Nat
  BY <1>1, <1>2, <1>3, BranchIs DEF Stage
<1>. QED  BY ONLY OInv, status = "running", <1>1, <1>2, <1>3, <1>4, <1>5, ChainStep

(* An answer to the order is an ack with an orcr, or a reject.             *)
LEMMA OpenOrdersStep ==
  ASSUME OInv, status = "running", SendOpenOrders
  PROVE  OInv'
<1>1. /\ Branch = "ornw" /\ Send("oprq", 0) /\ Moves("ornw", "oprq")
      /\ UNCHANGED <<appl_init, all_sent, order_id, recv, exchId>>
      /\ ornw_counter' = ornw_counter + 1
      /\ errors' = (errors \/ ("orrj" \notin recv /\ ~({"ack", "ornw"} \subseteq recv)))
      /\ warnings' = (warnings \/ "orrj" \in recv)
  BY DEF SendOpenOrders, Records
<1>2. errors \in BOOLEAN /\ warnings \in BOOLEAN
  BY Running DEF HeardTypes
<1>3. "ornw" \in Kind /\ "oprq" \in Kind /\ "oprq" \in Successors("ornw")
  BY DEF Kind, Successors
<1>4. /\ errors' \in BOOLEAN /\ warnings' \in BOOLEAN /\ (errors => errors')
      /\ ~errors' => "ornw" \in recv \/ "orrj" \in recv
  BY <1>1, <1>2
<1>. QED  BY ONLY OInv, status = "running", <1>1, <1>2, <1>3, <1>4, ChainStep

(* Whatever id the cancel goes by, it is that of an order that exists, and *)
(* of the last one if the client was told of it in time.                   *)
LEMMA CancelStep ==
  ASSUME OInv, status = "running", SendCancel
  PROVE  OInv'
<1>. DEFINE order == IF ornw_counter # 1 THEN exchId ELSE order_id
<1>1. /\ Branch = "oprq" /\ Send("orcn", order) /\ Moves("oprq", "orcn")
      /\ UNCHANGED <<appl_init, all_sent, ornw_counter, order_id, exchId, warnings>>
      /\ errors' = (errors \/ "oprp" \notin recv)
      /\ recv' = recv \ {"ack"} /\ "ornw" \in recv
  BY DEF SendCancel, Records
<1>2. /\ errors \in BOOLEAN /\ warnings \in BOOLEAN
      /\ Machine /\ Chained /\ Exchange /\ Informed(Heard, 0)
  BY Running DEF HeardTypes
<1>3. "oprq" \in Kind /\ "orcn" \in Kind /\ "orcn" \in Successors("oprq")
  BY DEF Kind, Successors
<1>4. errors' \in BOOLEAN /\ (errors => errors') /\ (~errors' => "oprp" \in recv)
  BY <1>1, <1>2
<1>5. /\ order_id \in Nat /\ (ornw_counter = 1 => order_id = 1)
  BY <1>1, <1>2, <1>3, BranchIs DEF Stage
<1>6. /\ exchId \in created
      /\ \A i \in timely : Exists(i) => requests[i].order <= exchId
  BY <1>1, <1>2 DEF Informed, Heard
<1>7. exchId \in 1 .. order_id
  BY <1>2, <1>5, <1>6, CreatedFacts
<1>8. order = exchId
  BY <1>5, <1>7
<1>. HIDE DEF order
<1>9. order \in Nat /\ order \in created
  BY <1>5, <1>6, <1>7, <1>8
<1>10. ASSUME NEW i \in 1 .. Len(requests), Told(i)
       PROVE  Decided(i) \/ requests[i].order = order
  <2>1. Is(i, "ornw") /\ i \in timely /\ Exists(i)
    BY <1>10 DEF Told, Exists
  <2>2. requests[i].order \in 1 .. order_id
    BY <1>2, <2>1 DEF Chained
  <2>3. requests[i].order <= exchId
    BY <1>6, <2>1
  <2>4. requests[i].order < order_id \/ requests[i].order = exchId
    BY <1>5, <1>7, <2>2, <2>3
  <2>. QED  BY <1>8, <2>4 DEF Decided
<1>. QED
  BY ONLY OInv, status = "running", <1>1, <1>2, <1>3, <1>4, <1>9, <1>10, ChainStep

(* Without a cancel there was no word of an order in time.                 *)
LEMMA BalanceStep ==
  ASSUME OInv, status = "running", SendBalance
  PROVE  OInv'
<1>1. /\ Branch = "oprq" /\ Send("blrq", 0) /\ Moves("oprq", "blrq")
      /\ UNCHANGED <<appl_init, all_sent, ornw_counter, order_id, recv, exchId, warnings>>
      /\ errors' = (errors \/ "oprp" \notin recv)
      /\ "ornw" \notin recv
  BY DEF SendBalance, Records
<1>2. errors \in BOOLEAN /\ warnings \in BOOLEAN /\ Informed(Heard, 0)
  BY Running DEF HeardTypes
<1>3. "oprq" \in Kind /\ "blrq" \in Kind /\ "blrq" \in Successors("oprq")
  BY DEF Kind, Successors
<1>4. errors' \in BOOLEAN /\ (errors => errors') /\ (~errors' => "oprp" \in recv)
  BY <1>1, <1>2
<1>5. \A i \in 1 .. Len(requests) : ~Told(i)
  BY <1>1, <1>2 DEF Informed, Heard, Told, Exists
<1>. QED  BY ONLY OInv, status = "running", <1>1, <1>2, <1>3, <1>4, <1>5, ChainStep

(* The cancel was sent, so the balance cannot miss one.                    *)
LEMMA BalanceAfterCancelStep ==
  ASSUME OInv, status = "running", SendBalanceAfterCancel
  PROVE  OInv'
<1>. DEFINE silent == {"clrj", "err"} \cap recv = {} /\ ~({"ack", "orst", "orcn"} \subseteq recv)
<1>1. /\ Branch = "orcn" /\ Send("blrq", 0) /\ Moves("orcn", "blrq")
      /\ UNCHANGED <<appl_init, all_sent, ornw_counter, order_id, recv, exchId>>
      /\ errors' = (errors \/ silent)
      /\ warnings' = (warnings \/ "clrj" \in recv)
  BY DEF SendBalanceAfterCancel, Records
<1>2. errors \in BOOLEAN /\ warnings \in BOOLEAN
  BY Running DEF HeardTypes
<1>3. "orcn" \in Kind /\ "blrq" \in Kind /\ "blrq" \in Successors("orcn")
  BY DEF Kind, Successors
<1>. HIDE DEF silent
<1>4. errors' \in BOOLEAN /\ warnings' \in BOOLEAN /\ (errors => errors')
  BY <1>1, <1>2
<1>. QED  BY ONLY OInv, status = "running", <1>1, <1>2, <1>3, <1>4, ChainStep

(* The next order has a number above all others.                           *)
LEMMA NextOrderStep ==
  ASSUME OInv, status = "running", SendNextOrder
  PROVE  OInv'
<1>1. /\ Branch = "blrq" /\ Send("ornw", order_id + 1) /\ Moves("blrq", "ornw")
      /\ UNCHANGED <<appl_init, ornw_counter, recv, exchId, warnings>>
      /\ order_id' = order_id + 1 /\ all_sent' = TRUE
      /\ errors' = (errors \/ "blrp" \notin recv)
  BY DEF SendNextOrder, Records
<1>2. errors \in BOOLEAN /\ warnings \in BOOLEAN /\ Machine
  BY Running DEF HeardTypes
<1>3. "blrq" \in Kind /\ "ornw" \in Kind /\ "ornw" \in Successors("blrq")
  BY DEF Kind, Successors
<1>4. errors' \in BOOLEAN /\ (errors => errors') /\ (~errors' => "blrp" \in recv)
  BY <1>1, <1>2
<1>5. order_id + 1 \in Nat
  BY <1>1, <1>2, <1>3, BranchIs DEF Stage
<1>. QED  BY ONLY OInv, status = "running", <1>1, <1>2, <1>3, <1>4, <1>5, ChainStep

(* The test is over when the third order was sent.                         *)
LEMMA FinalStep ==
  ASSUME OInv, status = "running", Close
  PROVE  OInv'
<1>1. /\ Branch = "all_sent" /\ status' = "done"
      /\ UNCHANGED <<appl_init, sent, all_sent, ornw_counter, order_id, recv, exchId,
                     errors, warnings, requests, answered, created, channel, timely>>
  BY DEF Close, flagVars, heardVars, exchangeVars
<1>2. /\ Machine /\ Chained /\ HeardTypes /\ Exchange /\ CancelsCreated
      /\ Informed(Heard, 0) /\ Flags(Heard) /\ Clean(Heard) /\ ToldAreCancelled
  BY Running
<1>3. ~appl_init
  BY <1>1, <1>2, BranchFacts
<1>4. requests[Len(requests)].kind = "ornw" /\ ornw_counter >= 2
  <2>1. "all_sent" \notin Kind
    BY DEF Kind
  <2>2. requests[Len(requests)].kind \in Kind
    BY <1>2, <1>3, LastRequest
  <2>. QED  BY <1>1, <1>2, <1>3, <2>1, <2>2, BranchFacts
<1>5. order_id = 3 /\ Len(requests) >= 10
  <2>1. PICK n : n = Len(requests)
    OBVIOUS
  <2>2. Stage("ornw", ornw_counter, order_id, n)
    BY <1>2, <1>3, <1>4, <2>1, LastRequest
  <2>3. order_id = 3 /\ n >= 10
    BY <1>4, <2>2 DEF Stage
  <2>. QED  BY <2>1, <2>3
<1>6. Machine' /\ Chained'
  BY <1>1, <1>2, ChainKept DEF flagVars
<1>7. HeardTypes' /\ CancelsCreated'
  BY <1>1, <1>2 DEF HeardTypes, CancelsCreated, Is
<1>8. Exchange'
  BY <1>1, <1>2 DEF Exchange, Is, Fits
<1>9. Heard' = Heard
  BY <1>1 DEF Heard
<1>10. Informed(Heard, 0)'
  BY <1>1, <1>2, <1>9 DEF Informed, Is, Exists
<1>11. Flags(Heard)' /\ Clean(Heard)'
  BY <1>1, <1>2, <1>9 DEF Flags, Clean, Is
<1>12. ToldAreCancelled'
  BY <1>1, <1>2 DEF ToldAreCancelled, Told, Decided, Cancelled, Is
<1>. QED  BY <1>1, <1>5, <1>6, <1>7, <1>8, <1>10, <1>11, <1>12 DEF OInv

----------------------------------------------------------------------------
(* The invariant.                                                          *)

(* Nothing was sent or heard.                                              *)
LEMMA InitInv ==
  ASSUME Init
  PROVE  OInv
<1>1. /\ appl_init = TRUE /\ sent = {} /\ all_sent = FALSE /\ recv = {}
      /\ ornw_counter = 0 /\ order_id = 1 /\ exchId = 0
      /\ errors = FALSE /\ warnings = FALSE /\ status = "running"
      /\ requests = << >> /\ answered = 0 /\ created = {} /\ channel = << >>
      /\ timely = {}
  BY DEF Init
<1>2. /\ << >> \in Seq(Request) /\ << >> \in Seq(Message)
      /\ Len(requests) = 0 /\ Len(channel) = 0
  BY <1>1
<1>3. Machine
  <2>1. (order_id > 1) = FALSE
    BY <1>1
  <2>2. all_sent = (order_id > 1)
    BY <1>1, <2>1, Zenon
  <2>. QED  BY <1>1, <1>2, <2>2 DEF Machine
<1>4. Chained
  <2>1. \A i \in 1 .. Len(requests) : FALSE
    BY <1>2
  <2>. QED  BY <1>2, <2>1 DEF Chained
<1>5. HeardTypes
  <2>1. errors \in BOOLEAN /\ warnings \in BOOLEAN
    BY <1>1, Zenon
  <2>2. status \in {"running", "done", "lost"} /\ exchId \in 0 .. 3
    BY <1>1
  <2>3. recv \subseteq FlagSet /\ timely \subseteq 1 .. Len(requests)
    BY <1>1
  <2>. QED  BY <2>1, <2>2, <2>3 DEF HeardTypes
<1>6. Exchange
  BY <1>1, <1>2 DEF Exchange
<1>7. CancelsCreated
  BY <1>2 DEF CancelsCreated
<1>8. /\ Heard.recv = {} /\ Heard.exchId = 0 /\ Heard.errors = FALSE /\ Heard.timely = {}
  BY <1>1 DEF Heard
<1>9. Informed(Heard, 0)
  BY <1>2, <1>8 DEF Informed
<1>10. Flags(Heard)
  BY <1>8 DEF Flags
<1>11. Clean(Heard)
  BY <1>1, <1>2, <1>8 DEF Clean
<1>12. ToldAreCancelled
  BY <1>2 DEF ToldAreCancelled
<1>. QED
  BY <1>1, <1>3, <1>4, <1>5, <1>6, <1>7, <1>9, <1>10, <1>11, <1>12 DEF OInv

(* Every step keeps the invariant.                                         *)
LEMMA NextStep ==
  ASSUME OInv, [Next]_vars
  PROVE  OInv'
<1>1. CASE SendNext
  <2>1. status = "running"
    BY <1>1 DEF SendNext
  <2>2. CASE SendHelo
    BY <2>1, <2>2, HeloStep
  <2>3. CASE SendHeartbeat
    BY <2>1, <2>3, HeartbeatStep
  <2>4. CASE SendPairData
    BY <2>1, <2>4, PairDataStep
  <2>5. CASE SendNewOrder
    BY <2>1, <2>5, NewOrderStep
  <2>6. CASE SendOpenOrders
    BY <2>1, <2>6, OpenOrdersStep
  <2>7. CASE SendCancel
    BY <2>1, <2>7, CancelStep
  <2>8. CASE SendBalance
    BY <2>1, <2>8, BalanceStep
  <2>9. CASE SendBalanceAfterCancel
    BY <2>1, <2>9, BalanceAfterCancelStep
  <2>10. CASE SendNextOrder
    BY <2>1, <2>10, NextOrderStep
  <2>11. CASE Close
    BY <2>1, <2>11, FinalStep
  <2>. QED
    BY <1>1, <2>2, <2>3, <2>4, <2>5, <2>6, <2>7, <2>8, <2>9, <2>10, <2>11
       DEF SendNext
<1>2. ASSUME NEW n \in 0 .. Len(channel), NEW cut \in BOOLEAN, DataReceived(n, cut)
      PROVE  OInv'
  BY <1>2, DataStep
<1>3. CASE ExchangeAnswers
  BY <1>3, AnswerStep
<1>4. CASE StatusChanges
  BY <1>4, StatusStep
<1>5. CASE ExchangeCloses
  BY <1>5, CloseStep
<1>6. CASE UNCHANGED vars
  BY <1>6, CloseStep
<1>. QED  BY <1>1, <1>2, <1>3, <1>4, <1>5, <1>6 DEF Next

(* The inductive invariant: what the chain of elifs, the flags and the     *)
(* exchange know of each other, for every number of deviations.            *)
THEOREM Invariance == Spec => []OInv
<1>. QED  BY InitInv, NextStep, PTL DEF Spec

(* The flags are a state machine: one is set at a time, the chain has a    *)
(* branch for it, and at most twelve requests go out.                      *)
THEOREM TypeCorrect == Spec => []TypeOK
<1>1. ASSUME OInv
      PROVE  TypeOK
  <2>1. PICK n : n = Len(requests)
    OBVIOUS
  <2>2. Machine /\ Chained /\ HeardTypes /\ Exchange
    BY <1>1 DEF OInv
  <2>3. n \in Nat
    BY <2>1, <2>2, Places
  <2>4. /\ order_id \in 1 .. 3 /\ ornw_counter \in 0 .. 2 /\ n <= 12
    <3>1. CASE appl_init
      <4>1. ornw_counter = 0 /\ order_id = 1 /\ n = 0
        BY <2>1, <2>2, <3>1 DEF Machine
      <4>. QED  BY <4>1
    <3>2. CASE ~appl_init
      <4>1. PICK k : Stage(k, ornw_counter, order_id, n)
        BY <2>1, <2>2, <3>2, LastRequest
      <4>. QED  BY <2>3, <4>1 DEF Stage
    <3>. QED  BY <3>1, <3>2
  <2>5. {appl_init, all_sent, errors, warnings} \subseteq BOOLEAN
    <3>1. appl_init \in BOOLEAN /\ all_sent = (order_id > 1)
      BY <2>2 DEF Machine
    <3>2. (order_id > 1) = TRUE \/ (order_id > 1) = FALSE
      BY <2>4
    <3>4. all_sent \in BOOLEAN
      BY <3>1, <3>2, Zenon
    <3>3. errors \in BOOLEAN /\ warnings \in BOOLEAN
      BY <2>2 DEF HeardTypes
    <3>. QED  BY <3>1, <3>3, <3>4, Zenon
  <2>6. sent \subseteq ToSet(Chain)
    <3>1. sent \subseteq Kind
      <4>1. appl_init => sent = {}
        BY <2>2 DEF Machine
      <4>. QED  BY <2>2, <4>1, LastRequest
    <3>2. Kind \subseteq ToSet(Chain)
      <4>1. DOMAIN Chain = 1 .. 7
        BY DEF Chain
      <4>2. \A k \in Kind : \E i \in 1 .. 7 : Chain[i] = k
        BY DEF Chain, Kind
      <4>. QED  BY <4>1, <4>2 DEF ToSet
    <3>. QED  BY <3>1, <3>2
  <2>7. Cardinality(sent) = IF appl_init THEN 0 ELSE 1
    <3>1. CASE appl_init
      <4>1. sent = {}
        BY <2>2, <3>1 DEF Machine
      <4>. QED  BY <3>1, <4>1, FS_EmptySet
    <3>2. CASE ~appl_init
      <4>1. sent = {requests[Len(requests)].kind}
        BY <2>2, <3>2, LastRequest
      <4>. QED  BY <3>2, <4>1, FS_Singleton
    <3>. QED  BY <3>1, <3>2
  <2>8. Branch # "else"
    <3>1. "else" \notin Kind
      BY DEF Kind
    <3>2. ~appl_init => requests[Len(requests)].kind \in Kind
      BY <2>2, LastRequest
    <3>3. CASE appl_init
      BY <2>2, <3>3, BranchFacts
    <3>4. CASE ~appl_init
      BY <2>2, <3>1, <3>2, <3>4, BranchFacts
    <3>. QED  BY <3>3, <3>4
  <2>9. created \subseteq Orders
    <3>1. created \subseteq 1 .. order_id
      BY <2>2, <2>4, CreatedFacts
    <3>. QED  BY <2>4, <3>1 DEF Orders
  <2>10. /\ exchId \in Orders \cup {0} /\ order_id \in Orders
         /\ recv \subseteq FlagSet
         /\ status \in {"running", "done", "lost"}
         /\ timely \subseteq 1 .. Len(requests)
    BY <2>2, <2>4 DEF HeardTypes, Orders
  <2>11. answered \in 0 .. Len(requests)
    BY <2>2 DEF Exchange
  <2>12. Len(requests) <= MaxRequests
    BY <2>1, <2>4 DEF MaxRequests
  <2>. QED
    BY <2>4, <2>5, <2>6, <2>7, <2>8, <2>9, <2>10, <2>11, <2>12 DEF TypeOK, FlagSet
<1>. QED  BY Invariance, <1>1, PTL

(* The client cancels orders that exist, whichever id it goes by, and the  *)
(* first two if it was told of them before it sent the next request.       *)
THEOREM CancelsCorrect == Spec => []Cancels
<1>1. ASSUME OInv
      PROVE  Cancels
  <2>1. Machine /\ CancelsCreated /\ Len(requests) \in Nat
    BY <1>1, Places DEF OInv
  <2>2. DOMAIN requests = 1 .. Len(requests)
    BY <2>1 DEF Machine
  <2>3. ASSUME status = "done", NEW i \in DOMAIN requests,
               Told(i), requests[i].order < 3
        PROVE  Cancelled(i)
    <3>1. order_id = 3 /\ ToldAreCancelled
      BY <1>1, <2>3 DEF OInv
    <3>2. Decided(i)
      BY <2>3, <3>1 DEF Decided
    <3>. QED  BY <2>2, <2>3, <3>1, <3>2 DEF ToldAreCancelled
  <2>4. \A i \in DOMAIN requests : Is(i, "orcn") => requests[i].order \in created
    BY <2>1, <2>2 DEF CancelsCreated
  <2>. QED  BY <2>2, <2>3, <2>4 DEF Cancels, Cancelled
<1>. QED  BY Invariance, <1>1, PTL

(* A test without errors had the first request of every kind answered in   *)
(* time.                                                                   *)
THEOREM CleanCorrect == Spec => []CleanMeansAnswered
<1>1. ASSUME OInv, status = "done", ~errors,
             NEW kind \in {"helo", "pdrq", "ornw", "oprq", "blrq"}
      PROVE  Min({i \in DOMAIN requests : Is(i, kind)}) \in timely
  <2>1. PICK n : n = Len(requests)
    OBVIOUS
  <2>2. Machine /\ Chained /\ Clean(Heard) /\ order_id = 3 /\ n >= 10 /\ n \in Nat
    BY <1>1, <2>1, Places DEF OInv
  <2>3. DOMAIN requests = 1 .. n
    BY <2>1, <2>2 DEF Machine
  <2>4. /\ 1 \in timely /\ 3 \in timely /\ 4 \in timely /\ 5 \in timely
        /\ \E j \in {6, 7} : Is(j, "blrq") /\ j \in timely /\ (j = 7 => ~Is(6, "blrq"))
    BY <1>1, <2>1, <2>2 DEF Clean, Heard
  <2>5. ASSUME NEW j \in 1 .. n, Is(j, kind), j \in timely,
               \A i \in 1 .. n : Is(i, kind) => j <= i
        PROVE  Min({i \in DOMAIN requests : Is(i, kind)}) \in timely
    <3>. DEFINE S == {i \in DOMAIN requests : Is(i, kind)}
    <3>1. S \in SUBSET Nat /\ j \in S /\ \A i \in S : j <= i
      BY <2>3, <2>5
    <3>2. Min(S) = j
      BY ONLY <3>1, MinFacts
    <3>. QED  BY <2>5, <3>2
  <2>6. /\ Is(1, "helo") /\ Is(3, "pdrq") /\ Is(4, "ornw") /\ Is(5, "oprq")
        /\ \A i \in 1 .. n : Is(i, "pdrq") => i = 3
        /\ \A i \in 1 .. n : Is(i, "ornw") => i = 4 \/ i >= 7
        /\ \A i \in 1 .. n : Is(i, "oprq") => i = 5 \/ i >= 8
        /\ \A i \in 1 .. n : Is(i, "blrq") => i >= 6
    <3>1. n >= 1 /\ n >= 3 /\ n >= 4 /\ n >= 5
      BY <2>2
    <3>2. Machine /\ Chained
      BY <2>2
    <3>. QED  BY ONLY <2>1, <3>1, <3>2, Places
  <2>7. CASE kind = "helo"
    BY <2>2, <2>4, <2>5, <2>6, <2>7
  <2>8. CASE kind = "pdrq"
    BY <2>2, <2>4, <2>5, <2>6, <2>8
  <2>9. CASE kind = "ornw"
    BY <2>2, <2>4, <2>5, <2>6, <2>9
  <2>10. CASE kind = "oprq"
    BY <2>2, <2>4, <2>5, <2>6, <2>10
  <2>11. CASE kind = "blrq"
    <3>1. PICK j \in {6, 7} :
            Is(j, "blrq") /\ j \in timely /\ (j = 7 => ~Is(6, "blrq"))
      BY <2>4
    <3>2. \A i \in 1 .. n : Is(i, "blrq") => j <= i
      BY <2>6, <3>1
    <3>3. j \in 1 .. n
      BY <2>2
    <3>. QED  BY <2>5, <2>11, <3>1, <3>2, <3>3
  <2>. QED  BY <2>7, <2>8, <2>9, <2>10, <2>11
<1>2. OInv => CleanMeansAnswered
  BY <1>1 DEF CleanMeansAnswered
<1>. QED  BY Invariance, <1>2, PTL
=============================================================================
