------------------------- MODULE McastSubPubProofs -------------------------
(***************************************************************************)
(* The safety properties of McastSubPub for every number of requests and   *)
(* of datagrams.                                                           *)
(*                                                                         *)
(* InOrder rests on the completion queue: it holds the last datagrams that *)
(* arrived, one behind the other, each still in the buffer of the slot     *)
(* that stands for it.  A datagram that arrives would overwrite one of     *)
(* them if its slot were armed and completed at once, which OneOwner       *)
(* excludes.  MInv is the conjunction.                                     *)
(***************************************************************************)
EXTENDS McastSubPub, FiniteSetTheorems, FunctionTheorems, TLAPS

(* The completion queue holds the last datagrams, the oldest first.        *)
LastInDone ==
  /\ Len(done) <= arrived
  /\ \A i \in 1 .. Len(done) : buffer[done[i]] = arrived - Len(done) + i
  /\ \A s \in Slot : buffer[s] <= arrived

MInv == TypeOK /\ OneOwner /\ LastInDone /\ InOrder

(* The submission queue has an entry for the request to put back.          *)
EntryFree ==
  done # <<>> => Cardinality({s \in Slot : queued[s] > 0}) < QueueSize

(* The places of slot s in a completion queue.                             *)
Places(q, s) == {i \in 1 .. Len(q) : q[i] = s}

----------------------------------------------------------------------------
(* The places are finite in number.                                        *)
LEMMA PlacesFinite ==
  ASSUME NEW q \in Seq(Slot), NEW s
  PROVE  IsFiniteSet(Places(q, s)) /\ Cardinality(Places(q, s)) \in Nat
<1>1. Len(q) \in Int /\ 1 \in Int
  OBVIOUS
<1>2. IsFiniteSet(1 .. Len(q))
  BY <1>1, FS_Interval
<1>3. Places(q, s) \in SUBSET (1 .. Len(q))
  BY DEF Places
<1>. QED  BY <1>2, <1>3, FS_Subset, FS_CardinalityType

(* Done counts the places.                                                 *)
LEMMA DonePlaces ==
  ASSUME done \in Seq(Slot)
  PROVE  /\ \A s \in Slot : Done(s) = Cardinality(Places(done, s))
         /\ \A s \in Slot : Done(s) \in Nat
         /\ \A s \in Slot : Done(s) = 0 <=> \A i \in 1 .. Len(done) : done[i] # s
<1>1. DOMAIN done = 1 .. Len(done)
  OBVIOUS
<1>2. \A s \in Slot : Done(s) = Cardinality(Places(done, s))
  BY <1>1 DEF Done, Places
<1>3. \A s \in Slot : Done(s) \in Nat
  BY <1>2, PlacesFinite
<1>4. ASSUME NEW s \in Slot
      PROVE  Done(s) = 0 <=> \A i \in 1 .. Len(done) : done[i] # s
  <2>1. Done(s) = 0 <=> Places(done, s) = {}
    BY <1>2, PlacesFinite, FS_EmptySet
  <2>. QED  BY <2>1 DEF Places
<1>. QED  BY <1>2, <1>3, <1>4

(* One completion more.                                                    *)
LEMMA PlacesAppend ==
  ASSUME NEW q \in Seq(Slot), NEW s \in Slot, NEW t \in Slot
  PROVE  Cardinality(Places(Append(q, s), t))
           = Cardinality(Places(q, t)) + (IF s = t THEN 1 ELSE 0)
<1>. DEFINE r == Append(q, s)
            n == Len(q)
<1>1. /\ n \in Nat /\ Len(r) = n + 1 /\ r[n + 1] = s
      /\ \A i \in 1 .. n : r[i] = q[i]
      /\ n + 1 \notin Places(q, t)
  BY DEF Places
<1>2. CASE s = t
  <2>1. Places(r, t) = Places(q, t) \cup {n + 1}
    <3>1. 1 .. Len(r) = (1 .. n) \cup {n + 1}
      BY <1>1
    <3>. HIDE DEF r, n
    <3>. QED  BY <1>1, <1>2, <3>1 DEF Places, n
  <2>. HIDE DEF r, n
  <2>2. IsFiniteSet(Places(q, t)) /\ n + 1 \notin Places(q, t)
    BY <1>1, PlacesFinite
  <2>3. Cardinality(Places(r, t)) = Cardinality(Places(q, t)) + 1
    BY <2>1, <2>2, FS_AddElement
  <2>. QED  BY ONLY <2>3, <1>2 DEF r
<1>3. CASE s # t
  <2>1. Places(r, t) = Places(q, t)
    <3>1. 1 .. Len(r) = (1 .. n) \cup {n + 1}
      BY <1>1
    <3>. HIDE DEF r, n
    <3>. QED  BY <1>1, <1>3, <3>1 DEF Places, n
  <2>. QED  BY <2>1, <1>3, PlacesFinite
<1>. QED  BY <1>2, <1>3

(* The oldest completion less.                                             *)
LEMMA PlacesTail ==
  ASSUME NEW q \in Seq(Slot), q # <<>>, NEW t \in Slot
  PROVE  Cardinality(Places(Tail(q), t))
           = Cardinality(Places(q, t)) - (IF q[1] = t THEN 1 ELSE 0)
<1>. DEFINE r == Tail(q)
            n == Len(q)
            P == Places(r, t)
            Q == Places(q, t) \ {1}
            f == [i \in P |-> i + 1]
<1>1. /\ n \in Nat \ {0} /\ Len(r) = n - 1
      /\ \A i \in 1 .. n - 1 : r[i] = q[i + 1]
      /\ r \in Seq(Slot)
  OBVIOUS
<1>. HIDE DEF r, n
<1>2. f \in [P -> Q]
  <2>. SUFFICES ASSUME NEW i \in P
                PROVE  i + 1 \in Q
    OBVIOUS
  <2>1. i \in 1 .. n - 1 /\ r[i] = t
    BY <1>1 DEF Places
  <2>. QED  BY <2>1, <1>1 DEF Places, n
<1>3. \A a, b \in P : f[a] = f[b] => a = b
  BY DEF Places
<1>4. \A b \in Q : \E a \in P : f[a] = b
  <2>. SUFFICES ASSUME NEW b \in Q
                PROVE  \E a \in P : f[a] = b
    OBVIOUS
  <2>1. b \in 2 .. n /\ q[b] = t
    BY <1>1 DEF Places, n
  <2>2. b - 1 \in 1 .. n - 1 /\ r[b - 1] = t /\ (b - 1) + 1 = b
    BY <2>1, <1>1
  <2>3. b - 1 \in P
    BY <2>2, <1>1 DEF Places
  <2>. QED  BY <2>2, <2>3
<1>5. IsFiniteSet(P) /\ IsFiniteSet(Places(q, t)) /\ Cardinality(Places(q, t)) \in Nat
  BY <1>1, PlacesFinite
<1>6. Cardinality(P) = Cardinality(Q)
  <2>. HIDE DEF P, Q, f
  <2>1. f \in Bijection(P, Q)
    BY <1>2, <1>3, <1>4, Fun_IsBij
  <2>. QED  BY <2>1, <1>5, FS_Bijection DEF ExistsBijection
<1>7. 1 \in Places(q, t) <=> q[1] = t
  BY <1>1 DEF Places, n
<1>8. Cardinality(Q) = IF q[1] = t THEN Cardinality(Places(q, t)) - 1
                                   ELSE Cardinality(Places(q, t))
  BY <1>5, <1>7, FS_RemoveElement
<1>. QED  BY <1>5, <1>6, <1>8 DEF r

----------------------------------------------------------------------------
(* What a step uses of the invariant.                                      *)
LEMMA Facts ==
  ASSUME MInv
  PROVE  /\ queued \in [Slot -> Nat] /\ armed \in [Slot -> Nat]
         /\ done \in Seq(Slot) /\ Len(done) \in Nat /\ Len(done) <= arrived
         /\ buffer \in [Slot -> 0 .. Last]
         /\ arrived \in 0 .. Last /\ arrived \in Nat /\ Last \in Nat
         /\ deferred \subseteq Sending /\ out \subseteq Sent
BY McastAssumption DEF MInv, TypeOK, LastInDone

(* The threads are started with every request submitted.                   *)
LEMMA InitInv == Init => MInv
<1>. SUFFICES ASSUME Init
              PROVE  MInv
  OBVIOUS
<1>1. TypeOK
  BY McastAssumption DEF Init, TypeOK, Zero
<1>2. OneOwner
  <2>. SUFFICES ASSUME NEW s \in Slot
                PROVE  queued[s] + armed[s] + Done(s) = 1
    BY DEF OneOwner
  <2>1. done \in Seq(Slot) /\ Len(done) = 0
    BY DEF Init
  <2>2. Done(s) = 0
    BY <2>1, DonePlaces
  <2>. QED  BY <2>2 DEF Init, Zero
<1>3. LastInDone
  BY McastAssumption DEF Init, LastInDone, Zero
<1>4. InOrder
  <2>1. {o.meant : o \in out} \cup {d.meant : d \in deferred} = {}
    BY DEF Init
  <2>2. 1 .. (arrived - Len(done)) = {}
    BY DEF Init
  <2>. QED  BY <2>1, <2>2 DEF Init, InOrder, NeverOlder
<1>. QED  BY <1>1, <1>2, <1>3, <1>4 DEF MInv

(* The kernel thread takes a receive.                                      *)
LEMMA TakeStep ==
  ASSUME MInv, NEW s \in Slot, Take(s)
  PROVE  MInv'
<1>1. TypeOK'
  <2>1. queued' \in [Slot -> Nat]
    BY Facts DEF Take
  <2>2. armed' \in [Slot -> Nat]
    BY Facts DEF Take
  <2>3. UNCHANGED <<done, buffer, arrived, deferred, out, pc, receive, running>>
    BY DEF Take
  <2>. QED  BY <2>1, <2>2, <2>3 DEF MInv, TypeOK
<1>2. OneOwner'
  <2>. SUFFICES ASSUME NEW t \in Slot
                PROVE  queued'[t] + armed'[t] + Done(t)' = 1
    BY DEF OneOwner
  <2>1. Done(t)' = Done(t) /\ Done(t) \in Nat
    BY Facts, DonePlaces DEF Take, Done
  <2>2. queued[t] + armed[t] + Done(t) = 1
    BY DEF MInv, OneOwner
  <2>. HIDE DEF Done
  <2>. QED  BY <2>1, <2>2, Facts DEF Take
<1>3. LastInDone'
  BY DEF Take, MInv, LastInDone
<1>4. InOrder'
  BY DEF Take, MInv, InOrder, NeverOlder
<1>. QED  BY <1>1, <1>2, <1>3, <1>4 DEF MInv

(* A datagram arrives in a slot that is not in the completion queue.       *)
LEMMA ArriveStep ==
  ASSUME MInv, NEW s \in Slot, Arrive(s)
  PROVE  MInv'
<1>1. /\ arrived < Last /\ armed[s] > 0
      /\ armed' = [armed EXCEPT ![s] = @ - 1]
      /\ arrived' = arrived + 1
      /\ buffer' = [buffer EXCEPT ![s] = arrived + 1]
      /\ done' = Append(done, s)
      /\ UNCHANGED <<queued, deferred, out, pc, receive, running>>
  BY DEF Arrive
<1>2. /\ done' \in Seq(Slot) /\ Len(done') = Len(done) + 1
      /\ \A i \in 1 .. Len(done) : done'[i] = done[i]
      /\ done'[Len(done) + 1] = s
  BY <1>1, Facts
<1>3. \A i \in 1 .. Len(done) : done[i] # s
  <2>1. queued[s] + armed[s] + Done(s) = 1 /\ Done(s) \in Nat
    BY Facts, DonePlaces DEF MInv, OneOwner
  <2>. HIDE DEF Done
  <2>2. Done(s) = 0
    BY <2>1, <1>1, Facts
  <2>. QED  BY <2>2, Facts, DonePlaces
<1>4. TypeOK'
  <2>1. armed' \in [Slot -> Nat]
    <3>1. armed \in [Slot -> Nat] /\ armed[s] - 1 \in Nat
      BY <1>1, Facts
    <3>. QED  BY <3>1, <1>1
  <2>2. arrived' \in 0 .. Last /\ buffer' \in [Slot -> 0 .. Last]
    <3>1. arrived + 1 \in 0 .. Last /\ buffer \in [Slot -> 0 .. Last]
      BY <1>1, Facts DEF MInv, TypeOK
    <3>. QED  BY <3>1, <1>1
  <2>. QED  BY <1>1, <1>2, <2>1, <2>2 DEF MInv, TypeOK
<1>5. OneOwner'
  <2>. SUFFICES ASSUME NEW t \in Slot
                PROVE  queued'[t] + armed'[t] + Done(t)' = 1
    BY DEF OneOwner
  <2>1. Done(t) = Cardinality(Places(done, t)) /\ Done(t) \in Nat
    BY Facts, DonePlaces
  <2>2. Done(t)' = Cardinality(Places(done', t))
    <3>1. DOMAIN done' = 1 .. Len(done')
      BY <1>2
    <3>. QED  BY <3>1 DEF Done, Places
  <2>3. Done(t)' = Done(t) + (IF s = t THEN 1 ELSE 0)
    <3>1. /\ Cardinality(Places(Append(done, s), t))
               = Cardinality(Places(done, t)) + (IF s = t THEN 1 ELSE 0)
      BY Facts, PlacesAppend
    <3>2. done' = Append(done, s)
      BY <1>1
    <3>. QED  BY ONLY <3>1, <3>2, <2>1, <2>2
  <2>4. queued[t] + armed[t] + Done(t) = 1
    BY DEF MInv, OneOwner
  <2>. HIDE DEF Done
  <2>5. queued'[t] = queued[t] /\ queued[t] \in Nat
    BY <1>1, Facts
  <2>6. armed'[t] = (IF s = t THEN armed[t] - 1 ELSE armed[t]) /\ armed[t] \in Nat
    BY <1>1, Facts
  <2>. QED  BY ONLY <2>1, <2>3, <2>4, <2>5, <2>6
<1>6. LastInDone'
  <2>1. ASSUME NEW i \in 1 .. Len(done')
        PROVE  buffer'[done'[i]] = arrived' - Len(done') + i
    <3>1. CASE i = Len(done) + 1
      BY <3>1, <1>1, <1>2, Facts
    <3>2. CASE i # Len(done) + 1
      <4>1. i \in 1 .. Len(done)
        BY <3>2, <1>2, Facts
      <4>2. done[i] \in Slot
        BY <4>1, Facts
      <4>3. done'[i] = done[i]
        BY <4>1, <1>2
      <4>4. buffer'[done[i]] = buffer[done[i]]
        BY <4>1, <4>2, <1>1, <1>3, Facts
      <4>5. buffer[done[i]] = arrived - Len(done) + i
        BY <4>1 DEF MInv, LastInDone
      <4>. QED  BY <4>1, <4>3, <4>4, <4>5, <1>1, <1>2, Facts
    <3>. QED  BY <3>1, <3>2
  <2>2. ASSUME NEW t \in Slot
        PROVE  buffer'[t] <= arrived'
    <3>1. buffer[t] <= arrived
      BY DEF MInv, LastInDone
    <3>2. buffer'[t] = IF t = s THEN arrived + 1 ELSE buffer[t]
      BY <1>1, Facts
    <3>3. buffer[t] \in Nat /\ arrived \in Nat /\ arrived' = arrived + 1
      BY <1>1, Facts
    <3>. QED  BY ONLY <3>1, <3>2, <3>3
  <2>3. Len(done') <= arrived'
    BY <1>1, <1>2, Facts
  <2>. QED  BY <2>1, <2>2, <2>3 DEF LastInDone
<1>7. InOrder'
  <2>1. arrived' - Len(done') = arrived - Len(done)
    BY <1>1, <1>2, Facts
  <2>2. ASSUME NEW d \in deferred
        PROVE  buffer'[d.slot] >= d.meant
    <3>1. d.slot \in Slot /\ d.meant \in Nat /\ buffer[d.slot] >= d.meant
      BY Facts DEF Sending, MInv, InOrder, NeverOlder
    <3>2. buffer[d.slot] <= arrived
      BY <3>1 DEF MInv, LastInDone
    <3>. QED  BY <3>1, <3>2, <1>1, Facts
  <2>. QED  BY <2>1, <2>2, <1>1 DEF MInv, InOrder, NeverOlder
<1>. QED  BY <1>4, <1>5, <1>6, <1>7 DEF MInv

(***************************************************************************)
(* A send that was put off happens: the datagram it meant stays among      *)
(* those handed over, and what it sends is not older.                      *)
(***************************************************************************)
LEMMA SendLaterStep ==
  ASSUME MInv, NEW d \in deferred, SendLater(d)
  PROVE  MInv'
<1>. DEFINE o == [meant |-> d.meant, sent |-> buffer[d.slot], late |-> TRUE]
<1>1. /\ deferred' = deferred \ {d}
      /\ out' = out \cup {o}
      /\ UNCHANGED <<queued, armed, done, buffer, arrived, pc, receive, running>>
  BY DEF SendLater, kernelVars
<1>2. /\ d.slot \in Slot /\ d.meant \in 1 .. Last
      /\ buffer[d.slot] >= d.meant /\ buffer[d.slot] \in 0 .. Last
  BY Facts DEF Sending, MInv, InOrder, NeverOlder
<1>3. o \in Sent
  BY <1>2, Facts DEF Sent
<1>4. TypeOK'
  BY <1>1, <1>3 DEF MInv, TypeOK
<1>5. OneOwner'
  BY <1>1 DEF MInv, OneOwner, Done
<1>6. LastInDone'
  BY <1>1 DEF MInv, LastInDone
<1>7. InOrder'
  <2>1. {x.meant : x \in out'} \cup {e.meant : e \in deferred'}
          = {x.meant : x \in out} \cup {e.meant : e \in deferred}
    <3>1. o.meant = d.meant
      OBVIOUS
    <3>. HIDE DEF o
    <3>. QED  BY <3>1, <1>1
  <2>2. IF o.late THEN o.sent >= o.meant ELSE o.sent = o.meant
    BY <1>2
  <2>. HIDE DEF o
  <2>3. NeverOlder'
    BY <2>2, <1>1 DEF MInv, InOrder, NeverOlder
  <2>. QED  BY <2>1, <2>3, <1>1 DEF MInv, InOrder
<1>. QED  BY <1>4, <1>5, <1>6, <1>7 DEF MInv

(***************************************************************************)
(* The oldest completion is handed over: it is the next datagram after     *)
(* those handed over before.                                               *)
(***************************************************************************)
LEMMA HandleStep ==
  ASSUME MInv, Handle
  PROVE  MInv'
<1>. DEFINE s == Head(done)
            m == buffer[s]
            o == [meant |-> m, sent |-> m, late |-> FALSE]
            d == [slot |-> s, meant |-> m]
<1>1. /\ done # <<>> /\ done' = Tail(done)
      /\ queued' = [queued EXCEPT ![s] = @ + 1]
      /\ pc' = "head"
      /\ UNCHANGED <<armed, buffer, arrived, receive, running>>
  BY DEF Handle, Seen, SetupQueueEntry
<1>2. \/ out' = out \cup {o} /\ deferred' = deferred
      \/ out' = out /\ deferred' = deferred \cup {d}
  BY DEF Handle, SendMessage
<1>3. /\ s = done[1] /\ s \in Slot /\ Len(done) \in Nat \ {0}
      /\ done' \in Seq(Slot) /\ Len(done') = Len(done) - 1
      /\ \A i \in 1 .. Len(done) - 1 : done'[i] = done[i + 1]
  BY <1>1, Facts
<1>. HIDE DEF s
<1>4. m = arrived - Len(done) + 1 /\ m \in 1 .. Last
  <2>1. buffer[done[1]] = arrived - Len(done) + 1
    BY <1>3 DEF MInv, LastInDone
  <2>. QED  BY <2>1, <1>3, Facts
<1>. HIDE DEF m
<1>5. /\ o \in Sent /\ o.meant = m
      /\ IF o.late THEN o.sent >= o.meant ELSE o.sent = o.meant
      /\ d \in Sending /\ d.meant = m /\ buffer[d.slot] >= d.meant
  <2>1. m >= m
    BY <1>4, Facts
  <2>2. d.slot = s
    OBVIOUS
  <2>. QED  BY <2>1, <2>2, <1>3, <1>4 DEF Sent, Sending, m
<1>. HIDE DEF o, d
<1>6. TypeOK'
  <2>1. deferred' \subseteq Sending /\ out' \subseteq Sent
    BY <1>2, <1>5, Facts
  <2>. QED  BY <2>1, <1>1, <1>3 DEF MInv, TypeOK
<1>7. OneOwner'
  <2>. SUFFICES ASSUME NEW t \in Slot
                PROVE  queued'[t] + armed'[t] + Done(t)' = 1
    BY DEF OneOwner
  <2>1. Done(t) = Cardinality(Places(done, t)) /\ Done(t) \in Nat
    BY Facts, DonePlaces
  <2>2. Done(t)' = Cardinality(Places(done', t))
    <3>1. DOMAIN done' = 1 .. Len(done')
      BY <1>3
    <3>. QED  BY <3>1 DEF Done, Places
  <2>3. Done(t)' = Done(t) - (IF s = t THEN 1 ELSE 0)
    <3>1. done \in Seq(Slot) /\ done # <<>> /\ done[1] = s
      BY <1>1, <1>3, Facts
    <3>2. Cardinality(Places(Tail(done), t))
            = Cardinality(Places(done, t)) - (IF done[1] = t THEN 1 ELSE 0)
      BY <3>1, PlacesTail
    <3>3. done' = Tail(done)
      BY <1>1
    <3>. QED  BY ONLY <3>1, <3>2, <3>3, <2>1, <2>2
  <2>4. queued[t] + armed[t] + Done(t) = 1
    BY DEF MInv, OneOwner
  <2>5. /\ queued'[t] = queued[t] + (IF s = t THEN 1 ELSE 0)
        /\ armed'[t] = armed[t] /\ queued[t] \in Nat /\ armed[t] \in Nat
    BY <1>1, Facts
  <2>. HIDE DEF Done
  <2>. QED  BY <2>1, <2>3, <2>4, <2>5
<1>8. LastInDone'
  <2>1. ASSUME NEW i \in 1 .. Len(done')
        PROVE  buffer'[done'[i]] = arrived' - Len(done') + i
    <3>1. i + 1 \in 1 .. Len(done) /\ done'[i] = done[i + 1]
      BY <1>3
    <3>2. buffer[done[i + 1]] = arrived - Len(done) + (i + 1)
      BY <3>1 DEF MInv, LastInDone
    <3>3. arrived' = arrived /\ buffer' = buffer /\ Len(done') = Len(done) - 1
      BY <1>1, <1>3
    <3>4. arrived - (Len(done) - 1) + i = arrived - Len(done) + (i + 1)
      BY Facts, <1>3
    <3>. QED  BY <3>1, <3>2, <3>3, <3>4
  <2>2. Len(done') <= arrived'
    BY <1>1, <1>3, Facts
  <2>. QED  BY <2>1, <2>2, <1>1 DEF MInv, LastInDone
<1>9. InOrder'
  <2>1. {x.meant : x \in out'} \cup {e.meant : e \in deferred'}
          = {x.meant : x \in out} \cup {e.meant : e \in deferred} \cup {m}
    BY <1>2, <1>5
  <2>2. 1 .. (arrived' - Len(done')) = 1 .. (arrived - Len(done)) \cup {m}
    <3>. DEFINE k == arrived - Len(done)
    <3>1. k \in Nat /\ arrived' - Len(done') = k + 1 /\ m = k + 1
      <4>1. arrived' = arrived /\ Len(done') = Len(done) - 1
        BY <1>1, <1>3
      <4>2. arrived \in Nat /\ Len(done) \in Nat /\ Len(done) <= arrived
        BY Facts
      <4>3. m = arrived - Len(done) + 1
        BY <1>4
      <4>. QED  BY ONLY <4>1, <4>2, <4>3
    <3>. HIDE DEF k
    <3>2. 1 .. (k + 1) = 1 .. k \cup {k + 1}
      BY <3>1
    <3>. QED  BY <3>1, <3>2 DEF k
  <2>3. NeverOlder'
    BY <1>1, <1>2, <1>5 DEF MInv, InOrder, NeverOlder
  <2>. QED  BY <2>1, <2>2, <2>3 DEF MInv, InOrder
<1>. QED  BY <1>6, <1>7, <1>8, <1>9 DEF MInv

----------------------------------------------------------------------------
(* Steps of the threads that touch no request keep the invariant.          *)
LEMMA QuietStep ==
  ASSUME MInv, UNCHANGED <<queued, armed, done, buffer, arrived, deferred, out>>,
         pc' \in {"head", "wait", "outer", "end"},
         receive' \in BOOLEAN, running' \in BOOLEAN
  PROVE  MInv'
BY DEF MInv, TypeOK, OneOwner, Done, LastInDone, InOrder, NeverOlder

(* Every step keeps the invariant.                                         *)
LEMMA NextStep == MInv /\ [Next]_vars => MInv'
<1>. SUFFICES ASSUME MInv, [Next]_vars
              PROVE  MInv'
  OBVIOUS
<1>0. /\ pc \in {"head", "wait", "outer", "end"}
      /\ receive \in BOOLEAN /\ running \in BOOLEAN
  BY DEF MInv, TypeOK
<1>1. CASE Loop
  BY <1>0, <1>1, QuietStep DEF Loop, kernelVars
<1>2. CASE Outer
  BY <1>0, <1>2, QuietStep DEF Outer, kernelVars
<1>3. CASE Handle
  BY <1>3, HandleStep
<1>4. CASE Fails
  BY <1>0, <1>4, QuietStep DEF Fails, kernelVars
<1>5. CASE StopReceiver
  BY <1>0, <1>5, QuietStep DEF StopReceiver, kernelVars
<1>6. CASE StopRunning
  BY <1>0, <1>6, QuietStep DEF StopRunning, kernelVars
<1>7. ASSUME NEW s \in Slot, Take(s) \/ Arrive(s)
      PROVE  MInv'
  BY <1>7, TakeStep, ArriveStep
<1>8. ASSUME NEW d \in deferred, SendLater(d)
      PROVE  MInv'
  BY <1>8, SendLaterStep
<1>9. CASE UNCHANGED vars
  BY <1>0, <1>9, QuietStep DEF vars
<1>. QED  BY <1>1, <1>2, <1>3, <1>4, <1>5, <1>6, <1>7, <1>8, <1>9 DEF Next, Main

(* MInv holds in every state of the repeater.                              *)
THEOREM Invariance == Spec => []MInv
<1>. QED  BY InitInv, NextStep, PTL DEF Spec

(* Every variable has its type.                                            *)
THEOREM TypeCorrect == Spec => []TypeOK
<1>1. MInv => TypeOK
  BY DEF MInv
<1>. QED  BY <1>1, Invariance, PTL

(* Every request of the receiver is in flight exactly once.                *)
THEOREM OwnedOnce == Spec => []OneOwner
<1>1. MInv => OneOwner
  BY DEF MInv
<1>. QED  BY <1>1, Invariance, PTL

(***************************************************************************)
(* The publisher gets the datagrams in the order of arrival and all of     *)
(* them, and none goes out older than it was handed over.                  *)
(***************************************************************************)
THEOREM HandedInOrder == Spec => []InOrder
<1>1. MInv => InOrder
  BY DEF MInv
<1>. QED  BY <1>1, Invariance, PTL

(***************************************************************************)
(* SetupQueueEntry does not look at what io_uring_get_sqe returns; it need *)
(* not: when a completion is there, the queue has a free entry for the     *)
(* request of that completion.                                             *)
(***************************************************************************)
THEOREM QueueNeverFull == Spec => []EntryFree
<1>1. ASSUME MInv
      PROVE  EntryFree
  <2>. SUFFICES ASSUME done # <<>>
                PROVE  Cardinality({s \in Slot : queued[s] > 0}) < QueueSize
    BY DEF EntryFree
  <2>. DEFINE Q == {s \in Slot : queued[s] > 0}
              h == done[1]
  <2>1. h \in Slot /\ 1 \in 1 .. Len(done)
    BY <1>1, Facts
  <2>2. Done(h) \in Nat /\ Done(h) # 0
    BY <1>1, <2>1, Facts, DonePlaces
  <2>3. queued[h] + armed[h] + Done(h) = 1
    BY <1>1, <2>1 DEF MInv, OneOwner
  <2>4. h \notin Q
    <3>. HIDE DEF Done, h
    <3>1. queued[h] \in Nat /\ armed[h] \in Nat
      BY <1>1, <2>1, Facts
    <3>2. ~ (queued[h] > 0)
      BY ONLY <3>1, <2>2, <2>3
    <3>. QED  BY <3>2
  <2>. HIDE DEF h
  <2>5. Q \in SUBSET (Slot \ {h})
    BY <2>4
  <2>6. /\ IsFiniteSet(Slot \ {h})
        /\ Cardinality(Slot \ {h}) = Cardinality(Slot) - 1
        /\ Cardinality(Slot) \in Nat
    BY <2>1, McastAssumption, FS_RemoveElement, FS_CardinalityType
  <2>7. Cardinality(Q) <= Cardinality(Slot \ {h}) /\ IsFiniteSet(Q)
    BY <2>5, <2>6, FS_Subset
  <2>8. Cardinality(Q) \in Nat
    BY <2>7, FS_CardinalityType
  <2>. QED  BY <2>6, <2>7, <2>8, McastAssumption
<1>. QED  BY <1>1, Invariance, PTL
=============================================================================
