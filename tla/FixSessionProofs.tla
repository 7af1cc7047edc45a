-------------------------- MODULE FixSessionProofs --------------------------
(***************************************************************************)
(* The safety properties of a FIX session, for every stream of messages,   *)
(* every size of the buffer and every setting of the timer.                *)
(***************************************************************************)
EXTENDS FixSession, FiniteSetTheorems, SequenceTheorems, WellFoundedInduction, TLAPS

(***************************************************************************)
(* The timer.  A wait ends at most one interval from now, and if a Logon   *)
(* set the timer there is a wait, which has not ended, or a handler is     *)
(* queued.  The interval changes only in a Logon, which sets the timer     *)
(* anew: so while the peer is silent and this was not reported, the wait   *)
(* ends within three intervals of the last message.                        *)
(***************************************************************************)
TimerInv ==
  /\ expiry # NoWait => expiry <= now + hbInterval
  /\ watching => expiry # NoWait \/ queued > 0
  /\ watching /\ expiry # NoWait => now <= expiry
  /\ watching /\ ~noticed /\ expiry # NoWait =>
       expiry <= lastMsgRecvTm + 3 * hbInterval

(* Without a connection only a handler that was queued can wait again.     *)
CancelInv == ~connected /\ (expiry # NoWait \/ queued > 0) => strayed

SessionInv ==
  /\ SessionTypeOK
  /\ TimerInv
  /\ SilenceNoticed
  /\ CancelInv
  /\ NumberedOnce

----------------------------------------------------------------------------
(* Induction.  Its steps are stated for sets of numbers: a property P of   *)
(* the numbers is the set {n \in Nat : P(n)}.                              *)

(* A set of numbers that has one has a least one.                          *)
LEMMA LeastOf ==
  ASSUME NEW T \in SUBSET Nat, T # {}
  PROVE  \E m \in T : \A k \in T : m <= k
<1>. DEFINE R == OpToRel(<, Nat)
<1>1. IsWellFoundedOn(R, Nat)
  BY NatLessThanWellFounded
<1>2. \A a, b \in Nat : a < b => <<a, b>> \in R
  BY DEF OpToRel
<1>. HIDE DEF R
<1>3. PICK m \in T : \A k \in T : <<k, m>> \notin R
  BY <1>1, WFMin
<1>4. ASSUME NEW k \in T
      PROVE  m <= k
  <2>1. k \in Nat /\ m \in Nat /\ ~(k < m)
    BY <1>2, <1>3
  <2>. QED  BY <2>1
<1>. QED  BY <1>4

(* Induction over the natural numbers.                                     *)
LEMMA Induction ==
  ASSUME NEW S \in SUBSET Nat, 0 \in S, \A n \in S : n + 1 \in S
  PROVE  S = Nat
<1>. SUFFICES ASSUME Nat \ S # {}
              PROVE  FALSE
  OBVIOUS
<1>1. PICK m \in Nat \ S : \A k \in Nat \ S : m <= k
  BY LeastOf
<1>2. m # 0 /\ m - 1 \in Nat
  BY <1>1
<1>3. m - 1 \in S
  BY <1>1, <1>2
<1>4. (m - 1) + 1 \in S
  BY <1>3
<1>. QED  BY <1>1, <1>2, <1>4

(* A set of numbers that has one, and a bound, has a greatest one.         *)
LEMMA MaxFacts ==
  ASSUME NEW n \in Nat, NEW x \in SUBSET (1 .. n), x # {}
  PROVE  Max(x) \in x /\ \A y \in x : y <= Max(x)
<1>. DEFINE T == {u \in Nat : \A y \in x : y <= u}
<1>1. n \in T
  OBVIOUS
<1>2. PICK m \in T : \A k \in T : m <= k
  BY <1>1, LeastOf
<1>3. m \in x
  <2>. SUFFICES ASSUME m \notin x
                PROVE  FALSE
    OBVIOUS
  <2>1. \A y \in x : y \in Nat /\ y # 0 /\ y <= m /\ y # m
    BY <1>2
  <2>2. m - 1 \in Nat /\ \A y \in x : y <= m - 1
    <3>1. PICK y \in x : TRUE
      OBVIOUS
    <3>2. m \in Nat /\ y \in Nat /\ y # 0 /\ y <= m
      BY <2>1
    <3>3. m - 1 \in Nat
      BY <3>2
    <3>. QED  BY <2>1, <3>2, <3>3
  <2>3. m <= m - 1
    BY <2>2, <1>2
  <2>. QED  BY <2>2, <2>3
<1>4. \E y \in x : \A z \in x : y >= z
  BY <1>2, <1>3
<1>. QED  BY <1>4 DEF Max

----------------------------------------------------------------------------
(* The loop over the messages of one read.                                 *)

(***************************************************************************)
(* What holds before the loop and is kept by each message that can be in   *)
(* the sequence holds after it.                                            *)
(***************************************************************************)
LEMMA FoldFacts ==
  ASSUME NEW ms, NEW n \in Nat, DOMAIN ms = 1 .. n,
         NEW before, NEW Good, before \in Good,
         \A s \in Good, i \in 1 .. n : ParseFixMsg(s, ms[i]) \in Good
  PROVE  FoldLeft(ParseFixMsg, before, ms) \in Good
<1>. DEFINE D == 1 .. n
            next(g, x) == IF x = {} THEN before
                          ELSE ParseFixMsg(g[x \ {Max(x)}], ms[Max(x)])
            Solves(g, k) ==
              g = [x \in SUBSET D |->
                     IF Cardinality(x) > k THEN before ELSE next(g, x)]
            iter == CHOOSE g : g = [x \in SUBSET D |-> next(g, x)]
<1>1. FoldLeft(ParseFixMsg, before, ms) = iter[D]
  BY DEF FoldLeft, MapThenFoldSet
<1>2. IsFiniteSet(D) /\ Cardinality(D) = n
  <2>1. 1 \in Int /\ n \in Int
    OBVIOUS
  <2>. QED  BY <2>1, FS_Interval
<1>3. \A x \in SUBSET D : IsFiniteSet(x) /\ Cardinality(x) \in Nat /\ Cardinality(x) <= n
  <2>. SUFFICES ASSUME NEW x \in SUBSET D
                PROVE  IsFiniteSet(x) /\ Cardinality(x) \in Nat /\ Cardinality(x) <= n
    OBVIOUS
  <2>. HIDE DEF D
  <2>1. IsFiniteSet(x) /\ Cardinality(x) <= Cardinality(D)
    BY <1>2, FS_Subset
  <2>. QED  BY <2>1, <1>2, FS_CardinalityType
<1>4. ASSUME NEW x \in SUBSET D, x # {}
      PROVE  /\ Max(x) \in x /\ Max(x) \in D
             /\ x \ {Max(x)} \in SUBSET D
             /\ Cardinality(x \ {Max(x)}) = Cardinality(x) - 1
  <2>1. Max(x) \in x
    BY <1>4, MaxFacts
  <2>. QED  BY <2>1, <1>3, FS_RemoveElement
<1>5. \A x \in SUBSET D : Cardinality(x) = 0 <=> x = {}
  BY <1>3, FS_EmptySet
<1>. HIDE DEF D
<1>6. \E g : g = [x \in SUBSET D |-> next(g, x)]
  <2>. DEFINE S == {k \in Nat : \E g : Solves(g, k)}
  <2>1. 0 \in S
    <3>. DEFINE g == [x \in SUBSET D |-> before]
    <3>1. Solves(g, 0)
      BY <1>3, <1>5
    <3>. QED  BY <3>1
  <2>2. ASSUME NEW k \in S
        PROVE  k + 1 \in S
    <3>1. PICK g : Solves(g, k)
      OBVIOUS
    <3>. DEFINE h == [x \in SUBSET D |->
                        IF Cardinality(x) > k + 1 THEN before ELSE next(g, x)]
    <3>2. ASSUME NEW x \in SUBSET D, x # {}, Cardinality(x) <= k + 1
          PROVE  h[x \ {Max(x)}] = g[x \ {Max(x)}]
      <4>. DEFINE y == x \ {Max(x)}
      <4>1. y \in SUBSET D /\ Cardinality(y) = Cardinality(x) - 1
        BY <3>2, <1>4
      <4>. HIDE DEF y
      <4>2. ~(Cardinality(y) > k) /\ ~(Cardinality(y) > k + 1)
        BY <4>1, <3>2, <1>3
      <4>. HIDE DEF next
      <4>3. g[y] = next(g, y)
        BY <4>1, <4>2, <3>1
      <4>4. h[y] = next(g, y)
        BY <4>1, <4>2
      <4>. QED  BY <4>3, <4>4 DEF y
    <3>3. \A x \in SUBSET D :
            h[x] = IF Cardinality(x) > k + 1 THEN before ELSE next(h, x)
      <4>. SUFFICES ASSUME NEW x \in SUBSET D, ~(Cardinality(x) > k + 1)
                    PROVE  next(h, x) = next(g, x)
        OBVIOUS
      <4>1. Cardinality(x) <= k + 1
        BY <1>3
      <4>. HIDE DEF h
      <4>. QED  BY <4>1, <3>2
    <3>4. Solves(h, k + 1)
      <4>1. h = [x \in SUBSET D |-> h[x]]
        OBVIOUS
      <4>. HIDE DEF h, next
      <4>. QED  BY <4>1, <3>3
    <3>. HIDE DEF Solves
    <3>. QED  BY <3>4
  <2>. HIDE DEF Solves
  <2>3. S = Nat
    BY <2>1, <2>2, Induction
  <2>4. PICK g : Solves(g, n)
    BY <2>3
  <2>5. \A x \in SUBSET D : ~(Cardinality(x) > n)
    BY <1>3
  <2>6. g = [x \in SUBSET D |-> next(g, x)]
    <3>. HIDE DEF next
    <3>. QED  BY <2>4, <2>5 DEF Solves
  <2>. QED  BY <2>6
<1>7. iter = [x \in SUBSET D |-> next(iter, x)]
  <2>. HIDE DEF next
  <2>. QED  BY <1>6
<1>. HIDE DEF iter
<1>8. \A x \in SUBSET D : iter[x] \in Good
  <2>. DEFINE S == {k \in Nat : \A x \in SUBSET D : Cardinality(x) = k => iter[x] \in Good}
  <2>1. 0 \in S
    BY <1>5, <1>7
  <2>2. ASSUME NEW k \in S
        PROVE  k + 1 \in S
    <3>. SUFFICES ASSUME NEW x \in SUBSET D, Cardinality(x) = k + 1
                  PROVE  iter[x] \in Good
      OBVIOUS
    <3>1. x # {}
      BY <1>5
    <3>2. /\ Cardinality(x \ {Max(x)}) = (k + 1) - 1 /\ x \ {Max(x)} \in SUBSET D
          /\ Max(x) \in D /\ k \in Nat
      BY <3>1, <1>4
    <3>3. iter[x \ {Max(x)}] \in Good
      BY <3>2
    <3>4. iter[x] = ParseFixMsg(iter[x \ {Max(x)}], ms[Max(x)])
      BY <3>1, <1>7
    <3>. QED  BY <3>2, <3>3, <3>4 DEF D
  <2>. HIDE DEF S
  <2>3. S = Nat
    BY <2>1, <2>2, Induction DEF S
  <2>. QED  BY <2>3, <1>3 DEF S
<1>. QED  BY <1>1, <1>8

----------------------------------------------------------------------------
(* The session: timer, connection and numbers.                             *)

(* The types as the steps below use them.                                  *)
LEMMA SessionFacts ==
  ASSUME SessionTypeOK
  PROVE  /\ connected \in BOOLEAN /\ watching \in BOOLEAN
         /\ noticed \in BOOLEAN /\ strayed \in BOOLEAN
         /\ now \in Nat /\ now \in 1 .. MaxTime
         /\ hbInterval \in Nat /\ hbInterval > 0
         /\ lastMsgRecvTm \in 1 .. now /\ lastMsgRecvTm \in Nat
         /\ expiry \in Nat /\ queued \in Nat
         /\ msgSeqNum \in Nat /\ msgSeqNum \in 1 .. MaxSeqNum + 1
         /\ MaxTime \in Nat /\ MaxSeqNum \in Nat /\ HbLimit \in Nat
         /\ DefaultHb \in Nat /\ DefaultHb > 0
BY HandlerAssumption DEF SessionTypeOK

(* Every interval a Logon can bring about is one.                          *)
Interval == (1 .. HbLimit - 1) \cup {DefaultHb}

(* What the loop over the messages may make of the session.                *)
Part == [hb : Interval, expiry : Nat, last : Nat, recv : 1 .. now,
         watching : BOOLEAN, noticed : BOOLEAN]

(* The timer's part of the invariant, of a state of that loop.             *)
Watched ==
  {s \in Part :
     /\ s.expiry # NoWait => s.expiry <= now + s.hb
     /\ s.watching => s.expiry # NoWait \/ queued > 0
     /\ s.watching /\ s.expiry # NoWait => now <= s.expiry
     /\ s.watching /\ ~s.noticed /\ s.expiry # NoWait =>
          s.expiry <= s.recv + 3 * s.hb
     /\ s.watching /\ now > s.recv + 3 * s.hb => s.noticed}

(* A message keeps the timer's part of the invariant.                      *)
LEMMA ParseFixMsgStep ==
  ASSUME SessionTypeOK, NEW s \in Watched,
         NEW m \in [kind : Kind, hb : Nat, number : Nat]
  PROVE  ParseFixMsg(s, m) \in Watched
<1>. DEFINE hb == Accepted(m.hb, s.hb)
            heard == [s EXCEPT !.recv = now, !.noticed = FALSE]
            numbered == [heard EXCEPT !.last = m.number]
            logon == [numbered EXCEPT !.hb = hb, !.expiry = now + hb,
                                      !.watching = TRUE]
<1>1. /\ now \in Nat \ {0} /\ now \in 1 .. now /\ queued \in Nat
      /\ \A h \in Interval : h \in Nat /\ h > 0
  BY SessionFacts DEF Interval
<1>2. s \in Part /\ s.hb \in Interval
  BY DEF Watched, Part
<1>3. heard \in Watched
  <2>1. heard \in Part
    BY <1>1, <1>2 DEF Part
  <2>2. /\ heard.hb = s.hb /\ heard.expiry = s.expiry /\ heard.recv = now
        /\ heard.watching = s.watching /\ heard.noticed = FALSE
    BY <1>2 DEF Part
  <2>3. s.hb \in Nat /\ s.hb > 0 /\ s.expiry \in Nat
    BY <1>1, <1>2 DEF Part
  <2>. HIDE DEF heard
  <2>. QED  BY <2>1, <2>2, <2>3, <1>1 DEF Watched
<1>4. numbered \in Watched
  <2>1. heard \in Part
    BY <1>3 DEF Watched
  <2>. HIDE DEF heard
  <2>2. numbered \in Part
    BY <2>1 DEF Part
  <2>3. /\ numbered.hb = heard.hb /\ numbered.expiry = heard.expiry
        /\ numbered.recv = heard.recv /\ numbered.watching = heard.watching
        /\ numbered.noticed = heard.noticed
    BY <2>1 DEF Part
  <2>. HIDE DEF numbered
  <2>. QED  BY <2>2, <2>3, <1>3 DEF Watched
<1>5. logon \in Watched
  <2>1. numbered \in Part /\ numbered.recv = now
    <3>1. heard \in Part /\ heard.recv = now
      BY <1>3, <1>2 DEF Watched, Part
    <3>. HIDE DEF heard
    <3>2. numbered.recv = heard.recv
      BY <3>1 DEF Part
    <3>. HIDE DEF numbered
    <3>. QED  BY <3>1, <3>2, <1>4 DEF Watched
  <2>2. hb \in Interval
    BY <1>2, HandlerAssumption DEF Accepted, Interval
  <2>3. hb \in Nat /\ hb > 0
    BY <2>2, <1>1
  <2>. HIDE DEF numbered, hb
  <2>4. logon \in Part
    <3>1. now + hb \in Nat
      BY <2>3, <1>1
    <3>. QED  BY <2>1, <2>2, <3>1 DEF Part
  <2>5. /\ logon.hb = hb /\ logon.expiry = now + hb /\ logon.recv = now
        /\ logon.watching = TRUE
    BY <2>1 DEF Part
  <2>. HIDE DEF logon
  <2>. QED  BY <2>3, <2>4, <2>5, <1>1 DEF Watched, NoWait
<1>6. ParseFixMsg(s, m) \in {s, heard, numbered, logon}
  BY DEF ParseFixMsg, Kind
<1>. QED  BY <1>3, <1>4, <1>5, <1>6

(* The messages of one read keep the session's invariant.                  *)
LEMMA OnFixMsgsStep ==
  ASSUME SessionInv, connected,
         NEW n \in Nat, NEW ms \in [1 .. n -> [kind : Kind, hb : Nat, number : Nat]],
         OnFixMsgs(ms)
  PROVE  SessionInv'
<1>. DEFINE before == [hb |-> hbInterval, expiry |-> expiry, last |-> lastMsgSeqNum,
                       recv |-> lastMsgRecvTm, watching |-> watching,
                       noticed |-> noticed]
            after == FoldLeft(ParseFixMsg, before, ms)
<1>1. before \in Watched
  <2>1. before \in Part
    BY DEF SessionInv, SessionTypeOK, Part, Interval
  <2>. QED  BY <2>1 DEF SessionInv, TimerInv, SilenceNoticed, Watched
<1>2. \A s \in Watched, i \in 1 .. n : ParseFixMsg(s, ms[i]) \in Watched
  BY ParseFixMsgStep DEF SessionInv
<1>3. after \in Watched
  <2>1. DOMAIN ms = 1 .. n
    OBVIOUS
  <2>. HIDE DEF before
  <2>. QED  BY <1>1, <1>2, <2>1, FoldFacts
<1>4. /\ hbInterval' = after.hb
      /\ expiry' = after.expiry
      /\ lastMsgSeqNum' = after.last
      /\ lastMsgRecvTm' = after.recv
      /\ watching' = after.watching
      /\ noticed' = after.noticed
      /\ UNCHANGED <<connected, now, queued, msgSeqNum, sent, failed, strayed>>
  BY DEF OnFixMsgs
<1>. HIDE DEF after
<1>5. SessionTypeOK'
  <2>1. after \in Part
    BY <1>3 DEF Watched
  <2>2. /\ after.hb \in Interval /\ after.expiry \in Nat /\ after.last \in Nat
        /\ after.recv \in 1 .. now /\ after.watching \in BOOLEAN
        /\ after.noticed \in BOOLEAN
    BY <2>1 DEF Part
  <2>. QED  BY <2>2, <1>4 DEF SessionInv, SessionTypeOK, Interval
<1>6. TimerInv' /\ SilenceNoticed'
  BY <1>3, <1>4 DEF Watched, TimerInv, SilenceNoticed
<1>7. CancelInv' /\ NumberedOnce'
  BY <1>4 DEF SessionInv, CancelInv, NumberedOnce
<1>. QED  BY <1>5, <1>6, <1>7 DEF SessionInv

(* The steps of clock and timer.                                           *)
LEMMA TimerStep ==
  ASSUME SessionInv, Expire \/ Tick \/ OnHeartbeatTest
  PROVE  SessionInv'
<1>. USE SessionFacts DEF SessionInv, NoWait
<1>1. NumberedOnce'
  BY DEF NumberedOnce, Expire, Tick, OnHeartbeatTest, numberVars
<1>2. CASE Expire
  <2>1. SessionTypeOK'
    BY <1>2 DEF Expire, SessionTypeOK, numberVars, histVars
  <2>2. TimerInv' /\ SilenceNoticed' /\ CancelInv'
    BY <1>2 DEF Expire, TimerInv, SilenceNoticed, CancelInv, numberVars, histVars
  <2>. QED  BY <1>1, <2>1, <2>2
<1>3. CASE Tick
  <2>1. SessionTypeOK'
    BY <1>3 DEF Tick, SessionTypeOK, numberVars, histVars
  <2>2. TimerInv'
    BY <1>3 DEF Tick, TimerInv, numberVars, histVars
  <2>3. SilenceNoticed'
    BY <1>3 DEF Tick, TimerInv, SilenceNoticed, numberVars, histVars
  <2>4. CancelInv'
    BY <1>3 DEF Tick, CancelInv, numberVars, histVars
  <2>. QED  BY <1>1, <2>1, <2>2, <2>3, <2>4
<1>4. CASE OnHeartbeatTest
  <2>0. /\ queued > 0 /\ queued' = queued - 1
        /\ noticed' = (noticed \/ now > lastMsgRecvTm + 2 * hbInterval)
        /\ expiry' = now + hbInterval
        /\ UNCHANGED <<connected, now, hbInterval, lastMsgRecvTm, numberVars,
                       watching, strayed>>
    BY <1>4 DEF OnHeartbeatTest
  <2>1. SessionTypeOK'
    <3>1. SessionTypeOK /\ queued' \in Nat /\ expiry' \in Nat /\ noticed' \in BOOLEAN
      BY <2>0
    <3>2. UNCHANGED <<connected, now, hbInterval, lastMsgRecvTm, msgSeqNum,
                      lastMsgSeqNum, sent, failed, watching, strayed>>
      BY <2>0 DEF numberVars
    <3>. QED  BY ONLY <3>1, <3>2 DEF SessionTypeOK
  <2>2. TimerInv'
    BY <2>0 DEF TimerInv
  <2>3. SilenceNoticed'
    BY <2>0 DEF SilenceNoticed
  <2>4. CancelInv'
    BY <2>0 DEF CancelInv
  <2>. QED  BY <1>1, <2>1, <2>2, <2>3, <2>4
<1>. QED  BY <1>2, <1>3, <1>4

(* The connection begins or ends.                                          *)
LEMMA ConnectionStep ==
  ASSUME SessionInv, Connected \/ Disconnected
  PROVE  SessionInv'
<1>. USE SessionFacts DEF SessionInv, NoWait
<1>1. CASE Connected
  <2>1. /\ connected' = TRUE /\ sent' = <<>>
        /\ msgSeqNum' \in 1 .. MaxSeqNum + 1
        /\ failed' = 1 .. msgSeqNum' - 1
        /\ UNCHANGED <<clockVars, lastMsgSeqNum, histVars>>
    BY <1>1 DEF Connected
  <2>2. SessionTypeOK'
    <3>1. MaxSeqNum \in Nat /\ msgSeqNum' \in Nat
      BY <2>1
    <3>2. failed' \subseteq 1 .. MaxSeqNum
      <4>1. \A a, b \in Nat : a \in 1 .. b + 1 => 1 .. a - 1 \subseteq 1 .. b
        OBVIOUS
      <4>. QED  BY <2>1, <3>1, <4>1
    <3>3. sent' \in Seq(1 .. MaxSeqNum)
      BY <2>1
    <3>. QED  BY <2>1, <3>2, <3>3 DEF SessionTypeOK, clockVars, histVars
  <2>3. TimerInv' /\ SilenceNoticed' /\ CancelInv'
    BY <2>1 DEF TimerInv, SilenceNoticed, CancelInv, clockVars, histVars
  <2>4. NumberedOnce'
    <3>1. ToSet(sent') = {} /\ DOMAIN sent' = {}
      BY <2>1 DEF ToSet
    <3>. QED  BY <2>1, <3>1 DEF NumberedOnce
  <2>. QED  BY <2>2, <2>3, <2>4
<1>2. CASE Disconnected
  <2>0. /\ connected' = FALSE /\ expiry' = 0 /\ watching' = FALSE
        /\ strayed' \in BOOLEAN
        /\ UNCHANGED <<now, hbInterval, lastMsgRecvTm, queued, msgSeqNum,
                       lastMsgSeqNum, sent, failed, noticed>>
    BY <1>2 DEF Disconnected, numberVars
  <2>1. SessionTypeOK'
    BY <2>0 DEF SessionTypeOK
  <2>2. TimerInv' /\ SilenceNoticed' /\ CancelInv'
    BY <1>2 DEF Disconnected, TimerInv, SilenceNoticed, CancelInv, numberVars
  <2>3. NumberedOnce'
    BY <1>2 DEF Disconnected, NumberedOnce, numberVars
  <2>. QED  BY <2>1, <2>2, <2>3
<1>. QED  BY <1>1, <1>2

(* A range of numbers and the one that follows on it.                      *)
LEMMA Ranges ==
  ASSUME NEW a \in Nat \ {0}, NEW k \in Nat
  PROVE  /\ 1 .. (a + k - 1) = (1 .. a - 1) \cup (a .. (a + k - 1))
         /\ (1 .. a - 1) \cap (a .. (a + k - 1)) = {}
         /\ a + k \notin 1 .. (a + k - 1)
         /\ 1 .. (a + k) = (1 .. (a + k - 1)) \cup {a + k}
<1>1. a \in Nat /\ k \in Nat /\ a > 0
  OBVIOUS
<1>2. ASSUME NEW x
      PROVE  x \in 1 .. (a + k - 1) <=> x \in 1 .. a - 1 \/ x \in a .. (a + k - 1)
  BY <1>1
<1>3. ASSUME NEW x
      PROVE  ~(x \in 1 .. a - 1 /\ x \in a .. (a + k - 1))
  BY <1>1
<1>4. ASSUME NEW x
      PROVE  x \in 1 .. (a + k) <=> x \in 1 .. (a + k - 1) \/ x = a + k
  BY <1>1
<1>5. a + k \notin 1 .. (a + k - 1)
  BY <1>1
<1>. QED  BY <1>2, <1>3, <1>4, <1>5

(***************************************************************************)
(* Numbers that all lie above those of a sequence, in order, are appended  *)
(* to it.                                                                  *)
(***************************************************************************)
LEMMA NumbersFollow ==
  ASSUME NEW s \in Seq(1 .. MaxSeqNum), NEW u \in Seq(1 .. MaxSeqNum),
         NEW next \in Nat \ {0}, NEW F,
         \A i, j \in DOMAIN s : i < j => s[i] < s[j],
         ToSet(s) \cap F = {}, ToSet(s) \cup F = 1 .. next - 1,
         \A i \in 1 .. Len(u) : u[i] = next + i - 1
  PROVE  /\ s \o u \in Seq(1 .. MaxSeqNum)
         /\ \A i, j \in DOMAIN (s \o u) : i < j => (s \o u)[i] < (s \o u)[j]
         /\ ToSet(s \o u) \cap F = {}
         /\ ToSet(s \o u) \cup F = 1 .. (next + Len(u) - 1)
         /\ next + Len(u) \notin ToSet(s \o u)
<1>. DEFINE t == s \o u
            k == Len(u)
<1>1. MaxSeqNum \in Nat /\ k \in Nat
  BY HandlerAssumption
<1>2. /\ t \in Seq(1 .. MaxSeqNum) /\ Len(t) = Len(s) + k
      /\ \A i \in 1 .. Len(s) + k :
           t[i] = IF i <= Len(s) THEN s[i] ELSE u[i - Len(s)]
  BY ConcatProperties
<1>3. /\ Len(s) \in Nat /\ DOMAIN s = 1 .. Len(s)
      /\ \A i \in 1 .. Len(s) : s[i] \in ToSet(s) /\ s[i] \in 1 .. next - 1
  BY DEF ToSet
<1>. HIDE DEF t, k
<1>4. /\ DOMAIN t = 1 .. Len(s) + k
      /\ \A i \in 1 .. Len(s) : t[i] = s[i]
      /\ \A i \in Len(s) + 1 .. Len(s) + k : t[i] = next + (i - Len(s)) - 1
  <2>1. DOMAIN t = 1 .. Len(s) + k
    BY <1>2
  <2>2. \A i \in 1 .. Len(s) : t[i] = s[i]
    BY <1>1, <1>2, <1>3
  <2>3. ASSUME NEW i \in Len(s) + 1 .. Len(s) + k
        PROVE  t[i] = next + (i - Len(s)) - 1
    <3>1. i - Len(s) \in 1 .. k /\ i \in 1 .. Len(s) + k /\ ~(i <= Len(s))
      BY <1>1, <1>3
    <3>2. u[i - Len(s)] = next + (i - Len(s)) - 1
      BY <3>1 DEF k
    <3>. QED  BY <3>1, <3>2, <1>2
  <2>. QED  BY <2>1, <2>2, <2>3
<1>5. ASSUME NEW i \in DOMAIN t, NEW j \in DOMAIN t, i < j
      PROVE  t[i] < t[j]
  <2>1. CASE j \in 1 .. Len(s)
    <3>1. i \in 1 .. Len(s)
      BY <1>3, <1>4, <1>5, <2>1
    <3>. QED  BY <3>1, <1>3, <1>4, <1>5, <2>1
  <2>2. CASE j \notin 1 .. Len(s) /\ i \in 1 .. Len(s)
    <3>1. j \in Len(s) + 1 .. Len(s) + k
      BY <2>2, <1>3, <1>4
    <3>2. t[j] = next + (j - Len(s)) - 1 /\ t[i] \in 1 .. next - 1
      BY <3>1, <2>2, <1>3, <1>4
    <3>. QED  BY <3>1, <3>2, <1>3
  <2>3. CASE j \notin 1 .. Len(s) /\ i \notin 1 .. Len(s)
    <3>1. i \in Len(s) + 1 .. Len(s) + k /\ j \in Len(s) + 1 .. Len(s) + k
      BY <2>3, <1>3, <1>4
    <3>2. t[j] = next + (j - Len(s)) - 1 /\ t[i] = next + (i - Len(s)) - 1
      BY <3>1, <1>4
    <3>. QED  BY <3>1, <3>2, <1>3, <1>5
  <2>. QED  BY <2>1, <2>2, <2>3
<1>6. ToSet(t) = ToSet(s) \cup (next .. (next + k - 1))
  <2>1. ASSUME NEW i \in DOMAIN t
        PROVE  t[i] \in ToSet(s) \cup (next .. (next + k - 1))
    <3>1. CASE i \in 1 .. Len(s)
      BY <3>1, <1>3, <1>4
    <3>2. CASE i \notin 1 .. Len(s)
      <4>1. i \in Len(s) + 1 .. Len(s) + k
        BY <3>2, <1>3, <1>4
      <4>2. t[i] = next + (i - Len(s)) - 1
        BY <4>1, <1>4
      <4>3. t[i] \in next .. (next + k - 1)
        BY <4>1, <4>2, <1>1, <1>3
      <4>. QED  BY <4>3
    <3>. QED  BY <3>1, <3>2
  <2>2. ASSUME NEW x \in next .. (next + k - 1)
        PROVE  \E i \in DOMAIN t : t[i] = x
    <3>. DEFINE i == Len(s) + (x - next) + 1
    <3>0. x \in Int /\ next <= x /\ x <= next + k - 1
      BY <1>1
    <3>1. i \in Len(s) + 1 .. Len(s) + k
      BY <3>0, <1>1, <1>3
    <3>2. next + (i - Len(s)) - 1 = x
      BY <3>0, <1>3
    <3>. HIDE DEF i
    <3>3. i \in DOMAIN t
      BY <3>1, <1>1, <1>3, <1>4
    <3>4. t[i] = x
      BY <3>1, <3>2, <1>4
    <3>. QED  BY <3>3, <3>4
  <2>3. ASSUME NEW x \in ToSet(s)
        PROVE  \E i \in DOMAIN t : t[i] = x
    <3>1. PICK i \in 1 .. Len(s) : s[i] = x
      BY <1>3 DEF ToSet
    <3>2. i \in DOMAIN t
      BY <1>1, <1>3, <1>4
    <3>3. t[i] = x
      BY <3>1, <1>4
    <3>. QED  BY <3>2, <3>3
  <2>4. ToSet(t) = {t[i] : i \in DOMAIN t}
    BY DEF ToSet
  <2>. QED  BY <2>1, <2>2, <2>3, <2>4
<1>7. ToSet(t) \cap F = {}
  <2>1. F \cap (next .. (next + k - 1)) = {}
    <3>1. F \subseteq 1 .. next - 1
      OBVIOUS
    <3>. QED  BY <3>1, <1>1, Ranges
  <2>. QED  BY <2>1, <1>6
<1>8. ToSet(t) \cup F = 1 .. (next + k - 1)
  <2>1. 1 .. (next + k - 1) = (1 .. next - 1) \cup (next .. (next + k - 1))
    BY <1>1, Ranges
  <2>. QED  BY <2>1, <1>6
<1>9. next + k \notin ToSet(t)
  <2>1. next + k \notin 1 .. (next + k - 1)
    BY <1>1, Ranges
  <2>. QED  BY <2>1, <1>8
<1>. QED  BY <1>2, <1>5, <1>7, <1>8, <1>9 DEF t, k

(* The part of the invariant that is not about the numbers.                *)
LEMMA BuildRest ==
  ASSUME SessionInv, NEW n \in Nat \ {0}, msgSeqNum + n - 1 <= MaxSeqNum,
         msgSeqNum' = msgSeqNum + n, sent' \in Seq(1 .. MaxSeqNum),
         failed' \subseteq 1 .. MaxSeqNum, NumberedOnce',
         UNCHANGED <<connected, clockVars, lastMsgSeqNum, histVars>>
  PROVE  SessionInv'
<1>1. SessionTypeOK'
  <2>1. msgSeqNum' \in 1 .. MaxSeqNum + 1
    <3>1. msgSeqNum \in Nat /\ msgSeqNum >= 1 /\ MaxSeqNum \in Nat
      BY SessionFacts DEF SessionInv
    <3>. QED  BY <3>1
  <2>. QED  BY <2>1 DEF SessionInv, SessionTypeOK, clockVars, histVars
<1>2. TimerInv' /\ SilenceNoticed' /\ CancelInv'
  BY DEF SessionInv, TimerInv, SilenceNoticed, CancelInv, clockVars, histVars
<1>. QED  BY <1>1, <1>2 DEF SessionInv

(* Messages are built and sent.                                            *)
LEMMA BuildStep ==
  ASSUME SessionInv, NEW n \in Nat \ {0}, Build(n)
  PROVE  SessionInv'
<1>1. /\ msgSeqNum + n - 1 <= MaxSeqNum
      /\ msgSeqNum' = msgSeqNum + n
      /\ UNCHANGED <<connected, clockVars, lastMsgSeqNum, histVars>>
  BY DEF Build
<1>2. /\ msgSeqNum \in Nat \ {0} /\ sent \in Seq(1 .. MaxSeqNum)
      /\ failed \subseteq 1 .. MaxSeqNum /\ MaxSeqNum \in Nat
      /\ \A i, j \in DOMAIN sent : i < j => sent[i] < sent[j]
      /\ ToSet(sent) \cap failed = {}
      /\ ToSet(sent) \cup failed = 1 .. msgSeqNum - 1
  BY HandlerAssumption DEF SessionInv, SessionTypeOK, NumberedOnce
<1>3. /\ Numbers(n) \in Seq(1 .. MaxSeqNum) /\ Len(Numbers(n)) = n
      /\ \A i \in 1 .. n : Numbers(n)[i] = msgSeqNum + i - 1
  <2>1. ASSUME NEW i \in 1 .. n
        PROVE  msgSeqNum + i - 1 \in 1 .. MaxSeqNum
    BY <1>1, <1>2
  <2>. QED  BY <2>1 DEF Numbers
<1>4. CASE sent' = sent \o Numbers(n) /\ failed' = failed
  <2>. DEFINE u == Numbers(n)
              t == sent \o u
  <2>. HIDE DEF u
  <2>1. /\ u \in Seq(1 .. MaxSeqNum) /\ Len(u) = n
        /\ \A i \in 1 .. Len(u) : u[i] = msgSeqNum + i - 1
    BY <1>3 DEF u
  <2>2. /\ t \in Seq(1 .. MaxSeqNum)
        /\ \A i, j \in DOMAIN t : i < j => t[i] < t[j]
        /\ ToSet(t) \cap failed = {}
        /\ ToSet(t) \cup failed = 1 .. (msgSeqNum + Len(u) - 1)
        /\ msgSeqNum + Len(u) \notin ToSet(t)
    BY <1>2, <2>1, NumbersFollow
  <2>3. sent' = t /\ failed' = failed /\ msgSeqNum' = msgSeqNum + Len(u)
    BY <1>1, <1>4, <2>1 DEF u
  <2>. HIDE DEF t
  <2>4. NumberedOnce'
    <3>1. msgSeqNum' - 1 = msgSeqNum + Len(u) - 1
      BY <1>2, <2>1, <2>3
    <3>. QED  BY <2>2, <2>3, <3>1 DEF NumberedOnce
  <2>. QED  BY <2>2, <2>3, <2>4, <1>1, <1>2, BuildRest
<1>5. CASE /\ sent' = sent \o SubSeq(Numbers(n), 1, n - 1)
           /\ failed' = failed \cup {Numbers(n)[n]}
  <2>. DEFINE u == SubSeq(Numbers(n), 1, n - 1)
              last == Numbers(n)[n]
              t == sent \o u
  <2>1. /\ u \in Seq(1 .. MaxSeqNum) /\ Len(u) = n - 1
        /\ \A i \in 1 .. Len(u) : u[i] = msgSeqNum + i - 1
    <3>. DEFINE v == Numbers(n)
    <3>1. /\ 1 \in Int /\ n - 1 \in Int /\ n - 1 - 1 + 1 = n - 1
          /\ (IF 1 <= n - 1 THEN n - 1 - 1 + 1 ELSE 0) = n - 1
      OBVIOUS
    <3>4. \A i \in 1 .. n - 1 : v[i] \in 1 .. MaxSeqNum
      <4>1. v \in Seq(1 .. MaxSeqNum) /\ Len(v) = n
        BY <1>3
      <4>. HIDE DEF v
      <4>2. ASSUME NEW i \in 1 .. n - 1
            PROVE  v[i] \in 1 .. MaxSeqNum
        <5>1. i \in 1 .. Len(v)
          BY <4>1
        <5>. QED  BY <4>1, <5>1, ElementOfSeq
      <4>. QED  BY <4>2
    <3>. HIDE DEF v
    <3>5. /\ SubSeq(v, 1, n - 1) \in Seq(1 .. MaxSeqNum)
          /\ Len(SubSeq(v, 1, n - 1)) = IF 1 <= n - 1 THEN n - 1 - 1 + 1 ELSE 0
          /\ \A i \in 1 .. n - 1 - 1 + 1 : SubSeq(v, 1, n - 1)[i] = v[1 + i - 1]
      BY <3>1, <3>4, SubSeqProperties
    <3>2. /\ u \in Seq(1 .. MaxSeqNum) /\ Len(u) = n - 1
          /\ \A i \in 1 .. n - 1 : u[i] = Numbers(n)[1 + i - 1]
      BY <3>1, <3>5 DEF v
    <3>. HIDE DEF u
    <3>3. ASSUME NEW i \in 1 .. n - 1
          PROVE  u[i] = msgSeqNum + i - 1
      <4>1. i \in 1 .. n /\ 1 + i - 1 = i
        OBVIOUS
      <4>. QED  BY <4>1, <3>2, <1>3
    <3>. QED  BY <3>2, <3>3
  <2>. HIDE DEF u
  <2>2. last = msgSeqNum + Len(u) /\ last \in 1 .. MaxSeqNum
    BY <1>1, <1>2, <1>3, <2>1
  <2>. HIDE DEF last
  <2>3. /\ t \in Seq(1 .. MaxSeqNum)
        /\ \A i, j \in DOMAIN t : i < j => t[i] < t[j]
        /\ ToSet(t) \cap failed = {}
        /\ ToSet(t) \cup failed = 1 .. (msgSeqNum + Len(u) - 1)
        /\ msgSeqNum + Len(u) \notin ToSet(t)
    BY <1>2, <2>1, NumbersFollow
  <2>4. sent' = t /\ failed' = failed \cup {last} /\ msgSeqNum' = msgSeqNum + n
    BY <1>1, <1>5 DEF u, last
  <2>. HIDE DEF t
  <2>5. 1 .. msgSeqNum' - 1 = (1 .. (msgSeqNum + Len(u) - 1)) \cup {last}
    <3>1. msgSeqNum' - 1 = msgSeqNum + Len(u) /\ Len(u) \in Nat
      BY <1>2, <2>1, <2>4
    <3>. QED  BY <1>2, <2>2, <3>1, Ranges
  <2>6. NumberedOnce'
    BY <2>2, <2>3, <2>4, <2>5 DEF NumberedOnce
  <2>. QED  BY <2>2, <2>3, <2>4, <2>6, <1>1, <1>2, BuildRest
<1>. QED  BY <1>4, <1>5 DEF Build

(* The session before the first connection.                                *)
LEMMA SessionStart ==
  ASSUME SessionInit
  PROVE  SessionInv
<1>. USE HandlerAssumption DEF SessionInit, NoWait
<1>1. SessionTypeOK
  <2>1. /\ {connected, watching, noticed, strayed} \subseteq BOOLEAN
        /\ now \in 1 .. MaxTime /\ lastMsgRecvTm \in 1 .. now
    <3>1. MaxTime \in Nat /\ MaxTime >= 1
      OBVIOUS
    <3>2. now = 1 /\ lastMsgRecvTm = 1
      OBVIOUS
    <3>3. {connected, watching, noticed, strayed} \subseteq BOOLEAN
      OBVIOUS
    <3>. QED  BY <3>1, <3>2, <3>3
  <2>2. hbInterval = DefaultHb /\ expiry \in Nat /\ queued \in Nat
    OBVIOUS
  <2>3. msgSeqNum \in 1 .. MaxSeqNum + 1 /\ lastMsgSeqNum \in Nat
    OBVIOUS
  <2>4. sent \in Seq(1 .. MaxSeqNum) /\ failed \subseteq 1 .. MaxSeqNum
    OBVIOUS
  <2>. QED  BY <2>1, <2>2, <2>3, <2>4 DEF SessionTypeOK
<1>2. TimerInv /\ SilenceNoticed /\ CancelInv
  BY DEF TimerInv, SilenceNoticed, CancelInv
<1>3. NumberedOnce
  <2>1. ToSet(sent) = {} /\ DOMAIN sent = {} /\ failed = {} /\ msgSeqNum - 1 = 0
    BY DEF ToSet
  <2>2. 1 .. 0 = {}
    OBVIOUS
  <2>. QED  BY <2>1, <2>2 DEF NumberedOnce
<1>. QED  BY <1>1, <1>2, <1>3 DEF SessionInv

----------------------------------------------------------------------------
(* The search for the end of a message.                                    *)

(* Where the message that begins at b ends, if it has an end in data.      *)
HitsFrom(data, b) == {p \in Hits(data) : p >= b}

End(data, b) == Min(HitsFrom(data, b)) + Len(Needle) + 3

Ends(data, b) == HitsFrom(data, b) # {} /\ End(data, b) <= Len(data)

(* The marker that is looked for.                                          *)
LEMMA NeedleIs ==
  /\ Len(Trailer) = 8
  /\ Needle = <<"SOH", "1", "0", "=">>
  /\ Len(Needle) = 4
<1>1. Len(Trailer) = 8
  BY DEF Trailer
<1>2. Needle = <<"SOH", "1", "0", "=">>
  <2>1. Trailer[1] = "SOH" /\ Trailer[2] = "1" /\ Trailer[3] = "0" /\ Trailer[4] = "="
    BY DEF Trailer
  <2>2. \A i \in 1 .. 4 : Trailer[i] \in {"SOH", "1", "0", "="}
    <3>1. \A i \in 1 .. 4 : i = 1 \/ i = 2 \/ i = 3 \/ i = 4
      OBVIOUS
    <3>. QED  BY <2>1, <3>1
  <2>3. /\ Needle \in Seq({"SOH", "1", "0", "="}) /\ Len(Needle) = 4
        /\ \A i \in 1 .. 4 : Needle[i] = Trailer[i]
    <3>1. /\ SubSeq(Trailer, 1, 4) \in Seq({"SOH", "1", "0", "="})
          /\ Len(SubSeq(Trailer, 1, 4)) = IF 1 <= 4 THEN 4 - 1 + 1 ELSE 0
          /\ \A i \in 1 .. 4 - 1 + 1 : SubSeq(Trailer, 1, 4)[i] = Trailer[1 + i - 1]
      BY <2>2, SubSeqProperties
    <3>. QED  BY <3>1 DEF Needle
  <2>4. /\ <<"SOH", "1", "0", "=">> \in Seq({"SOH", "1", "0", "="})
        /\ Len(<<"SOH", "1", "0", "=">>) = 4
        /\ \A i \in 1 .. 4 : Needle[i] = <<"SOH", "1", "0", "=">>[i]
    BY <2>1, <2>3
  <2>. QED  BY <2>3, <2>4, SeqEqual
<1>. QED  BY <1>1, <1>2

(* The marker found is the first, and the search goes on behind it.        *)
LEMMA EndFacts ==
  ASSUME NEW B, NEW data \in Seq(B), NEW b \in 1 .. Len(data) + 1
  PROVE  /\ HitsFrom(data, b) \subseteq 1 .. Len(data)
         /\ HitsFrom(data, b) # {} =>
              /\ End(data, b) \in Nat
              /\ End(data, b) - 7 \in HitsFrom(data, b)
              /\ \A p \in HitsFrom(data, b) : End(data, b) <= p + 7
              /\ End(data, b) >= b + 7
         /\ Ends(data, b) => End(data, b) + 1 \in 1 .. Len(data) + 1
<1>1. Len(data) \in Nat
  OBVIOUS
<1>2. HitsFrom(data, b) \subseteq 1 .. Len(data)
  BY <1>1 DEF HitsFrom, Hits
<1>3. ASSUME HitsFrom(data, b) # {}
      PROVE  /\ Min(HitsFrom(data, b)) \in HitsFrom(data, b)
             /\ \A p \in HitsFrom(data, b) : Min(HitsFrom(data, b)) <= p
  <2>. DEFINE H == HitsFrom(data, b)
  <2>1. H \in SUBSET Nat
    BY <1>2
  <2>. HIDE DEF H
  <2>2. \E m \in H : \A p \in H : m <= p
    BY <2>1, <1>3, LeastOf DEF H
  <2>3. Min(H) \in H /\ \A p \in H : Min(H) <= p
    BY <2>2 DEF Min
  <2>. QED  BY <2>3 DEF H
<1>4. ASSUME HitsFrom(data, b) # {}
      PROVE  /\ End(data, b) \in Nat
             /\ End(data, b) - 7 \in HitsFrom(data, b)
             /\ \A p \in HitsFrom(data, b) : End(data, b) <= p + 7
             /\ End(data, b) >= b + 7
  <2>. DEFINE m == Min(HitsFrom(data, b))
  <2>1. m \in HitsFrom(data, b) /\ m \in Nat /\ m >= b
    BY <1>2, <1>3, <1>4 DEF HitsFrom
  <2>2. \A p \in HitsFrom(data, b) : m <= p /\ p \in Nat
    BY <1>2, <1>3, <1>4
  <2>3. End(data, b) = m + 7
    BY <2>1, NeedleIs DEF End
  <2>. HIDE DEF m
  <2>4. End(data, b) - 7 = m
    BY <2>1, <2>3
  <2>. QED  BY <2>1, <2>2, <2>3, <2>4
<1>5. Ends(data, b) => End(data, b) + 1 \in 1 .. Len(data) + 1
  BY <1>1, <1>4 DEF Ends
<1>. QED  BY <1>2, <1>4, <1>5

(***************************************************************************)
(* The loop of parse as an equation: the messages from b on are the one    *)
(* that begins at b and those behind it.                                   *)
(***************************************************************************)
LEMMA MessagesFrom ==
  ASSUME NEW B, NEW data \in Seq(B)
  PROVE  \E from :
           /\ Messages(data) = from[1]
           /\ \A b \in 1 .. Len(data) + 1 :
                /\ from[b] = IF Ends(data, b)
                             THEN <<SubSeq(data, b, End(data, b))>> \o from[End(data, b) + 1]
                             ELSE <<>>
                /\ from[b] \in Seq(Seq(B))
<1>. DEFINE N == Len(data)
            D == 1 .. N + 1
            next(g, b) == IF HitsFrom(data, b) = {} \/ End(data, b) > N
                          THEN <<>>
                          ELSE <<SubSeq(data, b, End(data, b))>> \o g[End(data, b) + 1]
            Solves(g, k) ==
              g = [b \in D |-> IF b + k <= N THEN <<>> ELSE next(g, b)]
            from == CHOOSE g : g = [b \in D |-> next(g, b)]
<1>1. Messages(data) = from[1]
  BY DEF Messages, HitsFrom, End
<1>2. N \in Nat
  OBVIOUS
<1>3. \A b \in D : (HitsFrom(data, b) = {} \/ End(data, b) > N) <=> ~Ends(data, b)
  BY EndFacts DEF Ends
<1>4. \A b \in D : Ends(data, b) => /\ End(data, b) + 1 \in D
                                    /\ End(data, b) \in Nat
                                    /\ End(data, b) + 1 > b
  BY EndFacts DEF Ends
<1>. HIDE DEF N
<1>5. \E g : g = [b \in D |-> next(g, b)]
  <2>. DEFINE S == {k \in Nat : \E g : Solves(g, k)}
  <2>1. 0 \in S
    <3>. DEFINE g == [b \in D |-> <<>>]
    <3>1. ASSUME NEW b \in D, ~(b + 0 <= N)
          PROVE  next(g, b) = <<>>
      <4>1. b = N + 1
        BY <1>2, <3>1
      <4>2. ~Ends(data, b)
        BY <4>1, <1>2, <1>4
      <4>. QED  BY <4>2, <1>3
    <3>2. Solves(g, 0)
      <4>. HIDE DEF next
      <4>. QED  BY <3>1
    <3>. QED  BY <3>2
  <2>2. ASSUME NEW k \in S
        PROVE  k + 1 \in S
    <3>1. PICK g : Solves(g, k)
      OBVIOUS
    <3>. DEFINE h == [b \in D |-> IF b + (k + 1) <= N THEN <<>> ELSE next(g, b)]
    <3>2. ASSUME NEW b \in D, ~(b + (k + 1) <= N)
          PROVE  next(h, b) = next(g, b)
      <4>1. CASE ~Ends(data, b)
        BY <4>1, <1>3
      <4>2. CASE Ends(data, b)
        <5>. DEFINE e == End(data, b) + 1
        <5>1. e \in D /\ e \in Nat /\ e > b
          BY <4>2, <1>4
        <5>. HIDE DEF e
        <5>2. k \in Nat /\ ~(e + k <= N) /\ ~(e + (k + 1) <= N)
          BY <5>1, <3>2, <1>2
        <5>3. h[e] = next(g, e)
          BY <5>1, <5>2
        <5>4. g[e] = next(g, e)
          <6>. HIDE DEF next
          <6>. QED  BY <5>1, <5>2, <3>1
        <5>5. h[e] = g[e]
          BY <5>3, <5>4
        <5>. HIDE DEF h
        <5>. QED  BY <5>5 DEF e
      <4>. QED  BY <4>1, <4>2
    <3>3. Solves(h, k + 1)
      <4>1. \A b \in D : h[b] = IF b + (k + 1) <= N THEN <<>> ELSE next(h, b)
        <5>. SUFFICES ASSUME NEW b \in D
                      PROVE  h[b] = IF b + (k + 1) <= N THEN <<>> ELSE next(h, b)
          OBVIOUS
        <5>1. h[b] = IF b + (k + 1) <= N THEN <<>> ELSE next(g, b)
          OBVIOUS
        <5>. HIDE DEF h, next
        <5>. QED  BY <5>1, <3>2
      <4>2. h = [b \in D |-> h[b]]
        OBVIOUS
      <4>. HIDE DEF h, next
      <4>. QED  BY <4>1, <4>2
    <3>. HIDE DEF Solves
    <3>. QED  BY <3>3
  <2>. HIDE DEF Solves
  <2>3. S = Nat
    BY <2>1, <2>2, Induction
  <2>4. PICK g : Solves(g, N)
    BY <2>3, <1>2
  <2>5. \A b \in D : ~(b + N <= N)
    BY <1>2
  <2>6. g = [b \in D |-> next(g, b)]
    <3>. HIDE DEF next
    <3>. QED  BY <2>4, <2>5 DEF Solves
  <2>. QED  BY <2>6
<1>6. from = [b \in D |-> next(from, b)]
  <2>. HIDE DEF next
  <2>. QED  BY <1>5
<1>. HIDE DEF from
<1>7. ASSUME NEW b \in D
      PROVE  from[b] = IF Ends(data, b)
                       THEN <<SubSeq(data, b, End(data, b))>> \o from[End(data, b) + 1]
                       ELSE <<>>
  <2>1. from[b] = next(from, b)
    <3>. HIDE DEF next
    <3>. QED  BY <1>6
  <2>. QED  BY <2>1, <1>3
<1>8. \A b \in D : from[b] \in Seq(Seq(B))
  <2>. DEFINE S == {k \in Nat : \A b \in D : b + k > N => from[b] \in Seq(Seq(B))}
  <2>1. 0 \in S
    <3>. SUFFICES ASSUME NEW b \in D, b + 0 > N
                  PROVE  from[b] \in Seq(Seq(B))
      OBVIOUS
    <3>1. b = N + 1
      BY <1>2
    <3>2. ~Ends(data, b)
      BY <3>1, <1>2, <1>4
    <3>3. from[b] = <<>>
      BY <3>2, <1>7
    <3>. QED  BY <3>3
  <2>2. ASSUME NEW k \in S
        PROVE  k + 1 \in S
    <3>. SUFFICES ASSUME NEW b \in D, b + (k + 1) > N
                  PROVE  from[b] \in Seq(Seq(B))
      OBVIOUS
    <3>1. CASE ~Ends(data, b)
      <4>1. from[b] = <<>>
        BY <3>1, <1>7
      <4>. QED  BY <4>1
    <3>2. CASE Ends(data, b)
      <4>. DEFINE e == End(data, b)
                  cut == SubSeq(data, b, e)
      <4>1. e + 1 \in D /\ e \in Nat /\ e + 1 > b /\ e <= N
        BY <3>2, <1>2, <1>4 DEF Ends, N
      <4>2. from[e + 1] \in Seq(Seq(B))
        <5>1. (e + 1) + k > N
          BY <4>1, <1>2
        <5>. HIDE DEF e
        <5>. QED  BY <4>1, <5>1
      <4>3. cut \in Seq(B)
        <5>. HIDE DEF e
        <5>1. \A i \in b .. e : data[i] \in B
          BY <4>1, <1>2 DEF N
        <5>. QED  BY <5>1, <4>1, SubSeqProperties
      <4>4. from[b] = <<cut>> \o from[e + 1]
        BY <3>2, <1>7
      <4>. HIDE DEF cut, e
      <4>. QED  BY <4>2, <4>3, <4>4
    <3>. QED  BY <3>1, <3>2
  <2>. HIDE DEF S
  <2>3. N \in S
    BY <2>1, <2>2, <1>2, Induction DEF S
  <2>. QED  BY <2>3, <1>2 DEF S
<1>9. Messages(data) = from[1] /\ 1 \in D
  BY <1>1, <1>2
<1>. QED  BY <1>7, <1>8, <1>9 DEF N

----------------------------------------------------------------------------
(* Sequences of sequences, joined.                                         *)

(* FlattenSeq joins them one after the other.                              *)
LEMMA FlattenFacts ==
  ASSUME NEW B, NEW ss \in Seq(Seq(B)), ss # <<>>
  PROVE  \E g \in [1 .. Len(ss) -> Seq(B)] :
           /\ g[1] = ss[1]
           /\ \A i \in 2 .. Len(ss) : g[i] = g[i - 1] \o ss[i]
           /\ FlattenSeq(ss) = g[Len(ss)]
<1>. DEFINE n == Len(ss)
            D == 1 .. n
            next(g, i) == IF i = 1 THEN ss[i] ELSE g[i - 1] \o ss[i]
            Solves(g, k) == g = [i \in D |-> IF i > k THEN <<>> ELSE next(g, i)]
            flatten == CHOOSE g : g = [i \in D |-> next(g, i)]
<1>1. n \in Nat \ {0} /\ \A i \in D : ss[i] \in Seq(B)
  BY EmptySeq, ElementOfSeq
<1>2. FlattenSeq(ss) = flatten[n]
  BY <1>1 DEF FlattenSeq
<1>. HIDE DEF n
<1>3. \E g : g = [i \in D |-> next(g, i)]
  <2>. DEFINE S == {k \in Nat : \E g : Solves(g, k)}
  <2>1. 0 \in S
    <3>. DEFINE g == [i \in D |-> <<>>]
    <3>1. \A i \in D : i > 0
      OBVIOUS
    <3>2. Solves(g, 0)
      <4>. HIDE DEF next
      <4>. QED  BY <3>1
    <3>. QED  BY <3>2
  <2>2. ASSUME NEW k \in S
        PROVE  k + 1 \in S
    <3>1. PICK g : Solves(g, k)
      OBVIOUS
    <3>. DEFINE h == [i \in D |-> IF i > k + 1 THEN <<>> ELSE next(g, i)]
    <3>2. ASSUME NEW i \in D, ~(i > k + 1)
          PROVE  next(h, i) = next(g, i)
      <4>1. CASE i = 1
        BY <4>1
      <4>2. CASE i # 1
        <5>1. i - 1 \in D /\ ~(i - 1 > k) /\ ~(i - 1 > k + 1)
          BY <3>2, <4>2, <1>1
        <5>2. h[i - 1] = next(g, i - 1)
          <6>. HIDE DEF next
          <6>. QED  BY <5>1
        <5>3. g[i - 1] = next(g, i - 1)
          <6>. HIDE DEF next
          <6>. QED  BY <5>1, <3>1
        <5>4. h[i - 1] = g[i - 1]
          BY <5>2, <5>3
        <5>. HIDE DEF h
        <5>. QED  BY <5>4
      <4>. QED  BY <4>1, <4>2
    <3>3. Solves(h, k + 1)
      <4>1. \A i \in D : h[i] = IF i > k + 1 THEN <<>> ELSE next(h, i)
        <5>. SUFFICES ASSUME NEW i \in D
                      PROVE  h[i] = IF i > k + 1 THEN <<>> ELSE next(h, i)
          OBVIOUS
        <5>1. h[i] = IF i > k + 1 THEN <<>> ELSE next(g, i)
          OBVIOUS
        <5>. HIDE DEF h, next
        <5>. QED  BY <5>1, <3>2
      <4>2. h = [i \in D |-> h[i]]
        OBVIOUS
      <4>. HIDE DEF h, next
      <4>. QED  BY <4>1, <4>2
    <3>. HIDE DEF Solves
    <3>. QED  BY <3>3
  <2>. HIDE DEF Solves
  <2>3. S = Nat
    BY <2>1, <2>2, Induction
  <2>4. PICK g : Solves(g, n)
    BY <2>3, <1>1
  <2>5. \A i \in D : ~(i > n)
    BY <1>1
  <2>6. g = [i \in D |-> next(g, i)]
    <3>. HIDE DEF next
    <3>. QED  BY <2>4, <2>5 DEF Solves
  <2>. QED  BY <2>6
<1>4. flatten = [i \in D |-> next(flatten, i)]
  <2>. HIDE DEF next
  <2>. QED  BY <1>3
<1>. HIDE DEF flatten
<1>5. \A i \in D : flatten[i] = next(flatten, i)
  <2>. HIDE DEF next
  <2>. QED  BY <1>4
<1>6. flatten[1] = ss[1] /\ \A i \in 2 .. n : flatten[i] = flatten[i - 1] \o ss[i]
  <2>1. 1 \in D /\ \A i \in 2 .. n : i \in D /\ i # 1
    BY <1>1
  <2>. QED  BY <2>1, <1>5
<1>7. \A i \in D : flatten[i] \in Seq(B)
  <2>. DEFINE S == {k \in Nat : \A i \in D : i <= k => flatten[i] \in Seq(B)}
  <2>1. 0 \in S
    OBVIOUS
  <2>2. ASSUME NEW k \in S
        PROVE  k + 1 \in S
    <3>. SUFFICES ASSUME NEW i \in D, i <= k + 1
                  PROVE  flatten[i] \in Seq(B)
      OBVIOUS
    <3>1. CASE i = 1
      BY <3>1, <1>1, <1>6
    <3>2. CASE i # 1
      <4>1. i - 1 \in D /\ i - 1 <= k /\ i \in 2 .. n
        BY <3>2, <1>1
      <4>2. flatten[i - 1] \in Seq(B)
        BY <4>1
      <4>3. flatten[i] = flatten[i - 1] \o ss[i] /\ ss[i] \in Seq(B)
        BY <4>1, <1>1, <1>6
      <4>. QED  BY <4>2, <4>3
    <3>. QED  BY <3>1, <3>2
  <2>. HIDE DEF S
  <2>3. n \in S
    BY <2>1, <2>2, <1>1, Induction DEF S
  <2>. QED  BY <2>3, <1>1 DEF S
<1>8. flatten \in [D -> Seq(B)]
  <2>. HIDE DEF next
  <2>. QED  BY <1>4, <1>7
<1>. QED  BY <1>2, <1>6, <1>8 DEF n

(* One sequence more is joined behind the others.                          *)
LEMMA FlattenAppend ==
  ASSUME NEW B, NEW ss \in Seq(Seq(B)), NEW s \in Seq(B)
  PROVE  /\ FlattenSeq(ss) \in Seq(B)
         /\ FlattenSeq(Append(ss, s)) = FlattenSeq(ss) \o s
<1>. DEFINE n == Len(ss)
            tt == Append(ss, s)
<1>1. /\ n \in Nat /\ tt \in Seq(Seq(B)) /\ tt # <<>> /\ Len(tt) = n + 1
      /\ tt[n + 1] = s /\ \A i \in 1 .. n : tt[i] = ss[i]
  <2>. DEFINE T == Seq(B)
  <2>1. s \in T /\ ss \in Seq(T)
    OBVIOUS
  <2>. HIDE DEF T
  <2>2. /\ tt \in Seq(T) /\ Len(tt) = n + 1 /\ n \in Nat
        /\ tt[n + 1] = s /\ \A i \in 1 .. n : tt[i] = ss[i]
    BY <2>1, AppendProperties
  <2>3. tt # <<>>
    BY <2>2, EmptySeq
  <2>. QED  BY <2>2, <2>3 DEF T
<1>. HIDE DEF tt
<1>2. PICK h \in [1 .. Len(tt) -> Seq(B)] :
           /\ h[1] = tt[1]
           /\ \A i \in 2 .. Len(tt) : h[i] = h[i - 1] \o tt[i]
           /\ FlattenSeq(tt) = h[Len(tt)]
  BY <1>1, FlattenFacts
<1>3. CASE ss = <<>>
  <2>1. FlattenSeq(ss) = <<>> /\ n = 0
    BY <1>3 DEF FlattenSeq
  <2>2. FlattenSeq(tt) = s
    BY <1>1, <1>2, <2>1
  <2>3. <<>> \o s = s /\ <<>> \in Seq(B)
    BY ConcatEmptySeq
  <2>. QED  BY <2>1, <2>2, <2>3 DEF tt
<1>4. CASE ss # <<>>
  <2>1. PICK g \in [1 .. n -> Seq(B)] :
           /\ g[1] = ss[1]
           /\ \A i \in 2 .. n : g[i] = g[i - 1] \o ss[i]
           /\ FlattenSeq(ss) = g[n]
    BY <1>4, FlattenFacts
  <2>2. n # 0
    BY <1>4
  <2>. HIDE DEF n
  <2>3. \A i \in 1 .. n : g[i] = h[i]
    <3>. DEFINE S == {k \in Nat : \A i \in 1 .. n : i <= k => g[i] = h[i]}
    <3>1. 0 \in S
      OBVIOUS
    <3>2. ASSUME NEW k \in S
          PROVE  k + 1 \in S
      <4>. SUFFICES ASSUME NEW i \in 1 .. n, i <= k + 1
                    PROVE  g[i] = h[i]
        OBVIOUS
      <4>1. CASE i = 1
        BY <4>1, <1>1, <1>2, <2>1
      <4>2. CASE i # 1
        <5>1. i - 1 \in 1 .. n /\ i - 1 <= k /\ i \in 2 .. n /\ i \in 2 .. n + 1
          BY <4>2, <1>1
        <5>2. g[i - 1] = h[i - 1]
          BY <5>1
        <5>3. g[i] = g[i - 1] \o ss[i] /\ h[i] = h[i - 1] \o tt[i]
          BY <5>1, <1>1, <1>2, <2>1
        <5>. QED  BY <5>2, <5>3, <1>1
      <4>. QED  BY <4>1, <4>2
    <3>. HIDE DEF S
    <3>3. n \in S
      BY <3>1, <3>2, <1>1, Induction DEF S
    <3>. QED  BY <3>3, <1>1 DEF S
  <2>4. h[n + 1] = h[n] \o s
    <3>1. n + 1 \in 2 .. Len(tt) /\ (n + 1) - 1 = n
      BY <1>1, <2>2
    <3>. QED  BY <3>1, <1>1, <1>2
  <2>5. n \in 1 .. n
    BY <1>1, <2>2
  <2>6. g[n] = h[n] /\ g[n] \in Seq(B)
    BY <2>3, <2>5
  <2>. QED  BY <1>1, <1>2, <2>1, <2>4, <2>6 DEF tt
<1>. QED  BY <1>3, <1>4

----------------------------------------------------------------------------
(* Moving the rest to the front, whatever the bytes are.                   *)

(* A move that reads no byte too late moves the bytes.                     *)
LEMMA MovedNone ==
  ASSUME NEW B, NEW rest \in Seq(B), NEW d
  PROVE  Moved(rest, d, {}) = rest
<1>. DEFINE D == DOMAIN rest
            byte == CHOOSE g : g = [k \in D |-> IF k \in {} THEN g[k + d] ELSE rest[k]]
<1>1. Moved(rest, d, {}) = byte
  BY DEF Moved
<1>2. rest = [k \in D |-> rest[k]]
  OBVIOUS
<1>3. \A g : (g = [k \in D |-> IF k \in {} THEN g[k + d] ELSE rest[k]]) <=> (g = rest)
  <2>. SUFFICES ASSUME NEW g
                PROVE  (g = [k \in D |-> IF k \in {} THEN g[k + d] ELSE rest[k]])
                         <=> (g = rest)
    OBVIOUS
  <2>1. [k \in D |-> IF k \in {} THEN g[k + d] ELSE rest[k]] = [k \in D |-> rest[k]]
    OBVIOUS
  <2>. QED  BY <2>1, <1>2
<1>4. byte = [k \in D |-> IF k \in {} THEN byte[k + d] ELSE rest[k]]
  <2>1. \E g : g = [k \in D |-> IF k \in {} THEN g[k + d] ELSE rest[k]]
    BY <1>3
  <2>. QED  BY <2>1
<1>5. byte = rest
  <2>. HIDE DEF byte
  <2>. QED  BY <1>3, <1>4
<1>. QED  BY <1>1, <1>5

(***************************************************************************)
(* A move leaves as many bytes as there were, and no others: every byte    *)
(* that is read too late is read from further behind, so in the end from a *)
(* place that was not written.                                             *)
(***************************************************************************)
LEMMA MovedFacts ==
  ASSUME NEW B, NEW rest \in Seq(B), NEW d \in Nat \ {0}, NEW late,
         \A k \in late : k \in Nat /\ k + d <= Len(rest)
  PROVE  Moved(rest, d, late) \in Seq(B) /\ Len(Moved(rest, d, late)) = Len(rest)
<1>. DEFINE N == Len(rest)
            D == 1 .. N
            next(g, k) == IF k \in late THEN g[k + d] ELSE rest[k]
            Solves(g, m) == g = [k \in D |-> IF k + m <= N THEN rest[k] ELSE next(g, k)]
            byte == CHOOSE g : g = [k \in D |-> next(g, k)]
<1>1. Moved(rest, d, late) = byte
  <2>1. DOMAIN rest = D
    OBVIOUS
  <2>. QED  BY <2>1 DEF Moved
<1>2. N \in Nat /\ \A k \in D : rest[k] \in B
  OBVIOUS
<1>3. \A k \in D : k \in late => k + d \in D /\ k + d \in Nat /\ k + d > k
  BY <1>2
<1>. HIDE DEF N
<1>4. \E g : g = [k \in D |-> next(g, k)]
  <2>. DEFINE S == {m \in Nat : \E g : Solves(g, m)}
  <2>1. 0 \in S
    <3>1. Solves([k \in D |-> rest[k]], 0)
      BY <1>2
    <3>. HIDE DEF Solves
    <3>. QED  BY <3>1
  <2>2. ASSUME NEW m \in S
        PROVE  m + 1 \in S
    <3>1. PICK g : Solves(g, m)
      OBVIOUS
    <3>. DEFINE h == [k \in D |-> IF k + (m + 1) <= N THEN rest[k] ELSE next(g, k)]
    <3>2. ASSUME NEW k \in D, ~(k + (m + 1) <= N)
          PROVE  next(h, k) = next(g, k)
      <4>1. CASE k \notin late
        BY <4>1
      <4>2. CASE k \in late
        <5>. DEFINE e == k + d
        <5>1. e \in D /\ e \in Nat /\ e > k
          BY <4>2, <1>3
        <5>. HIDE DEF e
        <5>2. m \in Nat /\ ~(e + m <= N) /\ ~(e + (m + 1) <= N)
          BY <5>1, <3>2, <1>2
        <5>3. h[e] = next(g, e)
          BY <5>1, <5>2
        <5>4. g[e] = next(g, e)
          <6>. HIDE DEF next
          <6>. QED  BY <5>1, <5>2, <3>1
        <5>5. h[e] = g[e]
          BY <5>3, <5>4
        <5>. HIDE DEF h
        <5>. QED  BY <4>2, <5>5 DEF e
      <4>. QED  BY <4>1, <4>2
    <3>3. Solves(h, m + 1)
      <4>1. \A k \in D : h[k] = IF k + (m + 1) <= N THEN rest[k] ELSE next(h, k)
        <5>. SUFFICES ASSUME NEW k \in D
                      PROVE  h[k] = IF k + (m + 1) <= N THEN rest[k] ELSE next(h, k)
          OBVIOUS
        <5>1. h[k] = IF k + (m + 1) <= N THEN rest[k] ELSE next(g, k)
          OBVIOUS
        <5>. HIDE DEF h, next
        <5>. QED  BY <5>1, <3>2
      <4>2. h = [k \in D |-> h[k]]
        OBVIOUS
      <4>. HIDE DEF h, next
      <4>. QED  BY <4>1, <4>2
    <3>. HIDE DEF Solves
    <3>. QED  BY <3>3
  <2>. HIDE DEF Solves
  <2>3. S = Nat
    BY <2>1, <2>2, Induction
  <2>4. PICK g : Solves(g, N)
    BY <2>3, <1>2
  <2>5. \A k \in D : ~(k + N <= N)
    BY <1>2
  <2>6. g = [k \in D |-> next(g, k)]
    <3>. HIDE DEF next
    <3>. QED  BY <2>4, <2>5 DEF Solves
  <2>. QED  BY <2>6
<1>5. byte = [k \in D |-> next(byte, k)]
  <2>. HIDE DEF next
  <2>. QED  BY <1>4
<1>. HIDE DEF byte
<1>6. \A k \in D : byte[k] \in B
  <2>. DEFINE S == {m \in Nat : \A k \in D : k + m > N => byte[k] \in B}
  <2>1. 0 \in S
    BY <1>2
  <2>2. ASSUME NEW m \in S
        PROVE  m + 1 \in S
    <3>. SUFFICES ASSUME NEW k \in D, k + (m + 1) > N
                  PROVE  byte[k] \in B
      OBVIOUS
    <3>1. CASE k \notin late
      BY <3>1, <1>2, <1>5
    <3>2. CASE k \in late
      <4>. DEFINE e == k + d
      <4>1. e \in D /\ e \in Nat /\ e > k
        BY <3>2, <1>3
      <4>2. byte[k] = byte[e]
        BY <3>2, <1>5
      <4>. HIDE DEF e
      <4>3. e + m > N
        BY <4>1, <1>2
      <4>. QED  BY <4>1, <4>2, <4>3
    <3>. QED  BY <3>1, <3>2
  <2>. HIDE DEF S
  <2>3. N \in S
    BY <2>1, <2>2, <1>2, Induction DEF S
  <2>. QED  BY <2>3, <1>2 DEF S
<1>7. byte \in [D -> B]
  BY <1>5, <1>6
<1>8. byte \in Seq(B) /\ Len(byte) = N
  BY <1>2, <1>7
<1>. QED  BY <1>1, <1>8 DEF N

(* What parse makes of any bytes at all.                                   *)
LEMMA ParseFacts ==
  ASSUME NEW B, NEW data \in Seq(B)
  PROVE  /\ \E k \in Nat : DOMAIN Messages(data) = 1 .. k
         /\ Taken(data) \in Nat
         /\ Left(data) \in Seq(B)
         /\ Len(Left(data)) <= Len(data)
<1>1. Messages(data) \in Seq(Seq(B))
  <2>1. 1 \in 1 .. Len(data) + 1
    OBVIOUS
  <2>. QED  BY <2>1, MessagesFrom
<1>2. \E k \in Nat : DOMAIN Messages(data) = 1 .. k
  <2>. DEFINE T == Seq(B)
  <2>1. Messages(data) \in Seq(T)
    BY <1>1
  <2>. HIDE DEF T
  <2>. QED  BY <2>1
<1>3. Taken(data) \in Nat
  <2>1. <<>> \in Seq(B)
    OBVIOUS
  <2>2. FlattenSeq(Messages(data)) \in Seq(B)
    BY <1>1, <2>1, FlattenAppend
  <2>. QED  BY <2>2 DEF Taken
<1>4. Left(data) \in Seq(B) /\ Len(Left(data)) <= Len(data)
  <2>. DEFINE m == Taken(data) + 1
              n == Len(data)
  <2>1. m \in Nat /\ m >= 1 /\ n \in Nat
    BY <1>3
  <2>2. \A i \in m .. n : data[i] \in B
    BY <2>1, ElementOfSeq
  <2>. HIDE DEF m, n
  <2>3. /\ SubSeq(data, m, n) \in Seq(B)
        /\ Len(SubSeq(data, m, n)) = IF m <= n THEN n - m + 1 ELSE 0
    BY <2>1, <2>2, SubSeqProperties
  <2>4. Len(SubSeq(data, m, n)) <= n
    BY <2>1, <2>3
  <2>. QED  BY <2>3, <2>4 DEF Left, m, n
<1>. QED  BY <1>2, <1>3, <1>4

(* And what may then be at the front of the buffer.                        *)
LEMMA MovesFacts ==
  ASSUME NEW B, NEW data \in Seq(B), NEW moved \in Moves(data)
  PROVE  /\ moved \in Seq(B)
         /\ Len(moved) \in Nat
         /\ Len(moved) <= Len(data)
         /\ Exposed(data) = {} => moved = Left(data)
<1>. DEFINE rest == Left(data)
            d == Taken(data)
<1>1. rest \in Seq(B) /\ Len(rest) <= Len(data) /\ d \in Nat
  BY ParseFacts
<1>2. PICK late \in SUBSET Exposed(data) : moved = Moved(rest, d, late)
  BY DEF Moves
<1>3. d = 0 => Exposed(data) = {}
  BY DEF Exposed
<1>4. d # 0 => Exposed(data) = 1 .. Len(rest) - d
  BY DEF Exposed
<1>. HIDE DEF rest, d
<1>5. CASE Exposed(data) = {}
  <2>1. late = {}
    BY <1>5
  <2>2. moved = rest
    BY <2>1, <1>1, <1>2, MovedNone
  <2>. QED  BY <2>2, <1>1 DEF rest
<1>6. CASE Exposed(data) # {}
  <2>1. d \in Nat \ {0} /\ \A k \in late : k \in Nat /\ k + d <= Len(rest)
    <3>1. Len(rest) \in Nat /\ d # 0 /\ late \subseteq 1 .. Len(rest) - d
      BY <1>1, <1>3, <1>4, <1>6
    <3>. QED  BY <3>1, <1>1
  <2>2. moved \in Seq(B) /\ Len(moved) = Len(rest)
    BY <2>1, <1>1, <1>2, MovedFacts
  <2>. QED  BY <2>2, <1>1, <1>6
<1>. QED  BY <1>5, <1>6

----------------------------------------------------------------------------
(* The bytes of a stream s, which need not be the present one.             *)

Byte == Nat \X Nat

BytesOf(s, i) == [j \in 1 .. s[i].len |-> <<i, s[i].len - j>>]

(* Those of the k messages behind the c-th.                                *)
Run(s, c, k) == FlattenSeq([j \in 1 .. k |-> BytesOf(s, c + j)])

(* How many bytes the first k messages have.                               *)
Off(s, k) == Len(Run(s, 0, k))

(* The messages of a stream.                                               *)
LEMMA StreamFacts ==
  ASSUME NEW s \in Streams
  PROVE  /\ Len(s) \in Nat /\ DOMAIN s = 1 .. Len(s)
         /\ \A i \in 1 .. Len(s) :
              /\ s[i].len \in Nat /\ s[i].len >= 8
              /\ s[i].kind \in Kind /\ s[i].hb \in Nat
              /\ BytesOf(s, i) \in Seq(Byte)
              /\ Len(BytesOf(s, i)) = s[i].len
              /\ \A j \in 1 .. s[i].len : BytesOf(s, i)[j] = <<i, s[i].len - j>>
<1>1. /\ s \in Seq([kind : Kind, len : Nat, hb : Nat])
      /\ \A i \in DOMAIN s : s[i].len >= 8
  BY StreamAssumption, NeedleIs
<1>2. Len(s) \in Nat /\ DOMAIN s = 1 .. Len(s)
  BY <1>1
<1>3. ASSUME NEW i \in 1 .. Len(s)
      PROVE  /\ s[i].len \in Nat /\ s[i].len >= 8
             /\ s[i].kind \in Kind /\ s[i].hb \in Nat
             /\ BytesOf(s, i) \in Seq(Byte)
             /\ Len(BytesOf(s, i)) = s[i].len
             /\ \A j \in 1 .. s[i].len : BytesOf(s, i)[j] = <<i, s[i].len - j>>
  <2>1. s[i] \in [kind : Kind, len : Nat, hb : Nat] /\ s[i].len >= 8
    <3>1. s[i].len >= 8
      BY <1>1, <1>2
    <3>. DEFINE M == [kind : Kind, len : Nat, hb : Nat]
    <3>2. s \in Seq(M)
      BY <1>1
    <3>. HIDE DEF M
    <3>3. s[i] \in M
      BY <3>2, ElementOfSeq
    <3>. QED  BY <3>1, <3>3 DEF M
  <2>. DEFINE n == s[i].len
  <2>2. n \in Nat /\ s[i].kind \in Kind /\ s[i].hb \in Nat
    BY <2>1
  <2>3. BytesOf(s, i) = [j \in 1 .. n |-> <<i, n - j>>]
    BY DEF BytesOf
  <2>. HIDE DEF n
  <2>4. \A j \in 1 .. n : <<i, n - j>> \in Byte
    BY <2>2 DEF Byte
  <2>5. BytesOf(s, i) \in [1 .. n -> Byte]
    BY <2>3, <2>4
  <2>6. BytesOf(s, i) \in Seq(Byte) /\ Len(BytesOf(s, i)) = n
    BY <2>2, <2>5
  <2>. QED  BY <2>1, <2>2, <2>3, <2>6 DEF n
<1>. QED  BY <1>2, <1>3

(* Runs grow by one message at a time.                                     *)
LEMMA RunGrows ==
  ASSUME NEW s \in Streams, NEW c \in Nat
  PROVE  /\ Run(s, c, 0) = <<>>
         /\ \A k \in Nat : c + k <= Len(s) => Run(s, c, k) \in Seq(Byte)
         /\ \A k \in Nat : c + k + 1 <= Len(s) =>
              Run(s, c, k + 1) = Run(s, c, k) \o BytesOf(s, c + k + 1)
<1>. DEFINE ms(k) == [j \in 1 .. k |-> BytesOf(s, c + j)]
            T == Seq(Byte)
<1>1. ASSUME NEW k \in Nat, c + k <= Len(s)
      PROVE  ms(k) \in Seq(T) /\ Len(ms(k)) = k
  <2>1. ASSUME NEW j \in 1 .. k
        PROVE  BytesOf(s, c + j) \in T
    <3>1. c + j \in 1 .. Len(s)
      BY <1>1, StreamFacts
    <3>. QED  BY <3>1, StreamFacts
  <2>. HIDE DEF T
  <2>2. ms(k) \in [1 .. k -> T]
    BY <2>1
  <2>. HIDE DEF ms
  <2>. QED  BY <2>2
<1>2. ms(0) = <<>>
  <2>1. ms(0) \in Seq({}) /\ Len(ms(0)) = 0
    <3>1. ms(0) \in [1 .. 0 -> {}]
      OBVIOUS
    <3>. HIDE DEF ms
    <3>. QED  BY <3>1
  <2>. HIDE DEF ms
  <2>. QED  BY <2>1, EmptySeq
<1>3. ASSUME NEW k \in Nat, c + k + 1 <= Len(s)
      PROVE  ms(k + 1) = Append(ms(k), BytesOf(s, c + k + 1))
  <2>1. /\ ms(k) \in Seq(T) /\ Len(ms(k)) = k
        /\ ms(k + 1) \in Seq(T) /\ Len(ms(k + 1)) = k + 1
    <3>1. c + k <= Len(s) /\ c + (k + 1) <= Len(s)
      BY <1>3, StreamFacts
    <3>. HIDE DEF ms, T
    <3>. QED  BY <3>1, <1>1
  <2>2. BytesOf(s, c + k + 1) \in T
    <3>1. c + k + 1 \in 1 .. Len(s)
      BY <1>3, StreamFacts
    <3>. QED  BY <3>1, StreamFacts
  <2>3. /\ \A j \in 1 .. k : ms(k + 1)[j] = ms(k)[j]
        /\ ms(k + 1)[k + 1] = BytesOf(s, c + k + 1)
    <3>1. c + (k + 1) = c + k + 1 /\ k + 1 \in 1 .. k + 1 /\ 1 .. k \subseteq 1 .. k + 1
      OBVIOUS
    <3>. QED  BY <3>1
  <2>. HIDE DEF ms, T
  <2>. DEFINE a == Append(ms(k), BytesOf(s, c + k + 1))
  <2>4. /\ a \in Seq(T) /\ Len(a) = k + 1 /\ a[k + 1] = BytesOf(s, c + k + 1)
        /\ \A j \in 1 .. k : a[j] = ms(k)[j]
    BY <2>1, <2>2, AppendProperties
  <2>. HIDE DEF a
  <2>5. \A j \in 1 .. k + 1 : j \in 1 .. k \/ j = k + 1
    OBVIOUS
  <2>6. \A j \in 1 .. k + 1 : ms(k + 1)[j] = a[j]
    BY <2>3, <2>4, <2>5
  <2>7. ms(k + 1) = a
    BY <2>1, <2>4, <2>6, SeqEqual
  <2>. QED  BY <2>7 DEF a
<1>4. \A k \in Nat : Run(s, c, k) = FlattenSeq(ms(k))
  BY DEF Run
<1>. HIDE DEF ms
<1>5. Run(s, c, 0) = <<>>
  BY <1>2, <1>4 DEF FlattenSeq
<1>6. ASSUME NEW k \in Nat, c + k <= Len(s)
      PROVE  Run(s, c, k) \in Seq(Byte)
  <2>1. <<>> \in Seq(Byte)
    OBVIOUS
  <2>. QED  BY <2>1, <1>1, <1>4, <1>6, FlattenAppend
<1>7. ASSUME NEW k \in Nat, c + k + 1 <= Len(s)
      PROVE  Run(s, c, k + 1) = Run(s, c, k) \o BytesOf(s, c + k + 1)
  <2>1. c + k + 1 \in 1 .. Len(s) /\ c + k <= Len(s) /\ k + 1 \in Nat
    BY <1>7, StreamFacts
  <2>2. ms(k) \in Seq(Seq(Byte)) /\ BytesOf(s, c + k + 1) \in Seq(Byte)
    BY <2>1, <1>1, StreamFacts
  <2>3. /\ Run(s, c, k) = FlattenSeq(ms(k))
        /\ Run(s, c, k + 1) = FlattenSeq(ms(k + 1))
    BY <2>1, <1>4
  <2>4. ms(k + 1) = Append(ms(k), BytesOf(s, c + k + 1))
    BY <1>3, <1>7
  <2>5. FlattenSeq(Append(ms(k), BytesOf(s, c + k + 1)))
          = FlattenSeq(ms(k)) \o BytesOf(s, c + k + 1)
    BY <2>2, FlattenAppend
  <2>. QED  BY ONLY <2>3, <2>4, <2>5, Zenon
<1>. QED  BY <1>5, <1>6, <1>7

(* Where the messages of a stream end.                                     *)
LEMMA OffFacts ==
  ASSUME NEW s \in Streams
  PROVE  /\ Off(s, 0) = 0
         /\ \A k \in 0 .. Len(s) : Off(s, k) \in Nat
         /\ \A k \in 0 .. Len(s) - 1 : Off(s, k + 1) = Off(s, k) + s[k + 1].len
         /\ \A k, m \in 0 .. Len(s) : k <= m => Off(s, k) <= Off(s, m)
         /\ \A k, m \in 0 .. Len(s) : k < m => Off(s, k) + 8 <= Off(s, m)
<1>1. Len(s) \in Nat
  BY StreamFacts
<1>2. Off(s, 0) = 0
  BY RunGrows DEF Off
<1>3. ASSUME NEW k \in 0 .. Len(s)
      PROVE  Off(s, k) \in Nat
  <2>1. k \in Nat /\ 0 + k <= Len(s)
    BY <1>1
  <2>2. Run(s, 0, k) \in Seq(Byte)
    BY <2>1, RunGrows
  <2>. QED  BY <2>2 DEF Off
<1>4. ASSUME NEW k \in 0 .. Len(s) - 1
      PROVE  Off(s, k + 1) = Off(s, k) + s[k + 1].len
  <2>1. k \in Nat /\ 0 + k + 1 <= Len(s) /\ 0 + k + 1 = k + 1 /\ 0 + k <= Len(s)
        /\ k + 1 \in 1 .. Len(s)
    BY <1>1
  <2>2. Run(s, 0, k + 1) = Run(s, 0, k) \o BytesOf(s, k + 1)
    BY <2>1, RunGrows
  <2>3. /\ Run(s, 0, k) \in Seq(Byte) /\ BytesOf(s, k + 1) \in Seq(Byte)
        /\ Len(BytesOf(s, k + 1)) = s[k + 1].len
    BY <2>1, RunGrows, StreamFacts
  <2>. QED  BY <2>2, <2>3, ConcatProperties DEF Off
<1>5. ASSUME NEW k \in 0 .. Len(s) - 1
      PROVE  Off(s, k) + 8 <= Off(s, k + 1) /\ k \in 0 .. Len(s) /\ k + 1 \in 0 .. Len(s)
  <2>1. k + 1 \in 1 .. Len(s) /\ k \in 0 .. Len(s) /\ k + 1 \in 0 .. Len(s)
    BY <1>1
  <2>2. s[k + 1].len \in Nat /\ s[k + 1].len >= 8 /\ Off(s, k) \in Nat
    BY <2>1, <1>3, StreamFacts
  <2>. QED  BY <2>1, <2>2, <1>4
<1>6. \A k, m \in 0 .. Len(s) : k < m => Off(s, k) + 8 <= Off(s, m)
  <2>. DEFINE S == {d \in Nat : \A k, m \in 0 .. Len(s) :
                                  k < m /\ m <= k + d => Off(s, k) + 8 <= Off(s, m)}
  <2>1. 0 \in S
    BY <1>1
  <2>2. ASSUME NEW d \in S
        PROVE  d + 1 \in S
    <3>. SUFFICES ASSUME NEW k \in 0 .. Len(s), NEW m \in 0 .. Len(s),
                         k < m, m <= k + (d + 1)
                  PROVE  Off(s, k) + 8 <= Off(s, m)
      OBVIOUS
    <3>1. m - 1 \in 0 .. Len(s) - 1 /\ (m - 1) + 1 = m
      BY <1>1
    <3>2. /\ Off(s, m - 1) + 8 <= Off(s, m) /\ m - 1 \in 0 .. Len(s)
          /\ Off(s, m - 1) \in Nat /\ Off(s, m) \in Nat /\ Off(s, k) \in Nat
      BY <3>1, <1>3, <1>5
    <3>3. CASE k = m - 1
      BY <3>2, <3>3
    <3>4. CASE k # m - 1
      <4>1. k < m - 1 /\ m - 1 <= k + d
        BY <1>1, <3>4
      <4>2. Off(s, k) + 8 <= Off(s, m - 1)
        BY <4>1, <3>2
      <4>. QED  BY <4>2, <3>2
    <3>. QED  BY <3>3, <3>4
  <2>. HIDE DEF S
  <2>3. Len(s) \in S
    BY <2>1, <2>2, <1>1, Induction DEF S
  <2>. QED  BY <2>3, <1>1 DEF S
<1>7. ASSUME NEW k \in 0 .. Len(s), NEW m \in 0 .. Len(s), k <= m
      PROVE  Off(s, k) <= Off(s, m)
  <2>1. Off(s, k) \in Nat /\ Off(s, m) \in Nat
    BY <1>3
  <2>2. k = m \/ k < m
    BY <1>1, <1>7
  <2>. QED  BY <2>1, <2>2, <1>6
<1>. QED  BY <1>2, <1>3, <1>4, <1>6, <1>7

(* How long a run is.                                                      *)
LEMMA RunLength ==
  ASSUME NEW s \in Streams, NEW c \in 0 .. Len(s), NEW k \in Nat, c + k <= Len(s)
  PROVE  Len(Run(s, c, k)) = Off(s, c + k) - Off(s, c)
<1>1. Len(s) \in Nat
  BY StreamFacts
<1>. DEFINE S == {n \in Nat : c + n <= Len(s) =>
                               Len(Run(s, c, n)) = Off(s, c + n) - Off(s, c)}
<1>2. 0 \in S
  <2>1. Len(Run(s, c, 0)) = 0 /\ c + 0 = c /\ Off(s, c) \in Nat
    BY <1>1, RunGrows, OffFacts
  <2>. QED  BY <2>1
<1>3. ASSUME NEW n \in S
      PROVE  n + 1 \in S
  <2>. SUFFICES ASSUME c + (n + 1) <= Len(s)
                PROVE  Len(Run(s, c, n + 1)) = Off(s, c + (n + 1)) - Off(s, c)
    OBVIOUS
  <2>1. /\ n \in Nat /\ c \in Nat /\ c + n + 1 <= Len(s) /\ c + n <= Len(s)
        /\ c + n + 1 \in 1 .. Len(s) /\ c + n \in 0 .. Len(s) - 1
        /\ c + (n + 1) = c + n + 1 /\ (c + n) + 1 = c + n + 1 /\ c + n \in 0 .. Len(s)
    BY <1>1
  <2>2. Run(s, c, n + 1) = Run(s, c, n) \o BytesOf(s, c + n + 1)
    BY <2>1, RunGrows
  <2>3. /\ Run(s, c, n) \in Seq(Byte) /\ BytesOf(s, c + n + 1) \in Seq(Byte)
        /\ Len(BytesOf(s, c + n + 1)) = s[c + n + 1].len
    BY <2>1, RunGrows, StreamFacts
  <2>4. Len(Run(s, c, n + 1)) = Len(Run(s, c, n)) + s[c + n + 1].len
    <3>. DEFINE a == Run(s, c, n)
                b == BytesOf(s, c + n + 1)
    <3>1. /\ Run(s, c, n + 1) = a \o b /\ a \in Seq(Byte) /\ b \in Seq(Byte)
          /\ Len(b) = s[c + n + 1].len
      BY <2>2, <2>3
    <3>. HIDE DEF a, b
    <3>2. a \in Seq(Byte) /\ b \in Seq(Byte)
      BY <3>1
    <3>3. Len(a \o b) = Len(a) + Len(b)
      BY ONLY <3>2, ConcatProperties
    <3>. QED  BY <3>1, <3>3 DEF a
  <2>5. Off(s, c + n + 1) = Off(s, c + n) + s[c + n + 1].len
    BY <2>1, OffFacts
  <2>6. Len(Run(s, c, n)) = Off(s, c + n) - Off(s, c)
    BY <2>1
  <2>7. Off(s, c + n) \in Nat /\ Off(s, c) \in Nat /\ s[c + n + 1].len \in Nat
    BY <2>1, <1>1, OffFacts, StreamFacts
  <2>. DEFINE o == Off(s, c)
              t == Off(s, c + n)
              l == s[c + n + 1].len
  <2>8. /\ o \in Nat /\ t \in Nat /\ l \in Nat
        /\ Len(Run(s, c, n + 1)) = (t - o) + l
        /\ Off(s, c + n + 1) - o = (t + l) - o
    BY <2>4, <2>5, <2>6, <2>7
  <2>. HIDE DEF o, t, l
  <2>9. (t - o) + l = (t + l) - o
    BY ONLY <2>8
  <2>10. c + (n + 1) = c + n + 1
    BY <2>1
  <2>. QED  BY ONLY <2>8, <2>9, <2>10, Zenon DEF o
<1>. HIDE DEF S
<1>4. k \in S
  BY <1>2, <1>3, Induction DEF S
<1>. QED  BY <1>4 DEF S

(* All the bytes of a stream.                                              *)
All(s) == Run(s, 0, Len(s))

(* What is behind the first messages changes nothing in front of it.       *)
LEMMA RunPrefix ==
  ASSUME NEW s \in Streams, NEW k \in 0 .. Len(s)
  PROVE  \A p \in 1 .. Off(s, k) : All(s)[p] = Run(s, 0, k)[p]
<1>1. Len(s) \in Nat /\ k \in Nat
  BY StreamFacts
<1>. DEFINE S == {n \in Nat : k + n <= Len(s) =>
                    \A p \in 1 .. Off(s, k) : Run(s, 0, k + n)[p] = Run(s, 0, k)[p]}
<1>2. 0 \in S
  BY <1>1
<1>3. ASSUME NEW n \in S
      PROVE  n + 1 \in S
  <2>. SUFFICES ASSUME k + (n + 1) <= Len(s), NEW p \in 1 .. Off(s, k)
                PROVE  Run(s, 0, k + (n + 1))[p] = Run(s, 0, k)[p]
    OBVIOUS
  <2>. DEFINE m == k + n
  <2>1. /\ n \in Nat /\ m \in Nat /\ m + 1 = k + (n + 1) /\ m \in 0 .. Len(s)
        /\ 0 + m + 1 <= Len(s) /\ 0 + m <= Len(s) /\ 0 + m + 1 \in 1 .. Len(s)
        /\ k <= m /\ k + n <= Len(s)
    BY <1>1
  <2>2. Run(s, 0, m)[p] = Run(s, 0, k)[p]
    BY <2>1
  <2>. HIDE DEF m
  <2>3. Run(s, 0, m + 1) = Run(s, 0, m) \o BytesOf(s, 0 + m + 1)
    BY <2>1, RunGrows
  <2>4. Run(s, 0, m) \in Seq(Byte) /\ BytesOf(s, 0 + m + 1) \in Seq(Byte)
    BY <2>1, RunGrows, StreamFacts
  <2>5. Off(s, k) <= Off(s, m) /\ Off(s, m) \in Nat /\ Off(s, k) \in Nat
    BY <2>1, OffFacts
  <2>6. p \in 1 .. Len(Run(s, 0, m))
    BY <2>5 DEF Off
  <2>7. (Run(s, 0, m) \o BytesOf(s, 0 + m + 1))[p] = Run(s, 0, m)[p]
    BY <2>4, <2>6, ConcatProperties
  <2>. QED  BY <2>1, <2>2, <2>3, <2>7
<1>. HIDE DEF S
<1>4. Len(s) - k \in S
  <2>1. Len(s) - k \in Nat
    BY <1>1
  <2>2. S \in SUBSET Nat
    BY DEF S
  <2>3. S = Nat
    BY <1>2, <1>3, <2>2, Induction
  <2>. QED  BY <2>1, <2>3
<1>5. k + (Len(s) - k) = Len(s)
  BY <1>1
<1>. QED  BY <1>4, <1>5 DEF S, All

(* Which byte is where: the j-th of the message behind the k-th.           *)
LEMMA ByteAt ==
  ASSUME NEW s \in Streams, NEW k \in 0 .. Len(s) - 1, NEW j \in 1 .. s[k + 1].len
  PROVE  All(s)[Off(s, k) + j] = <<k + 1, s[k + 1].len - j>>
<1>1. /\ k \in Nat /\ 0 + k + 1 <= Len(s) /\ 0 + k + 1 = k + 1 /\ 0 + k <= Len(s)
      /\ k + 1 \in 1 .. Len(s) /\ k \in 0 .. Len(s) /\ k + 1 \in 0 .. Len(s)
  BY StreamFacts
<1>2. /\ Run(s, 0, k + 1) = Run(s, 0, k) \o BytesOf(s, k + 1)
      /\ Run(s, 0, k) \in Seq(Byte)
  BY <1>1, RunGrows
<1>3. /\ BytesOf(s, k + 1) \in Seq(Byte) /\ s[k + 1].len \in Nat
      /\ Len(BytesOf(s, k + 1)) = s[k + 1].len
      /\ BytesOf(s, k + 1)[j] = <<k + 1, s[k + 1].len - j>>
  BY <1>1, StreamFacts
<1>4. /\ Off(s, k) \in Nat /\ Off(s, k + 1) = Off(s, k) + s[k + 1].len
      /\ Off(s, k) = Len(Run(s, 0, k))
  BY <1>1, OffFacts DEF Off
<1>. DEFINE p == Off(s, k) + j
<1>5. p \in 1 .. Off(s, k + 1) /\ ~(p <= Off(s, k)) /\ p - Off(s, k) = j
  BY <1>3, <1>4
<1>6. All(s)[p] = Run(s, 0, k + 1)[p]
  <2>. HIDE DEF p
  <2>. QED  BY <1>1, <1>5, RunPrefix
<1>7. (Run(s, 0, k) \o BytesOf(s, k + 1))[p] = BytesOf(s, k + 1)[p - Off(s, k)]
  <2>. HIDE DEF p
  <2>. QED  BY <1>2, <1>3, <1>4, <1>5, ConcatProperties
<1>. QED  BY <1>2, <1>3, <1>5, <1>6, <1>7

(* Every byte belongs to a message.                                        *)
LEMMA InMessage ==
  ASSUME NEW s \in Streams, NEW p \in 1 .. Off(s, Len(s))
  PROVE  \E k \in 0 .. Len(s) - 1 : Off(s, k) < p /\ p <= Off(s, k + 1)
<1>. DEFINE T == {k \in 0 .. Len(s) : p <= Off(s, k)}
<1>1. Len(s) \in Nat /\ Len(s) \in 0 .. Len(s) /\ Off(s, Len(s)) \in Nat /\ Off(s, 0) = 0
  BY StreamFacts, OffFacts
<1>2. Len(s) \in T /\ T \in SUBSET Nat
  BY <1>1
<1>3. PICK m \in T : \A k \in T : m <= k
  <2>. HIDE DEF T
  <2>. QED  BY <1>2, LeastOf
<1>4. m # 0
  BY <1>1, <1>3
<1>5. m - 1 \in 0 .. Len(s) - 1 /\ (m - 1) + 1 = m /\ m - 1 \in 0 .. Len(s) /\ ~(m <= m - 1)
  BY <1>1, <1>4
<1>6. ~(p <= Off(s, m - 1))
  BY <1>3, <1>5
<1>7. Off(s, m - 1) \in Nat
  BY <1>5, OffFacts
<1>. QED  BY <1>5, <1>6, <1>7

----------------------------------------------------------------------------
(* The messages that are cut out of a part of a stream.                    *)

(* The second character of the marker is in one place of a message.        *)
LEMMA CharFacts ==
  ASSUME NEW byte, byte[2] \in Nat
  PROVE  /\ Char(byte) = "1" => byte[2] = 6
         /\ \A i \in 1 .. 4 : byte[2] = 8 - i => Char(byte) = Needle[i]
<1>. DEFINE n == byte[2]
<1>1. n \in Nat /\ Char(byte) = IF n < 8 THEN Trailer[8 - n] ELSE "other"
  BY NeedleIs DEF Char
<1>. HIDE DEF n
<1>2. /\ Trailer[1] = "SOH" /\ Trailer[2] = "1" /\ Trailer[3] = "0" /\ Trailer[4] = "="
      /\ Trailer[5] = "digit" /\ Trailer[6] = "digit" /\ Trailer[7] = "digit"
      /\ Trailer[8] = "SOH"
  BY DEF Trailer
<1>3. Needle[1] = "SOH" /\ Needle[2] = "1" /\ Needle[3] = "0" /\ Needle[4] = "="
  BY NeedleIs
<1>4. ASSUME Char(byte) = "1"
      PROVE  n = 6
  <2>1. n < 8 /\ Trailer[8 - n] = "1"
    BY <1>1, <1>4
  <2>2. 8 - n \in 1 .. 8
    BY <1>1, <2>1
  <2>3. \A i \in 1 .. 8 : i = 1 \/ i = 2 \/ i = 3 \/ i = 4 \/ i = 5 \/ i = 6 \/ i = 7 \/ i = 8
    OBVIOUS
  <2>4. \A i \in 1 .. 8 : Trailer[i] = "1" => i = 2
    BY <1>2, <2>3
  <2>5. 8 - n = 2
    BY <2>1, <2>2, <2>4
  <2>. QED  BY <1>1, <2>5
<1>5. ASSUME NEW i \in 1 .. 4, n = 8 - i
      PROVE  Char(byte) = Needle[i]
  <2>1. n < 8 /\ 8 - n = i
    BY <1>5
  <2>2. Char(byte) = Trailer[i]
    BY <1>1, <2>1
  <2>3. i = 1 \/ i = 2 \/ i = 3 \/ i = 4
    OBVIOUS
  <2>. QED  BY <1>2, <1>3, <2>2, <2>3
<1>. QED  BY <1>4, <1>5 DEF n

(* data are the bytes of the stream s behind its c-th message.             *)
BytesBehind(s, c, data) ==
  /\ data \in Seq(Byte)
  /\ Off(s, c) + Len(data) <= Off(s, Len(s))
  /\ \A x \in 1 .. Len(data) : data[x] = All(s)[Off(s, c) + x]

(* The marker is found where a message ends, and nowhere else.             *)
LEMMA HitFacts ==
  ASSUME NEW s \in Streams, NEW c \in 0 .. Len(s), NEW data, BytesBehind(s, c, data)
  PROVE  /\ \A p \in Hits(data) :
              \E k \in c .. Len(s) - 1 : Off(s, c) + p + 7 = Off(s, k + 1)
         /\ \A k \in c .. Len(s) - 1 :
              Off(s, k + 1) <= Off(s, c) + Len(data) =>
                Off(s, k + 1) - 7 - Off(s, c) \in Hits(data)
<1>1. /\ Len(s) \in Nat /\ Len(data) \in Nat /\ Off(s, c) \in Nat
      /\ \A k \in 0 .. Len(s) : Off(s, k) \in Nat
      /\ Len(s) \in 0 .. Len(s)
  BY StreamFacts, OffFacts DEF BytesBehind
<1>2. /\ Off(s, c) + Len(data) <= Off(s, Len(s))
      /\ \A x \in 1 .. Len(data) : data[x] = All(s)[Off(s, c) + x]
  BY DEF BytesBehind
<1>3. ASSUME NEW p \in Hits(data)
      PROVE  \E k \in c .. Len(s) - 1 : Off(s, c) + p + 7 = Off(s, k + 1)
  <2>1. p \in 1 .. Len(data) - 3 /\ Char(data[p + 2 - 1]) = "1"
    <3>1. 2 \in 1 .. Len(Needle) /\ Needle[2] = "1"
      BY NeedleIs
    <3>. QED  BY <3>1 DEF Hits
  <2>. DEFINE q == Off(s, c) + (p + 1)
  <2>2. /\ p + 1 \in 1 .. Len(data) /\ p + 2 - 1 = p + 1
        /\ q \in 1 .. Off(s, Len(s)) /\ q > Off(s, c)
    <3>. DEFINE o == Off(s, c)
                t == Off(s, Len(s))
                l == Len(data)
    <3>1. o \in Nat /\ t \in Nat /\ l \in Nat /\ o + l <= t /\ p \in 1 .. l - 3
      BY <1>1, <1>2, <2>1
    <3>. HIDE DEF o, t, l
    <3>2. p + 1 \in 1 .. l /\ p + 2 - 1 = p + 1 /\ o + (p + 1) > o
      BY ONLY <3>1
    <3>3. o + (p + 1) \in 1 .. t
      BY ONLY <3>1
    <3>. QED  BY <3>2, <3>3 DEF o, t, l
  <2>3. Char(All(s)[q]) = "1"
    BY <1>2, <2>1, <2>2
  <2>. HIDE DEF q
  <2>4. PICK k \in 0 .. Len(s) - 1 : Off(s, k) < q /\ q <= Off(s, k + 1)
    BY <2>2, InMessage
  <2>. DEFINE j == q - Off(s, k)
              n == s[k + 1].len
  <2>5. /\ k \in 0 .. Len(s) /\ k + 1 \in 0 .. Len(s) /\ k + 1 \in 1 .. Len(s)
        /\ Off(s, k + 1) = Off(s, k) + n /\ n \in Nat /\ Off(s, k) \in Nat
    BY <1>1, StreamFacts, OffFacts
  <2>6. j \in 1 .. n /\ Off(s, k) + j = q
    <3>. DEFINE o == Off(s, k)
    <3>1. o \in Nat /\ q \in Nat /\ n \in Nat /\ o < q /\ q <= o + n
      BY <2>2, <2>4, <2>5
    <3>. HIDE DEF o, n
    <3>2. q - o \in 1 .. n /\ o + (q - o) = q
      BY ONLY <3>1
    <3>. QED  BY <3>2 DEF o
  <2>. HIDE DEF j, n
  <2>7. All(s)[q] = <<k + 1, n - j>>
    BY <2>6, ByteAt DEF n
  <2>8. n - j = 6
    <3>1. All(s)[q][2] = n - j /\ n - j \in Nat
      BY <2>5, <2>6, <2>7
    <3>. QED  BY <2>3, <3>1, CharFacts
  <2>9. Off(s, c) + p + 7 = Off(s, k + 1)
    <3>1. /\ Off(s, c) \in Nat /\ p \in Nat /\ n \in Nat /\ j \in 1 .. n
          /\ q = Off(s, c) + (p + 1) /\ Off(s, k) \in Nat /\ Off(s, k) + j = q
          /\ n - j = 6 /\ Off(s, k + 1) = Off(s, k) + n
      BY <1>1, <2>1, <2>5, <2>6, <2>8 DEF q
    <3>. DEFINE o == Off(s, c)
                t == Off(s, k)
                u == Off(s, k + 1)
    <3>2. /\ o \in Nat /\ p \in Nat /\ n \in Nat /\ j \in 1 .. n /\ q = o + (p + 1)
          /\ t \in Nat /\ t + j = q /\ n - j = 6 /\ u = t + n
      BY <3>1
    <3>. HIDE DEF o, t, u
    <3>3. o + p + 7 = u
      BY ONLY <3>2
    <3>. QED  BY <3>3 DEF o, u
  <2>10. k >= c
    <3>. SUFFICES ASSUME k < c
                  PROVE  FALSE
      BY <1>1
    <3>1. k + 1 <= c /\ k + 1 \in 0 .. Len(s)
      BY <1>1, <2>5
    <3>2. Off(s, k + 1) <= Off(s, c)
      BY <3>1, OffFacts
    <3>. QED  BY <3>2, <1>1, <2>2, <2>4, <2>5
  <2>. QED  BY <1>1, <2>9, <2>10
<1>4. ASSUME NEW k \in c .. Len(s) - 1, Off(s, k + 1) <= Off(s, c) + Len(data)
      PROVE  Off(s, k + 1) - 7 - Off(s, c) \in Hits(data)
  <2>. DEFINE p == Off(s, k + 1) - 7 - Off(s, c)
              n == s[k + 1].len
  <2>1. /\ k \in 0 .. Len(s) - 1 /\ k \in 0 .. Len(s) /\ k + 1 \in 0 .. Len(s)
        /\ k + 1 \in 1 .. Len(s) /\ c < k + 1
    BY <1>1
  <2>2. /\ Off(s, k + 1) = Off(s, k) + n /\ n \in Nat /\ n >= 8
        /\ Off(s, k) \in Nat /\ Off(s, k + 1) \in Nat
    BY <2>1, <1>1, StreamFacts, OffFacts
  <2>3. Off(s, c) + 8 <= Off(s, k + 1)
    BY <2>1, OffFacts
  <2>4. p \in 1 .. Len(data) - 3
    <3>. DEFINE o == Off(s, c)
                t == Off(s, k + 1)
                l == Len(data)
    <3>1. o \in Nat /\ t \in Nat /\ l \in Nat /\ t <= o + l /\ o + 8 <= t
      BY <1>1, <1>4, <2>2, <2>3
    <3>. HIDE DEF o, t, l
    <3>2. t - 7 - o \in 1 .. l - 3
      BY ONLY <3>1
    <3>. QED  BY <3>2 DEF o, t, l
  <2>5. ASSUME NEW i \in 1 .. 4
        PROVE  Char(data[p + i - 1]) = Needle[i]
    <3>. DEFINE j == n - 8 + i
    <3>1. /\ p + i - 1 \in 1 .. Len(data) /\ j \in 1 .. n
          /\ Off(s, c) + (p + i - 1) = Off(s, k) + j /\ n - j = 8 - i
      <4>. DEFINE o == Off(s, c)
                  t == Off(s, k)
                  u == Off(s, k + 1)
                  l == Len(data)
      <4>1. /\ o \in Nat /\ t \in Nat /\ l \in Nat /\ u = t + n /\ p = u - 7 - o
            /\ n \in Nat /\ n >= 8 /\ p \in 1 .. l - 3
        BY <1>1, <2>2, <2>4
      <4>. HIDE DEF o, t, u, l, p, n
      <4>2. p + i - 1 \in 1 .. l
        BY ONLY <4>1, i \in 1 .. 4
      <4>3. n - 8 + i \in 1 .. n /\ n - (n - 8 + i) = 8 - i
        BY ONLY <4>1, i \in 1 .. 4
      <4>4. o + (p + i - 1) = t + (n - 8 + i)
        BY ONLY <4>1, i \in 1 .. 4
      <4>. QED  BY <4>2, <4>3, <4>4 DEF o, t, l
    <3>. HIDE DEF p, j, n
    <3>2. All(s)[Off(s, k) + j] = <<k + 1, n - j>>
      BY <2>1, <3>1, ByteAt DEF n
    <3>3. data[p + i - 1] = <<k + 1, 8 - i>>
      BY <1>2, <3>1, <3>2
    <3>4. data[p + i - 1][2] = 8 - i /\ 8 - i \in Nat
      BY <3>3
    <3>. QED  BY <3>4, CharFacts
  <2>6. Len(Needle) = 4
    BY NeedleIs
  <2>. HIDE DEF p
  <2>7. p \in Hits(data)
    BY <2>4, <2>5, <2>6 DEF Hits
  <2>. QED  BY <2>7 DEF p
<1>. QED  BY <1>3, <1>4

(* The message behind the i-th ends where it should, if it is complete.    *)
LEMMA CutAt ==
  ASSUME NEW s \in Streams, NEW c \in 0 .. Len(s), NEW data, BytesBehind(s, c, data),
         NEW i \in c .. Len(s), Off(s, i) <= Off(s, c) + Len(data)
  PROVE  LET b == Off(s, i) - Off(s, c) + 1
         IN /\ b \in 1 .. Len(data) + 1
            /\ Ends(data, b) <=>
                 i < Len(s) /\ Off(s, i + 1) <= Off(s, c) + Len(data)
            /\ Ends(data, b) => End(data, b) = Off(s, i + 1) - Off(s, c)
<1>. DEFINE b == Off(s, i) - Off(s, c) + 1
<1>1. /\ Len(s) \in Nat /\ Len(data) \in Nat /\ data \in Seq(Byte)
      /\ c \in 0 .. Len(s) /\ i \in 0 .. Len(s) /\ c <= i
  BY StreamFacts DEF BytesBehind
<1>2. Off(s, c) \in Nat /\ Off(s, i) \in Nat /\ Off(s, c) <= Off(s, i)
  BY <1>1, OffFacts
<1>3. b \in 1 .. Len(data) + 1 /\ Off(s, c) + b = Off(s, i) + 1
  BY <1>1, <1>2
<1>. HIDE DEF b
<1>4. ASSUME Ends(data, b)
      PROVE  i < Len(s) /\ Off(s, i + 1) <= Off(s, c) + End(data, b)
  <2>. DEFINE e == End(data, b)
  <2>1. e \in Nat /\ e - 7 \in HitsFrom(data, b) /\ e <= Len(data)
    BY <1>1, <1>3, <1>4, EndFacts DEF Ends
  <2>. HIDE DEF e
  <2>2. e - 7 \in Hits(data) /\ e - 7 >= b
    BY <2>1 DEF HitsFrom
  <2>3. PICK k \in c .. Len(s) - 1 : Off(s, c) + (e - 7) + 7 = Off(s, k + 1)
    BY <2>2, HitFacts
  <2>4. Off(s, c) + e = Off(s, k + 1) /\ k + 1 \in 0 .. Len(s)
    BY <1>1, <1>2, <2>1, <2>3
  <2>5. i <= k
    <3>. SUFFICES ASSUME k < i
                  PROVE  FALSE
      BY <1>1
    <3>1. k + 1 <= i
      BY <1>1
    <3>2. Off(s, k + 1) <= Off(s, i)
      BY <3>1, <1>1, <2>4, OffFacts
    <3>. QED  BY <3>2, <1>2, <1>3, <2>1, <2>2, <2>4
  <2>6. i < Len(s) /\ i + 1 <= k + 1 /\ i + 1 \in 0 .. Len(s)
    BY <1>1, <2>5
  <2>7. Off(s, i + 1) <= Off(s, k + 1)
    BY <2>4, <2>6, OffFacts
  <2>. QED  BY <2>4, <2>6, <2>7 DEF e
<1>5. ASSUME i < Len(s), Off(s, i + 1) <= Off(s, c) + Len(data)
      PROVE  HitsFrom(data, b) # {} /\ End(data, b) <= Off(s, i + 1) - Off(s, c)
  <2>. DEFINE p == Off(s, i + 1) - 7 - Off(s, c)
  <2>1. i \in c .. Len(s) - 1 /\ i + 1 \in 0 .. Len(s)
    BY <1>1, <1>5
  <2>2. p \in Hits(data)
    BY <2>1, <1>5, HitFacts
  <2>3. Off(s, i) + 8 <= Off(s, i + 1) /\ Off(s, i + 1) \in Nat
    BY <1>1, <2>1, OffFacts
  <2>4. p >= b /\ p + 7 = Off(s, i + 1) - Off(s, c)
    BY <1>2, <2>3 DEF b
  <2>. HIDE DEF p
  <2>5. p \in HitsFrom(data, b)
    BY <2>2, <2>4 DEF HitsFrom
  <2>6. End(data, b) <= p + 7
    BY <2>5, <1>1, <1>3, EndFacts
  <2>. QED  BY <2>4, <2>5, <2>6
<1>6. ASSUME i < Len(s), Off(s, i + 1) <= Off(s, c) + Len(data)
      PROVE  Ends(data, b)
  <2>1. End(data, b) \in Nat /\ i + 1 \in 0 .. Len(s)
    BY <1>1, <1>3, <1>5, <1>6, EndFacts
  <2>2. Off(s, i + 1) \in Nat
    BY <2>1, OffFacts
  <2>. QED  BY <1>1, <1>2, <1>5, <1>6, <2>1, <2>2 DEF Ends
<1>7. ASSUME Ends(data, b)
      PROVE  /\ Off(s, i + 1) <= Off(s, c) + Len(data)
             /\ End(data, b) = Off(s, i + 1) - Off(s, c)
  <2>1. End(data, b) \in Nat /\ End(data, b) <= Len(data) /\ i + 1 \in 0 .. Len(s)
    BY <1>1, <1>3, <1>4, <1>7, EndFacts DEF Ends
  <2>2. Off(s, i + 1) \in Nat
    BY <2>1, OffFacts
  <2>3. Off(s, i + 1) <= Off(s, c) + Len(data)
    BY <1>1, <1>2, <1>4, <1>7, <2>1, <2>2
  <2>4. End(data, b) <= Off(s, i + 1) - Off(s, c)
    BY <1>4, <1>5, <1>7, <2>3
  <2>5. Off(s, i + 1) <= Off(s, c) + End(data, b)
    BY <1>4, <1>7
  <2>. QED  BY <1>2, <2>1, <2>2, <2>3, <2>4, <2>5
<1>. QED  BY <1>3, <1>4, <1>6, <1>7 DEF b

(* What a message is, once its end is found.                               *)
LEMMA CutIs ==
  ASSUME NEW s \in Streams, NEW c \in 0 .. Len(s), NEW data, BytesBehind(s, c, data),
         NEW i \in c .. Len(s) - 1, Off(s, i + 1) <= Off(s, c) + Len(data)
  PROVE  SubSeq(data, Off(s, i) - Off(s, c) + 1, Off(s, i + 1) - Off(s, c))
           = BytesOf(s, i + 1)
<1>. DEFINE o == Off(s, c)
            t == Off(s, i)
            n == s[i + 1].len
            l == Len(data)
            b == t - o + 1
            e == t + n - o
<1>1. /\ Len(s) \in Nat /\ l \in Nat /\ data \in Seq(Byte)
      /\ c \in 0 .. Len(s) /\ i \in 0 .. Len(s) - 1 /\ i \in 0 .. Len(s) /\ c <= i
      /\ i + 1 \in 1 .. Len(s)
      /\ \A x \in 1 .. l : data[x] = All(s)[o + x]
  BY StreamFacts DEF BytesBehind
<1>2. /\ o \in Nat /\ t \in Nat /\ o <= t /\ n \in Nat /\ Off(s, i + 1) = t + n
      /\ t + n <= o + l
      /\ BytesOf(s, i + 1) \in Seq(Byte) /\ Len(BytesOf(s, i + 1)) = n /\ n >= 8
      /\ \A j \in 1 .. n : BytesOf(s, i + 1)[j] = <<i + 1, n - j>>
  BY <1>1, OffFacts, StreamFacts
<1>3. \A j \in 1 .. n : All(s)[t + j] = <<i + 1, n - j>>
  BY <1>1, ByteAt
<1>. HIDE DEF o, t, n, l
<1>4. b \in Int /\ e \in Int /\ e - b + 1 = n /\ b <= e
  BY <1>2
<1>5. ASSUME NEW j \in 1 .. n
      PROVE  b + j - 1 \in 1 .. l /\ o + (b + j - 1) = t + j
  <2>1. j \in Nat /\ j >= 1 /\ j <= n /\ t + n <= o + l /\ o <= t
        /\ o \in Nat /\ t \in Nat /\ n \in Nat /\ l \in Nat
    BY <1>1, <1>2
  <2>2. b + j - 1 = t - o + j
    BY ONLY <2>1
  <2>3. t - o + j \in 1 .. l /\ o + (t - o + j) = t + j
    BY ONLY <2>1
  <2>. QED  BY <2>2, <2>3
<1>6. \A x \in b .. e : x \in 1 .. l
  <2>1. /\ t + n <= o + l /\ o <= t
        /\ o \in Nat /\ t \in Nat /\ n \in Nat /\ l \in Nat
    BY <1>1, <1>2
  <2>. QED  BY ONLY <2>1
<1>7. \A x \in b .. e : data[x] \in Byte
  BY <1>1, <1>6, ElementOfSeq DEF l
<1>. DEFINE cut == SubSeq(data, b, e)
<1>8. /\ cut \in Seq(Byte) /\ Len(cut) = n
      /\ \A j \in 1 .. n : cut[j] = data[b + j - 1]
  <2>. HIDE DEF b, e
  <2>. QED  BY <1>4, <1>7, SubSeqProperties
<1>. HIDE DEF cut
<1>9. \A j \in 1 .. n : cut[j] = <<i + 1, n - j>>
  BY <1>1, <1>3, <1>5, <1>8
<1>10. cut = BytesOf(s, i + 1)
  BY <1>2, <1>8, <1>9, SeqEqual
<1>11. Off(s, i) - Off(s, c) + 1 = b /\ Off(s, i + 1) - Off(s, c) = e
  BY <1>2 DEF o, t
<1>. QED  BY ONLY <1>10, <1>11, Zenon DEF cut

(* The first of several messages, and the others.                          *)
LEMMA FirstOfRun ==
  ASSUME NEW s \in Streams, NEW i \in 0 .. Len(s) - 1, NEW e \in i + 1 .. Len(s)
  PROVE  <<BytesOf(s, i + 1)>> \o [j \in 1 .. e - (i + 1) |-> BytesOf(s, (i + 1) + j)]
           = [j \in 1 .. e - i |-> BytesOf(s, i + j)]
<1>. DEFINE T == Seq(Byte)
            head == <<BytesOf(s, i + 1)>>
            tail == [j \in 1 .. e - (i + 1) |-> BytesOf(s, (i + 1) + j)]
            run == [j \in 1 .. e - i |-> BytesOf(s, i + j)]
<1>1. /\ Len(s) \in Nat /\ i \in Nat /\ e \in Nat /\ e - (i + 1) \in Nat /\ e - i \in Nat
      /\ e - i = 1 + (e - (i + 1))
  BY StreamFacts
<1>2. ASSUME NEW k \in 1 .. e
      PROVE  BytesOf(s, k) \in T
  <2>1. k \in 1 .. Len(s)
    BY <1>1
  <2>. QED  BY <2>1, StreamFacts
<1>. HIDE DEF T
<1>3. head \in Seq(T) /\ Len(head) = 1 /\ head[1] = BytesOf(s, i + 1)
  <2>1. i + 1 \in 1 .. e
    BY <1>1
  <2>2. BytesOf(s, i + 1) \in T
    BY <2>1, <1>2
  <2>. QED  BY <2>2
<1>4. /\ tail \in Seq(T) /\ Len(tail) = e - (i + 1)
      /\ \A j \in 1 .. e - (i + 1) : tail[j] = BytesOf(s, (i + 1) + j)
  <2>1. \A j \in 1 .. e - (i + 1) : BytesOf(s, (i + 1) + j) \in T
    <3>1. \A j \in 1 .. e - (i + 1) : (i + 1) + j \in 1 .. e
      BY <1>1
    <3>. QED  BY <3>1, <1>2
  <2>2. tail \in [1 .. e - (i + 1) -> T]
    BY <2>1
  <2>3. \A j \in 1 .. e - (i + 1) : tail[j] = BytesOf(s, (i + 1) + j)
    OBVIOUS
  <2>. HIDE DEF tail
  <2>. QED  BY <2>2, <2>3, <1>1
<1>5. /\ run \in Seq(T) /\ Len(run) = e - i
      /\ \A j \in 1 .. e - i : run[j] = BytesOf(s, i + j)
  <2>1. \A j \in 1 .. e - i : BytesOf(s, i + j) \in T
    <3>1. \A j \in 1 .. e - i : i + j \in 1 .. e
      BY <1>1
    <3>. QED  BY <3>1, <1>2
  <2>2. run \in [1 .. e - i -> T]
    BY <2>1
  <2>3. \A j \in 1 .. e - i : run[j] = BytesOf(s, i + j)
    OBVIOUS
  <2>. HIDE DEF run
  <2>. QED  BY <2>2, <2>3, <1>1
<1>. HIDE DEF head, tail, run
<1>6. /\ head \o tail \in Seq(T) /\ Len(head \o tail) = e - i
      /\ \A j \in 1 .. e - i : (head \o tail)[j] = IF j <= 1 THEN head[j] ELSE tail[j - 1]
  <2>1. head \in Seq(T) /\ tail \in Seq(T)
    BY <1>3, <1>4
  <2>2. /\ head \o tail \in Seq(T) /\ Len(head \o tail) = Len(head) + Len(tail)
        /\ \A j \in 1 .. Len(head) + Len(tail) :
             (head \o tail)[j] = IF j <= Len(head) THEN head[j] ELSE tail[j - Len(head)]
    BY ONLY <2>1, ConcatProperties
  <2>3. Len(head) + Len(tail) = e - i
    BY <1>1, <1>3, <1>4
  <2>. QED  BY <2>2, <2>3, <1>3
<1>7. ASSUME NEW j \in 1 .. e - i
      PROVE  (head \o tail)[j] = run[j]
  <2>1. CASE j = 1
    <3>1. (head \o tail)[j] = head[1]
      BY <2>1, <1>6
    <3>2. run[j] = BytesOf(s, i + 1)
      BY <2>1, <1>5
    <3>. QED  BY <3>1, <3>2, <1>3
  <2>2. CASE j # 1
    <3>1. j - 1 \in 1 .. e - (i + 1) /\ ~(j <= 1) /\ (i + 1) + (j - 1) = i + j
      BY <2>2, <1>1
    <3>2. tail[j - 1] = BytesOf(s, (i + 1) + (j - 1))
      BY <3>1, <1>4
    <3>. QED  BY <3>1, <3>2, <1>5, <1>6
  <2>. QED  BY <2>1, <2>2
<1>8. head \o tail = run
  BY <1>5, <1>6, <1>7, SeqEqual
<1>. QED  BY <1>8 DEF head, tail, run

(* All messages that are complete are cut out, in order.                   *)
LEMMA MessagesAre ==
  ASSUME NEW s \in Streams, NEW c \in 0 .. Len(s), NEW data, BytesBehind(s, c, data)
  PROVE  \E e \in c .. Len(s) :
           /\ Off(s, e) <= Off(s, c) + Len(data)
           /\ e < Len(s) => Off(s, c) + Len(data) < Off(s, e + 1)
           /\ Messages(data) = [j \in 1 .. e - c |-> BytesOf(s, c + j)]
<1>. DEFINE last == Off(s, c) + Len(data)
            b(i) == Off(s, i) - Off(s, c) + 1
            ms(i, e) == [j \in 1 .. e - i |-> BytesOf(s, i + j)]
<1>1. /\ Len(s) \in Nat /\ Len(data) \in Nat /\ data \in Seq(Byte) /\ Off(s, c) \in Nat
      /\ \A k \in 0 .. Len(s) : Off(s, k) \in Nat
  BY StreamFacts, OffFacts DEF BytesBehind
<1>2. PICK e \in c .. Len(s) : Off(s, e) <= last /\ (e < Len(s) => last < Off(s, e + 1))
  <2>. DEFINE T == {k \in c .. Len(s) : k < Len(s) => last < Off(s, k + 1)}
  <2>1. Len(s) \in T /\ T \in SUBSET Nat
    BY <1>1
  <2>2. PICK e \in T : \A k \in T : e <= k
    <3>. HIDE DEF T
    <3>. QED  BY <2>1, LeastOf
  <2>3. Off(s, e) <= last
    <3>1. CASE e = c
      BY <3>1, <1>1
    <3>2. CASE e # c
      <4>1. e - 1 \in c .. Len(s) /\ e - 1 < Len(s) /\ (e - 1) + 1 = e /\ ~(e <= e - 1)
            /\ e \in 0 .. Len(s)
        BY <3>2, <1>1
      <4>2. e - 1 \notin T
        BY <4>1, <2>2
      <4>3. ~(last < Off(s, e))
        BY <4>1, <4>2
      <4>. QED  BY <4>1, <4>3, <1>1
    <3>. QED  BY <3>1, <3>2
  <2>. QED  BY <2>2, <2>3
<1>3. PICK from : /\ Messages(data) = from[1]
                  /\ \A x \in 1 .. Len(data) + 1 :
                       from[x] = IF Ends(data, x)
                                 THEN <<SubSeq(data, x, End(data, x))>> \o from[End(data, x) + 1]
                                 ELSE <<>>
  BY <1>1, MessagesFrom
<1>4. ASSUME NEW i \in c .. e
      PROVE  /\ i \in c .. Len(s) /\ i \in 0 .. Len(s) /\ Off(s, i) <= last
             /\ b(i) \in 1 .. Len(data) + 1
             /\ Ends(data, b(i)) <=> i < e
             /\ i < e => /\ End(data, b(i)) = Off(s, i + 1) - Off(s, c)
                         /\ Off(s, i + 1) <= last
  <2>1. i \in c .. Len(s) /\ i \in 0 .. Len(s) /\ e \in 0 .. Len(s) /\ i <= e
    BY <1>1
  <2>2. Off(s, i) <= Off(s, e) /\ Off(s, e) \in Nat /\ Off(s, i) \in Nat
    BY <2>1, <1>1, OffFacts
  <2>3. Off(s, i) <= last
    BY <2>2, <1>1, <1>2
  <2>4. /\ b(i) \in 1 .. Len(data) + 1
        /\ Ends(data, b(i)) <=> i < Len(s) /\ Off(s, i + 1) <= last
        /\ Ends(data, b(i)) => End(data, b(i)) = Off(s, i + 1) - Off(s, c)
    BY <2>1, <2>3, CutAt
  <2>5. ASSUME i < e
        PROVE  i < Len(s) /\ Off(s, i + 1) <= last
    <3>1. i < Len(s) /\ i + 1 \in 0 .. Len(s) /\ i + 1 <= e
      BY <1>1, <2>1, <2>5
    <3>2. Off(s, i + 1) <= Off(s, e) /\ Off(s, i + 1) \in Nat
      BY <3>1, <2>1, <1>1, OffFacts
    <3>. QED  BY <3>1, <3>2, <2>2, <1>1, <1>2
  <2>6. ASSUME i < Len(s), Off(s, i + 1) <= last
        PROVE  i < e
    <3>1. CASE i = e
      <4>1. Off(s, e + 1) \in Nat
        BY <3>1, <2>1, <2>6, <1>1
      <4>. QED  BY <3>1, <4>1, <2>6, <1>1, <1>2
    <3>2. CASE i # e
      BY <3>2, <2>1
    <3>. QED  BY <3>1, <3>2
  <2>. QED  BY <2>1, <2>3, <2>4, <2>5, <2>6
<1>5. \A i \in c .. e : from[b(i)] = ms(i, e)
  <2>. DEFINE S == {d \in Nat : \A i \in c .. e : e - i <= d => from[b(i)] = ms(i, e)}
  <2>. HIDE DEF ms
  <2>1. ASSUME NEW i \in c .. e, i = e
        PROVE  from[b(i)] = ms(i, e)
    <3>1. ~Ends(data, b(i))
      BY <2>1, <1>1, <1>4
    <3>2. from[b(i)] = <<>>
      <4>. HIDE DEF b
      <4>. QED  BY <3>1, <1>3, <1>4
    <3>3. ms(i, e) = <<>>
      <4>1. 1 .. e - i = {}
        BY <2>1, <1>1
      <4>2. ms(i, e) \in [1 .. 0 -> {}]
        BY <4>1 DEF ms
      <4>3. ms(i, e) \in Seq({}) /\ Len(ms(i, e)) = 0
        BY <4>2
      <4>. QED  BY <4>3, EmptySeq
    <3>. QED  BY <3>2, <3>3
  <2>2. 0 \in S
    <3>1. \A i \in c .. e : e - i <= 0 => i = e
      BY <1>1
    <3>. QED  BY <3>1, <2>1
  <2>3. ASSUME NEW d \in S
        PROVE  d + 1 \in S
    <3>. SUFFICES ASSUME NEW i \in c .. e, e - i <= d + 1
                  PROVE  from[b(i)] = ms(i, e)
      OBVIOUS
    <3>1. CASE i = e
      BY <3>1, <2>1
    <3>2. CASE i # e
      <4>1. /\ i < e /\ i + 1 \in c .. e /\ e - (i + 1) <= d
            /\ i \in 0 .. Len(s) - 1 /\ e \in i + 1 .. Len(s) /\ i \in c .. Len(s) - 1
            /\ i + 1 \in 0 .. Len(s)
        BY <3>2, <1>1
      <4>2. from[b(i + 1)] = ms(i + 1, e)
        BY <4>1
      <4>3. /\ Ends(data, b(i)) /\ b(i) \in 1 .. Len(data) + 1
            /\ End(data, b(i)) = Off(s, i + 1) - Off(s, c)
            /\ Off(s, i + 1) <= last
        BY <4>1, <1>4
      <4>4. SubSeq(data, b(i), End(data, b(i))) = BytesOf(s, i + 1)
        BY <4>1, <4>3, CutIs
      <4>5. End(data, b(i)) + 1 = b(i + 1)
        BY <4>3
      <4>6. from[b(i)] = <<SubSeq(data, b(i), End(data, b(i)))>> \o from[End(data, b(i)) + 1]
        <5>. HIDE DEF b
        <5>. QED  BY <4>3, <1>3
      <4>7. from[b(i)] = <<BytesOf(s, i + 1)>> \o ms(i + 1, e)
        BY <4>2, <4>4, <4>5, <4>6
      <4>. QED  BY <4>1, <4>7, FirstOfRun DEF ms
    <3>. QED  BY <3>1, <3>2
  <2>. HIDE DEF S
  <2>4. e - c \in S
    <3>1. e - c \in Nat
      BY <1>1
    <3>2. S \in SUBSET Nat
      BY DEF S
    <3>3. S = Nat
      BY <2>2, <2>3, <3>2, Induction
    <3>. QED  BY <3>1, <3>3
  <2>5. \A i \in c .. e : e - i <= e - c
    BY <1>1
  <2>. QED  BY <2>4, <2>5 DEF S
<1>6. Messages(data) = ms(c, e)
  <2>1. c \in c .. e /\ b(c) = 1
    BY <1>1
  <2>. QED  BY <2>1, <1>3, <1>5
<1>. QED  BY <1>2, <1>6

----------------------------------------------------------------------------
(* The buffer.                                                             *)

(***************************************************************************)
(* The parser was given the first c messages of the stream, whole, and the *)
(* message that the bytes in the buffer begin is not complete.             *)
(***************************************************************************)
Waiting(c) ==
  /\ delivered = [j \in 1 .. c |-> BytesOf(stream, j)]
  /\ received \in Off(stream, c) .. Off(stream, Len(stream))
  /\ c < Len(stream) => received < Off(stream, c + 1)
  /\ held = SubSeq(All(stream), Off(stream, c) + 1, received)

(***************************************************************************)
(* As long as no rest was moved onto itself, the buffer waits for the end  *)
(* of the next message.  Whatever it holds, there is room behind it.       *)
(***************************************************************************)
BufInv ==
  /\ stream \in Streams
  /\ bufSz \in Nat \ {0}
  /\ received \in 0 .. Len(AllBytes)
  /\ held \in Seq(ToSet(AllBytes))
  /\ Len(held) < bufSz
  /\ overlapped \in BOOLEAN
  /\ ~overlapped => \E c \in 0 .. Len(stream) : Waiting(c)
  /\ overlapped => Growing

(* A part of a sequence.                                                   *)
LEMMA PartOf ==
  ASSUME NEW B, NEW a \in Seq(B), NEW m \in Nat, NEW n \in Nat, m <= n, n <= Len(a)
  PROVE  /\ SubSeq(a, m + 1, n) \in Seq(B)
         /\ Len(SubSeq(a, m + 1, n)) = n - m
         /\ \A x \in 1 .. n - m : SubSeq(a, m + 1, n)[x] = a[m + x]
<1>1. \A i \in m + 1 .. n : i \in 1 .. Len(a) /\ a[i] \in B
  BY ElementOfSeq
<1>2. /\ m + 1 \in Int /\ n \in Int /\ n - (m + 1) + 1 = n - m
      /\ (IF m + 1 <= n THEN n - (m + 1) + 1 ELSE 0) = n - m
  OBVIOUS
<1>3. /\ SubSeq(a, m + 1, n) \in Seq(B)
      /\ Len(SubSeq(a, m + 1, n)) = IF m + 1 <= n THEN n - (m + 1) + 1 ELSE 0
      /\ \A x \in 1 .. n - (m + 1) + 1 : SubSeq(a, m + 1, n)[x] = a[m + 1 + x - 1]
  BY <1>1, <1>2, SubSeqProperties
<1>4. \A x \in 1 .. n - m : m + 1 + x - 1 = m + x
  OBVIOUS
<1>. QED  BY <1>2, <1>3, <1>4

(* All bytes of a stream.                                                  *)
LEMMA AllIs ==
  ASSUME NEW s \in Streams
  PROVE  FlattenSeq([i \in DOMAIN s |-> BytesOf(s, i)]) = All(s)
<1>1. DOMAIN s = 1 .. Len(s) /\ Len(s) \in Nat
  BY StreamFacts
<1>2. \A j \in 1 .. Len(s) : 0 + j = j
  BY <1>1
<1>3. [i \in DOMAIN s |-> BytesOf(s, i)] = [j \in 1 .. Len(s) |-> BytesOf(s, 0 + j)]
  BY <1>1, <1>2
<1>. QED  BY <1>3 DEF All, Run

(* And how many there are.                                                 *)
LEMMA AllLength ==
  ASSUME NEW s \in Streams
  PROVE  All(s) \in Seq(Byte) /\ Len(All(s)) = Off(s, Len(s))
<1>1. Len(s) \in Nat
  BY StreamFacts
<1>2. 0 + Len(s) <= Len(s)
  BY <1>1
<1>. QED  BY <1>1, <1>2, RunGrows DEF All, Off

(* The stream of the state is one of the streams.                          *)
LEMMA AllBytesIs ==
  ASSUME stream \in Streams
  PROVE  /\ AllBytes = All(stream)
         /\ \A i : Bytes(i) = BytesOf(stream, i)
         /\ AllBytes \in Seq(Byte)
         /\ Len(AllBytes) = Off(stream, Len(stream))
<1>1. \A i : Bytes(i) = BytesOf(stream, i)
  BY DEF Bytes, BytesOf
<1>4. AllBytes = All(stream)
  BY <1>1, AllIs DEF AllBytes
<1>. QED  BY <1>1, <1>4, AllLength

(* Behind c messages there is no byte that ends one, up to the next end.   *)
LEMMA NotLast ==
  ASSUME NEW s \in Streams, NEW c \in 0 .. Len(s), NEW r \in Nat,
         r <= Off(s, Len(s)), c < Len(s) => r < Off(s, c + 1),
         NEW q \in Nat, Off(s, c) < q, q <= r
  PROVE  All(s)[q][2] # 0
<1>1. /\ Len(s) \in Nat /\ Len(s) \in 0 .. Len(s)
      /\ \A k \in 0 .. Len(s) : Off(s, k) \in Nat
  BY StreamFacts, OffFacts
<1>2. Off(s, Len(s)) \in Nat /\ Off(s, c) \in Nat
  BY <1>1
<1>3. q \in 1 .. Off(s, Len(s))
  BY <1>2
<1>4. PICK k \in 0 .. Len(s) - 1 : Off(s, k) < q /\ q <= Off(s, k + 1)
  BY <1>3, InMessage
<1>. DEFINE n == s[k + 1].len
            j == q - Off(s, k)
<1>5. k \in 0 .. Len(s) /\ k + 1 \in 0 .. Len(s) /\ k + 1 \in 1 .. Len(s)
  BY <1>1
<1>6. /\ Off(s, k + 1) = Off(s, k) + n /\ n \in Nat /\ Off(s, k) \in Nat
      /\ Off(s, k + 1) \in Nat
  BY <1>1, <1>5, StreamFacts, OffFacts
<1>7. c <= k
  <2>. SUFFICES ASSUME k < c
                PROVE  FALSE
    BY <1>1
  <2>1. k + 1 <= c
    BY <1>1
  <2>2. Off(s, k + 1) <= Off(s, c)
    BY <2>1, <1>5, OffFacts
  <2>. QED  BY <2>2, <1>2, <1>4, <1>6
<1>8. r < Off(s, k + 1)
  <2>1. c < Len(s) /\ c + 1 <= k + 1 /\ c + 1 \in 0 .. Len(s)
    BY <1>7, <1>1
  <2>2. Off(s, c + 1) <= Off(s, k + 1) /\ Off(s, c + 1) \in Nat
    BY <2>1, <1>1, <1>5, OffFacts
  <2>. QED  BY <2>1, <2>2, <1>6
<1>9. j \in 1 .. n /\ n - j # 0 /\ Off(s, k) + j = q
  <2>. DEFINE o == Off(s, k)
  <2>1. /\ o \in Nat /\ n \in Nat /\ r \in Nat /\ q \in Nat
        /\ o < q /\ q <= r /\ r < o + n
    BY <1>4, <1>6, <1>8
  <2>. HIDE DEF o, n
  <2>2. q - o \in 1 .. n /\ n - (q - o) # 0 /\ o + (q - o) = q
    BY ONLY <2>1
  <2>. QED  BY <2>2 DEF o
<1>. HIDE DEF j, n
<1>10. All(s)[Off(s, k) + j] = <<k + 1, n - j>>
  BY <1>9, ByteAt DEF n
<1>. QED  BY <1>9, <1>10

(* A buffer that waits has cut whole messages.                             *)
LEMMA BufInvWhole ==
  ASSUME BufInv, ~overlapped
  PROVE  Whole
<1>. DEFINE N == Len(stream)
            all == All(stream)
<1>1. PICK c \in 0 .. N : Waiting(c)
  BY DEF BufInv
<1>. DEFINE o == Off(stream, c)
<1>2. /\ stream \in Streams /\ N \in Nat /\ c \in Nat /\ o \in Nat
      /\ Off(stream, N) \in Nat /\ received \in o .. Off(stream, N)
      /\ bufSz \in Nat /\ Len(held) < bufSz
      /\ delivered = [j \in 1 .. c |-> BytesOf(stream, j)]
      /\ held = SubSeq(all, o + 1, received)
      /\ c < N => received < Off(stream, c + 1)
  <2>1. stream \in Streams /\ bufSz \in Nat /\ Len(held) < bufSz
    BY DEF BufInv
  <2>2. N \in Nat /\ c \in Nat /\ N \in 0 .. N
    BY <2>1, StreamFacts
  <2>3. o \in Nat /\ Off(stream, N) \in Nat
    BY <2>1, <2>2, OffFacts
  <2>. QED  BY <1>1, <2>1, <2>2, <2>3 DEF Waiting
<1>3. /\ AllBytes = all /\ all \in Seq(Byte) /\ Len(all) = Off(stream, N)
      /\ \A i : Bytes(i) = BytesOf(stream, i)
  BY <1>2, AllBytesIs
<1>4. /\ held \in Seq(Byte) /\ Len(held) = received - o
      /\ \A x \in 1 .. received - o : held[x] = all[o + x]
  <2>1. received \in Nat /\ o <= received /\ received <= Len(all)
    BY <1>2, <1>3
  <2>. HIDE DEF all, o
  <2>. QED  BY <2>1, <1>2, <1>3, PartOf
<1>5. delivered = [i \in 1 .. Len(delivered) |-> Bytes(i)]
  <2>1. Len(delivered) = c
    BY <1>2
  <2>. QED  BY <2>1, <1>2, <1>3
<1>6. FlattenSeq(delivered) = Run(stream, 0, c)
  <2>1. delivered = [j \in 1 .. c |-> BytesOf(stream, 0 + j)]
    <3>1. \A j \in 1 .. c : 0 + j = j
      OBVIOUS
    <3>. QED  BY <3>1, <1>2
  <2>. QED  BY <2>1 DEF Run
<1>7. /\ Run(stream, 0, c) \in Seq(Byte) /\ Len(Run(stream, 0, c)) = o
      /\ \A x \in 1 .. o : Run(stream, 0, c)[x] = all[x]
  BY <1>2, RunGrows, RunPrefix DEF Off
<1>8. FlattenSeq(delivered) \o held = SubSeq(AllBytes, 1, received)
  <2>. DEFINE a == Run(stream, 0, c)
              r == SubSeq(all, 0 + 1, received)
  <2>1. /\ r \in Seq(Byte) /\ Len(r) = received
        /\ \A x \in 1 .. received : r[x] = all[x]
    <3>1. 0 \in Nat /\ received \in Nat /\ 0 <= received /\ received <= Len(all)
          /\ received - 0 = received
      BY <1>2, <1>3
    <3>. HIDE DEF all
    <3>2. /\ r \in Seq(Byte) /\ Len(r) = received - 0
          /\ \A x \in 1 .. received - 0 : r[x] = all[0 + x]
      BY <3>1, <1>3, PartOf
    <3>. QED  BY <3>1, <3>2
  <2>2. r = SubSeq(AllBytes, 1, received)
    BY <1>3
  <2>. HIDE DEF a, r, all, o
  <2>3. a \in Seq(Byte) /\ held \in Seq(Byte) /\ Len(a) = o
    BY <1>4, <1>7 DEF a
  <2>4. /\ a \o held \in Seq(Byte) /\ Len(a \o held) = Len(a) + Len(held)
        /\ \A x \in 1 .. Len(a) + Len(held) :
             (a \o held)[x] = IF x <= Len(a) THEN a[x] ELSE held[x - Len(a)]
    BY ONLY <2>3, ConcatProperties
  <2>5. received \in Nat /\ o <= received /\ Len(a) + Len(held) = received
    BY <1>2, <1>4, <2>3
  <2>6. ASSUME NEW x \in 1 .. received
        PROVE  (a \o held)[x] = r[x]
    <3>1. CASE x <= o
      <4>1. x \in 1 .. o
        BY <1>2, <3>1
      <4>. QED  BY <4>1, <3>1, <1>7, <2>1, <2>3, <2>4, <2>5 DEF a
    <3>2. CASE ~(x <= o)
      <4>1. x - o \in 1 .. received - o /\ o + (x - o) = x
        BY <1>2, <3>2, <2>5
      <4>2. held[x - o] = all[x]
        BY <4>1, <1>4
      <4>. QED  BY <4>2, <3>2, <2>1, <2>3, <2>4, <2>5
    <3>. QED  BY <3>1, <3>2
  <2>7. a \o held = r
    BY <2>1, <2>4, <2>5, <2>6, SeqEqual
  <2>. QED  BY <2>2, <2>7, <1>6 DEF a
<1>9. ASSUME NEW i \in DOMAIN held
      PROVE  held[i][2] # 0
  <2>1. i \in 1 .. received - o
    BY <1>4
  <2>2. held[i] = all[o + i]
    BY <2>1, <1>4
  <2>4. all[o + i][2] # 0
    <3>1. /\ o + i \in Nat /\ received \in Nat /\ received <= Off(stream, N)
          /\ o < o + i /\ o + i <= received
      BY <1>2, <2>1
    <3>. QED  BY <3>1, <1>2, NotLast
  <2>. QED  BY <2>2, <2>4
<1>. QED  BY <1>5, <1>8, <1>9 DEF Whole

(* What one read brings.                                                   *)
LEMMA FilledIs ==
  ASSUME stream \in Streams, bufSz \in Nat, NEW c \in 0 .. Len(stream), Waiting(c),
         NEW n, CanRead(n)
  PROVE  /\ n \in Nat /\ n <= bufSz - Len(held)
         /\ received + n \in Off(stream, c) .. Off(stream, Len(stream))
         /\ Len(Filled(n)) = (received + n) - Off(stream, c)
         /\ Len(Filled(n)) = Len(held) + n
         /\ BytesBehind(stream, c, Filled(n))
<1>. DEFINE all == All(stream)
            o == Off(stream, c)
            t == Off(stream, Len(stream))
            new == SubSeq(all, received + 1, received + n)
<1>1. /\ AllBytes = all /\ all \in Seq(Byte) /\ Len(all) = t
      /\ o \in Nat /\ t \in Nat
  BY AllBytesIs, StreamFacts, OffFacts
<1>2. received \in o .. t /\ held = SubSeq(all, o + 1, received)
  BY DEF Waiting
<1>3. Filled(n) = held \o new
  BY <1>1 DEF Filled
<1>. HIDE DEF all, o, t
<1>4. /\ received \in Nat /\ o <= received /\ received <= Len(all)
  BY <1>1, <1>2
<1>5. /\ held \in Seq(Byte) /\ Len(held) = received - o
      /\ \A x \in 1 .. received - o : held[x] = all[o + x]
  BY ONLY <1>1, <1>2, <1>4, PartOf
<1>6. /\ n \in Nat /\ n <= bufSz - Len(held) /\ received + n <= Len(all)
      /\ received <= received + n /\ received + n \in Nat
  <2>1. Len(held) \in Nat
    BY <1>5
  <2>. QED  BY <2>1, <1>1, <1>4 DEF CanRead, Room
<1>7. /\ new \in Seq(Byte) /\ Len(new) = n
      /\ \A x \in 1 .. n : new[x] = all[received + x]
  <2>1. (received + n) - received = n
    BY <1>4, <1>6
  <2>2. /\ new \in Seq(Byte) /\ Len(new) = (received + n) - received
        /\ \A x \in 1 .. (received + n) - received : new[x] = all[received + x]
    <3>. DEFINE z == received + n
    <3>1. /\ z \in Nat /\ received <= z /\ z <= Len(all)
          /\ all \in Seq(Byte) /\ received \in Nat
      BY <1>1, <1>4, <1>6
    <3>. HIDE DEF z
    <3>2. /\ SubSeq(all, received + 1, z) \in Seq(Byte)
          /\ Len(SubSeq(all, received + 1, z)) = z - received
          /\ \A x \in 1 .. z - received : SubSeq(all, received + 1, z)[x] = all[received + x]
      BY ONLY <3>1, PartOf
    <3>. QED  BY ONLY <3>2, Zenon DEF z
  <2>. QED  BY <2>1, <2>2
<1>. HIDE DEF new
<1>. DEFINE data == Filled(n)
<1>8. /\ data \in Seq(Byte) /\ Len(data) = Len(held) + Len(new)
      /\ \A x \in 1 .. Len(held) + Len(new) :
           data[x] = IF x <= Len(held) THEN held[x] ELSE new[x - Len(held)]
  <2>1. held \in Seq(Byte) /\ new \in Seq(Byte)
    BY <1>5, <1>7
  <2>2. /\ held \o new \in Seq(Byte) /\ Len(held \o new) = Len(held) + Len(new)
        /\ \A x \in 1 .. Len(held) + Len(new) :
             (held \o new)[x] = IF x <= Len(held) THEN held[x] ELSE new[x - Len(held)]
    BY ONLY <2>1, ConcatProperties
  <2>. QED  BY <2>2, <1>3
<1>. HIDE DEF data
<1>9. Len(data) = (received + n) - o /\ Len(data) = Len(held) + n
  BY <1>1, <1>4, <1>5, <1>6, <1>7, <1>8
<1>10. ASSUME NEW x \in 1 .. Len(data)
       PROVE  data[x] = all[o + x]
  <2>1. CASE x <= Len(held)
    <3>1. x \in 1 .. received - o /\ x \in 1 .. Len(held) + Len(new)
      BY <2>1, <1>1, <1>4, <1>5, <1>8
    <3>. QED  BY <2>1, <3>1, <1>5, <1>8
  <2>2. CASE ~(x <= Len(held))
    <3>1. /\ x - Len(held) \in 1 .. n /\ x \in 1 .. Len(held) + Len(new)
          /\ received + (x - Len(held)) = o + x
      BY <2>2, <1>1, <1>4, <1>5, <1>6, <1>8, <1>9
    <3>. QED  BY <2>2, <3>1, <1>7, <1>8
  <2>. QED  BY <2>1, <2>2
<1>11. o + Len(data) <= t
  BY <1>1, <1>4, <1>6, <1>9
<1>12. BytesBehind(stream, c, data)
  BY <1>8, <1>10, <1>11 DEF BytesBehind, o, t, all
<1>13. received + n \in o .. t
  BY <1>1, <1>4, <1>6
<1>. QED  BY <1>6, <1>9, <1>12, <1>13 DEF data, o, t

(* More messages behind the first c of them.                               *)
LEMMA RunOn ==
  ASSUME NEW s \in Streams, NEW c \in 0 .. Len(s), NEW e \in c .. Len(s)
  PROVE  [j \in 1 .. c |-> BytesOf(s, j)] \o [j \in 1 .. e - c |-> BytesOf(s, c + j)]
           = [j \in 1 .. e |-> BytesOf(s, j)]
<1>. DEFINE T == Seq(Byte)
            a == [j \in 1 .. c |-> BytesOf(s, j)]
            b == [j \in 1 .. e - c |-> BytesOf(s, c + j)]
            d == [j \in 1 .. e |-> BytesOf(s, j)]
<1>1. Len(s) \in Nat /\ c \in Nat /\ e \in Nat /\ e - c \in Nat /\ c + (e - c) = e
  BY StreamFacts
<1>2. ASSUME NEW k \in 1 .. e
      PROVE  BytesOf(s, k) \in T
  <2>1. k \in 1 .. Len(s)
    BY <1>1
  <2>. QED  BY <2>1, StreamFacts
<1>. HIDE DEF T
<1>3. a \in Seq(T) /\ Len(a) = c /\ \A j \in 1 .. c : a[j] = BytesOf(s, j)
  <2>1. 1 .. c \subseteq 1 .. e
    BY <1>1
  <2>2. a \in [1 .. c -> T]
    BY <2>1, <1>2
  <2>3. \A j \in 1 .. c : a[j] = BytesOf(s, j)
    OBVIOUS
  <2>. HIDE DEF a
  <2>. QED  BY <2>2, <2>3, <1>1
<1>4. b \in Seq(T) /\ Len(b) = e - c /\ \A j \in 1 .. e - c : b[j] = BytesOf(s, c + j)
  <2>1. \A j \in 1 .. e - c : c + j \in 1 .. e
    BY <1>1
  <2>2. b \in [1 .. e - c -> T]
    BY <2>1, <1>2
  <2>3. \A j \in 1 .. e - c : b[j] = BytesOf(s, c + j)
    OBVIOUS
  <2>. HIDE DEF b
  <2>. QED  BY <2>2, <2>3, <1>1
<1>5. d \in Seq(T) /\ Len(d) = e /\ \A j \in 1 .. e : d[j] = BytesOf(s, j)
  <2>1. d \in [1 .. e -> T] /\ \A j \in 1 .. e : d[j] = BytesOf(s, j)
    BY <1>2
  <2>. HIDE DEF d
  <2>. QED  BY <2>1, <1>1
<1>. HIDE DEF a, b, d
<1>6. a \in Seq(T) /\ b \in Seq(T)
  BY <1>3, <1>4
<1>7. /\ a \o b \in Seq(T) /\ Len(a \o b) = Len(a) + Len(b)
      /\ \A j \in 1 .. Len(a) + Len(b) :
           (a \o b)[j] = IF j <= Len(a) THEN a[j] ELSE b[j - Len(a)]
  BY ONLY <1>6, ConcatProperties
<1>8. Len(a) + Len(b) = e
  BY <1>1, <1>3, <1>4
<1>9. ASSUME NEW j \in 1 .. e
      PROVE  (a \o b)[j] = d[j]
  <2>1. CASE j <= c
    <3>1. j \in 1 .. c
      BY <2>1, <1>1
    <3>. QED  BY <2>1, <3>1, <1>3, <1>5, <1>7, <1>8
  <2>2. CASE ~(j <= c)
    <3>1. j - c \in 1 .. e - c /\ c + (j - c) = j
      BY <2>2, <1>1
    <3>2. b[j - c] = BytesOf(s, j)
      BY <3>1, <1>4
    <3>. QED  BY <2>2, <3>2, <1>3, <1>5, <1>7, <1>8
  <2>. QED  BY <2>1, <2>2
<1>10. a \o b = d
  BY <1>5, <1>7, <1>8, <1>9, SeqEqual
<1>. QED  BY <1>10 DEF a, b, d

(* What is left when the messages up to the e-th were cut out.             *)
LEMMA LeftIs ==
  ASSUME NEW s \in Streams, NEW c \in 0 .. Len(s), NEW data, BytesBehind(s, c, data),
         NEW e \in c .. Len(s), Off(s, e) <= Off(s, c) + Len(data),
         Messages(data) = [j \in 1 .. e - c |-> BytesOf(s, c + j)]
  PROVE  /\ Left(data) = SubSeq(All(s), Off(s, e) + 1, Off(s, c) + Len(data))
         /\ Len(Left(data)) = (Off(s, c) + Len(data)) - Off(s, e)
         /\ Taken(data) = Off(s, e) - Off(s, c)
<1>. DEFINE o == Off(s, c)
            t == Off(s, e)
            l == Len(data)
            all == All(s)
            u == SubSeq(data, (t - o) + 1, l)
            v == SubSeq(all, t + 1, o + l)
<1>1. /\ Len(s) \in Nat /\ c \in 0 .. Len(s) /\ e \in 0 .. Len(s) /\ c <= e
      /\ Len(s) \in 0 .. Len(s) /\ e - c \in Nat /\ c + (e - c) = e
      /\ 0 + Len(s) <= Len(s)
  BY StreamFacts
<1>2. /\ o \in Nat /\ t \in Nat /\ o <= t
  BY <1>1, OffFacts
<1>3. /\ all \in Seq(Byte) /\ Len(all) = Off(s, Len(s))
  BY <1>1, RunGrows DEF All, Off
<1>4. /\ data \in Seq(Byte) /\ o + l <= Len(all) /\ l \in Nat /\ t <= o + l
      /\ \A x \in 1 .. l : data[x] = all[o + x]
  BY <1>3 DEF BytesBehind
<1>5. Left(data) = u /\ Taken(data) = t - o
  <2>1. FlattenSeq(Messages(data)) = Run(s, c, e - c)
    BY DEF Run
  <2>2. Len(Run(s, c, e - c)) = t - o
    BY <1>1, RunLength
  <2>. QED  BY ONLY <2>1, <2>2 DEF Left, Taken
<1>. HIDE DEF o, t, l, all
<1>6. t - o \in Nat /\ t - o <= l /\ o + l \in Nat /\ l - (t - o) = (o + l) - t
  BY <1>2, <1>4
<1>7. /\ u \in Seq(Byte) /\ Len(u) = l - (t - o)
      /\ \A x \in 1 .. l - (t - o) : u[x] = data[(t - o) + x]
  <2>1. l <= Len(data)
    BY <1>4 DEF l
  <2>. DEFINE m == t - o
  <2>2. m \in Nat /\ m <= l
    BY <1>6
  <2>. HIDE DEF m
  <2>3. /\ SubSeq(data, m + 1, l) \in Seq(Byte)
        /\ Len(SubSeq(data, m + 1, l)) = l - m
        /\ \A x \in 1 .. l - m : SubSeq(data, m + 1, l)[x] = data[m + x]
    BY ONLY <2>1, <2>2, <1>4, PartOf
  <2>. QED  BY ONLY <2>3, Zenon DEF m
<1>8. /\ v \in Seq(Byte) /\ Len(v) = (o + l) - t
      /\ \A x \in 1 .. (o + l) - t : v[x] = all[t + x]
  BY ONLY <1>2, <1>3, <1>4, <1>6, PartOf
<1>. HIDE DEF u, v
<1>9. ASSUME NEW x \in 1 .. (o + l) - t
      PROVE  u[x] = v[x]
  <2>1. (t - o) + x \in 1 .. l /\ o + ((t - o) + x) = t + x
    <3>1. /\ o \in Nat /\ t \in Nat /\ l \in Nat /\ o <= t /\ t <= o + l
          /\ x \in 1 .. (o + l) - t
      BY <1>2, <1>4
    <3>. QED  BY ONLY <3>1
  <2>2. data[(t - o) + x] = all[t + x]
    BY <2>1, <1>4
  <2>. QED  BY <2>2, <1>6, <1>7, <1>8
<1>10. u = v
  BY <1>6, <1>7, <1>8, <1>9, SeqEqual
<1>. QED  BY <1>5, <1>8, <1>10 DEF v, o, t, l, all

(* What one read brings is not more than there is room for.                *)
LEMMA FilledType ==
  ASSUME BufInv, NEW n, CanRead(n)
  PROVE  /\ Filled(n) \in Seq(ToSet(AllBytes))
         /\ Len(Filled(n)) <= bufSz
         /\ received + n \in 0 .. Len(AllBytes)
<1>. DEFINE B == ToSet(AllBytes)
            z == received + n
<1>1. stream \in Streams /\ held \in Seq(B) /\ bufSz \in Nat
  BY DEF BufInv
<1>2. AllBytes \in Seq(B)
  <2>1. AllBytes \in Seq(Byte)
    BY <1>1, AllBytesIs
  <2>. QED  BY <2>1 DEF ToSet
<1>. HIDE DEF B
<1>3. /\ n \in Nat /\ n <= bufSz - Len(held) /\ Len(held) \in Nat
      /\ z \in Nat /\ z <= Len(AllBytes) /\ received <= z /\ received \in Nat
      /\ z - received = n
  <2>1. received \in Nat
    BY DEF BufInv
  <2>2. n \in 1 .. bufSz - Len(held) /\ z <= Len(AllBytes) /\ Len(held) \in Nat
    BY <1>1 DEF CanRead, Room
  <2>. QED  BY <1>1, <2>1, <2>2
<1>. HIDE DEF z
<1>4. /\ SubSeq(AllBytes, received + 1, z) \in Seq(B)
      /\ Len(SubSeq(AllBytes, received + 1, z)) = n
  <2>1. /\ SubSeq(AllBytes, received + 1, z) \in Seq(B)
        /\ Len(SubSeq(AllBytes, received + 1, z)) = z - received
    BY ONLY <1>2, <1>3, PartOf
  <2>. QED  BY <2>1, <1>3
<1>5. Filled(n) = held \o SubSeq(AllBytes, received + 1, z)
  BY DEF Filled, z
<1>6. Filled(n) \in Seq(B) /\ Len(Filled(n)) = Len(held) + n
  BY ONLY <1>1, <1>4, <1>5, ConcatProperties
<1>7. Len(Filled(n)) <= bufSz
  BY <1>1, <1>3, <1>6
<1>. QED  BY <1>3, <1>6, <1>7 DEF B, z

(***************************************************************************)
(* One read, when no rest was moved onto itself before: the buffer waits   *)
(* for the next message, or the rest is moved onto itself and the next     *)
(* message is longer than the last.                                        *)
(***************************************************************************)
LEMMA WaitStep ==
  ASSUME BufInv, ~overlapped, NEW n, CanRead(n), Parse(n)
  PROVE  IF Exposed(Filled(n)) = {}
         THEN \E e \in 0 .. Len(stream) : Waiting(e)'
         ELSE Growing
<1>. DEFINE N == Len(stream)
            data == Filled(n)
<1>1. PICK c \in 0 .. N : Waiting(c)
  BY DEF BufInv
<1>2. stream \in Streams /\ bufSz \in Nat \ {0} /\ bufSz \in Nat /\ Len(held) < bufSz
  BY DEF BufInv
<1>3. /\ n \in Nat /\ n <= bufSz - Len(held)
      /\ received + n \in Off(stream, c) .. Off(stream, N)
      /\ Len(data) = (received + n) - Off(stream, c)
      /\ Len(data) = Len(held) + n
      /\ BytesBehind(stream, c, data)
  BY <1>1, <1>2, FilledIs
<1>8. /\ received' = received + n /\ stream' = stream
      /\ delivered' = delivered \o Messages(data)
      /\ held' \in Moves(data)
  BY DEF Parse
<1>14. data \in Seq(ToSet(AllBytes))
  BY FilledType
<1>. HIDE DEF data
<1>4. PICK e \in c .. N :
           /\ Off(stream, e) <= Off(stream, c) + Len(data)
           /\ e < N => Off(stream, c) + Len(data) < Off(stream, e + 1)
           /\ Messages(data) = [j \in 1 .. e - c |-> BytesOf(stream, c + j)]
  BY <1>2, <1>3, MessagesAre
<1>5. /\ N \in Nat /\ c \in 0 .. N /\ e \in 0 .. N /\ c <= e /\ e - c \in Nat
      /\ Off(stream, c) \in Nat /\ Off(stream, e) \in Nat /\ Off(stream, N) \in Nat
      /\ Off(stream, c) <= Off(stream, e)
  <2>1. N \in Nat
    BY <1>2, StreamFacts
  <2>2. c \in 0 .. N /\ e \in 0 .. N /\ N \in 0 .. N /\ c <= e /\ e - c \in Nat
    BY <2>1
  <2>. QED  BY <2>1, <2>2, <1>2, OffFacts
<1>6. Off(stream, c) + Len(data) = received + n /\ received + n \in Nat
  <2>1. received \in Nat
    BY <1>1, <1>5 DEF Waiting
  <2>. QED  BY <2>1, <1>3, <1>5
<1>7. /\ Left(data) = SubSeq(All(stream), Off(stream, e) + 1, received + n)
      /\ Len(Left(data)) = (received + n) - Off(stream, e)
      /\ Taken(data) = Off(stream, e) - Off(stream, c)
  <2>1. /\ Left(data) = SubSeq(All(stream), Off(stream, e) + 1, Off(stream, c) + Len(data))
        /\ Len(Left(data)) = (Off(stream, c) + Len(data)) - Off(stream, e)
        /\ Taken(data) = Off(stream, e) - Off(stream, c)
    BY <1>2, <1>3, <1>4, <1>5, LeftIs
  <2>2. Off(stream, c) + Len(data) = received + n
    BY <1>6
  <2>. QED  BY ONLY <2>1, <2>2, Zenon
<1>9. delivered' = [j \in 1 .. e |-> BytesOf(stream, j)]
  <2>1. delivered = [j \in 1 .. c |-> BytesOf(stream, j)]
    BY <1>1 DEF Waiting
  <2>. QED  BY <2>1, <1>2, <1>4, <1>8, RunOn
<1>10. CASE Exposed(data) = {}
  <2>1. received' \in Off(stream, e) .. Off(stream, N)
    BY <1>3, <1>4, <1>5, <1>6, <1>8
  <2>2. e < N => received' < Off(stream, e + 1)
    BY <1>4, <1>6, <1>8
  <2>3. held' = Left(data)
    BY <1>8, <1>10, <1>14, MovesFacts
  <2>4. Waiting(e)'
    BY <2>1, <2>2, <2>3, <1>7, <1>8, <1>9 DEF Waiting
  <2>. QED  BY <2>4, <1>5, <1>10 DEF data
<1>11. CASE Exposed(data) # {}
  <2>. DEFINE l == (received + n) - Off(stream, e)
              d == Off(stream, e) - Off(stream, c)
  <2>1. d # 0 /\ 1 .. l - d # {}
    BY <1>7, <1>11 DEF Exposed
  <2>2. d \in Nat \ {0} /\ l \in Nat /\ l > d
    <3>1. d \in Nat /\ l \in Int
      BY <1>5, <1>6
    <3>. QED  BY <2>1, <3>1
  <2>3. c < e /\ e - 1 \in 0 .. N /\ e - 1 \in 0 .. N - 1 /\ (e - 1) + 1 = e
    <3>1. c # e
      BY <2>2, <1>5
    <3>. QED  BY <3>1, <1>5
  <2>4. e < N
    <3>. SUFFICES ASSUME ~(e < N)
                  PROVE  FALSE
      OBVIOUS
    <3>1. e = N
      BY <1>5
    <3>2. received + n <= Off(stream, N)
      BY <1>3, <1>5
    <3>. QED  BY <3>1, <3>2, <2>2, <1>5, <1>6
  <2>5. /\ Off(stream, e) = Off(stream, e - 1) + stream[e].len
        /\ Off(stream, c) <= Off(stream, e - 1)
        /\ Off(stream, e - 1) \in Nat
    <3>1. c <= e - 1
      BY <2>3, <1>5
    <3>. QED  BY <3>1, <2>3, <1>2, <1>5, OffFacts
  <2>6. Off(stream, e + 1) = Off(stream, e) + stream[e + 1].len
    <3>1. e \in 0 .. N - 1
      BY <2>4, <1>5
    <3>. QED  BY <3>1, <1>2, OffFacts
  <2>7. received + n < Off(stream, e + 1)
    BY <2>4, <1>4, <1>6
  <2>8. stream[e].len \in Nat /\ stream[e + 1].len \in Nat
    <3>1. e \in 1 .. N /\ e + 1 \in 1 .. N
      BY <2>3, <2>4, <1>5
    <3>. QED  BY <3>1, <1>2, StreamFacts
  <2>9. stream[e + 1].len > stream[e].len + 1
    <3>. DEFINE o == Off(stream, c)
                a == Off(stream, e - 1)
                b == Off(stream, e)
                r == received + n
                x == stream[e].len
                y == stream[e + 1].len
    <3>1. /\ o \in Nat /\ a \in Nat /\ b \in Nat /\ r \in Nat /\ x \in Nat /\ y \in Nat
          /\ b = a + x /\ o <= a /\ r < b + y /\ r - b > b - o
      BY <2>2, <2>5, <2>6, <2>7, <2>8, <1>5, <1>6
    <3>. HIDE DEF o, a, b, r, x, y
    <3>2. y > x + 1
      BY ONLY <3>1
    <3>. QED  BY <3>2 DEF x, y
  <2>10. e + 1 \in 2 .. N /\ (e + 1) - 1 = e
    BY <2>3, <2>4, <1>5
  <2>. QED  BY <2>9, <2>10, <1>11 DEF data, Growing
<1>. QED  BY <1>10, <1>11

(* One read keeps the buffer's invariant, and its messages are sequences.  *)
LEMMA ParseStep ==
  ASSUME BufInv, NEW n, CanRead(n), Parse(n)
  PROVE  /\ BufInv'
         /\ \E k \in Nat : DOMAIN Messages(Filled(n)) = 1 .. k
<1>. DEFINE B == ToSet(AllBytes)
            data == Filled(n)
<1>1. /\ received' = received + n /\ stream' = stream
      /\ held' \in Moves(data)
      /\ overlapped' = (overlapped \/ Exposed(data) # {})
      /\ bufSz' = IF Len(held') = bufSz THEN 2 * bufSz ELSE bufSz
  BY DEF Parse
<1>2. /\ data \in Seq(B) /\ Len(data) <= bufSz /\ received + n \in 0 .. Len(AllBytes)
      /\ stream \in Streams /\ bufSz \in Nat \ {0} /\ overlapped \in BOOLEAN
      /\ (overlapped => Growing)
  BY FilledType DEF BufInv
<1>3. AllBytes' = AllBytes
  BY <1>1 DEF AllBytes, Bytes
<1>4. ASSUME overlapped
      PROVE  (~overlapped => \E c \in 0 .. Len(stream) : Waiting(c))' /\ (overlapped => Growing)'
  <2>1. overlapped' = TRUE
    BY <1>1, <1>4
  <2>2. Growing'
    BY <1>1, <1>2, <1>4 DEF Growing
  <2>. QED  BY <2>1, <2>2
<1>5. ASSUME ~overlapped
      PROVE  (~overlapped => \E c \in 0 .. Len(stream) : Waiting(c))' /\ (overlapped => Growing)'
  <2>1. IF Exposed(data) = {}
        THEN \E e \in 0 .. Len(stream) : Waiting(e)'
        ELSE Growing
    BY <1>5, WaitStep
  <2>2. overlapped' = (Exposed(data) # {})
    BY <1>1, <1>5
  <2>. HIDE DEF data
  <2>3. ~overlapped' => \E e \in 0 .. Len(stream') : Waiting(e)'
    BY <2>1, <2>2, <1>1
  <2>4. (overlapped => Growing)'
    BY <2>1, <2>2, <1>1 DEF Growing
  <2>. QED  BY <2>3, <2>4
<1>. HIDE DEF B, data
<1>6. held' \in Seq(B) /\ Len(held') \in Nat /\ Len(held') <= Len(data)
  BY <1>1, <1>2, MovesFacts
<1>7. bufSz' \in Nat \ {0} /\ Len(held') < bufSz'
  <2>1. Len(data) \in Nat
    BY <1>2
  <2>. QED  BY <2>1, <1>1, <1>2, <1>6
<1>8. overlapped' \in BOOLEAN
  BY <1>1
<1>9. \E k \in Nat : DOMAIN Messages(data) = 1 .. k
  BY <1>2, ParseFacts
<1>10. held' \in Seq(ToSet(AllBytes'))
  BY <1>3, <1>6 DEF B
<1>11. (~overlapped => \E c \in 0 .. Len(stream) : Waiting(c))' /\ (overlapped => Growing)'
  BY <1>4, <1>5, <1>2
<1>12. BufInv'
  BY <1>1, <1>2, <1>3, <1>7, <1>8, <1>10, <1>11 DEF BufInv
<1>. QED  BY <1>9, <1>12 DEF data

(* A buffer with nothing in it.                                            *)
LEMMA ClearStep ==
  ASSUME bufSz \in Nat \ {0}, NEW s \in Streams, Clear(s)
  PROVE  BufInv'
<1>1. /\ stream' = s /\ received' = 0 /\ delivered' = <<>> /\ held' = <<>>
      /\ bufSz' = bufSz /\ overlapped' = FALSE
  BY DEF Clear
<1>2. Len(s) \in Nat /\ 0 \in 0 .. Len(s) /\ Off(s, 0) = 0 /\ Off(s, Len(s)) \in Nat
  BY StreamFacts, OffFacts
<1>3. 0 < Len(s) => 0 < Off(s, 0 + 1)
  <2>1. 0 < Len(s) => 0 + 1 \in 0 .. Len(s) /\ Off(s, 0 + 1) \in Nat
    BY <1>2, OffFacts
  <2>2. 0 < Len(s) => Off(s, 0) + 8 <= Off(s, 0 + 1)
    BY <2>1, <1>2, OffFacts
  <2>. QED  BY <2>1, <2>2, <1>2
<1>4. SubSeq(All(s), 0 + 1, 0) = <<>>
  BY SubSeqEmpty
<1>5. [j \in 1 .. 0 |-> BytesOf(s, j)] = <<>>
  <2>. DEFINE d == [j \in 1 .. 0 |-> BytesOf(s, j)]
  <2>1. d \in [1 .. 0 -> {}]
    OBVIOUS
  <2>. HIDE DEF d
  <2>2. d \in Seq({}) /\ Len(d) = 0
    BY <2>1
  <2>3. d = <<>>
    BY <2>2, EmptySeq
  <2>. QED  BY <2>3 DEF d
<1>6. Waiting(0)'
  BY <1>1, <1>2, <1>3, <1>4, <1>5 DEF Waiting
<1>7. Len(held') < bufSz'
  BY <1>1
<1>8. received' \in 0 .. Len(AllBytes')
  <2>1. AllBytes' = FlattenSeq([i \in DOMAIN s |-> BytesOf(s, i)])
    BY <1>1 DEF AllBytes, Bytes, BytesOf
  <2>2. AllBytes' = All(s)
    BY <2>1, AllIs
  <2>. QED  BY <2>2, <1>1, <1>2, AllLength
<1>9. held' \in Seq(ToSet(AllBytes'))
  BY <1>1
<1>10. (overlapped => Growing)'
  BY <1>1
<1>. QED  BY <1>1, <1>2, <1>6, <1>7, <1>8, <1>9, <1>10 DEF BufInv

----------------------------------------------------------------------------
(* The whole session.                                                      *)

FixInv == SessionInv /\ BufInv

(* What the parser may make of any bytes.                                  *)
LEMMA ParsesType ==
  ASSUME stream \in Streams, NEW bytes
  PROVE  Parses(bytes) \subseteq [kind : Kind, hb : Nat, number : Nat]
<1>. DEFINE is == {i \in DOMAIN stream : Bytes(i) = bytes}
<1>1. ASSUME NEW i \in is
      PROVE  [kind |-> stream[i].kind, hb |-> stream[i].hb, number |-> i]
               \in [kind : Kind, hb : Nat, number : Nat]
  <2>1. i \in Nat /\ stream[i].kind \in Kind /\ stream[i].hb \in Nat
    BY StreamFacts
  <2>. QED  BY <2>1
<1>2. [kind : Kind, hb : 0 .. HbLimit, number : {0}]
        \subseteq [kind : Kind, hb : Nat, number : Nat]
  BY HandlerAssumption
<1>3. Parses(bytes)
        = IF is # {}
          THEN {[kind |-> stream[i].kind, hb |-> stream[i].hb, number |-> i] : i \in is}
          ELSE [kind : Kind, hb : 0 .. HbLimit, number : {0}]
  BY DEF Parses
<1>. HIDE DEF is
<1>. QED  BY <1>1, <1>2, <1>3

(* A read: the buffer is cut into messages, which reach the session.       *)
LEMMA ReadStep ==
  ASSUME FixInv, NEW n, Read(n)
  PROVE  FixInv'
<1>. DEFINE cut == Messages(Filled(n))
<1>1. connected /\ CanRead(n) /\ Parse(n)
  BY DEF Read
<1>7. PICK ms \in ParsesAll(cut) : OnFixMsgs(ms)
  BY DEF Read
<1>2. SessionInv /\ BufInv /\ stream \in Streams
  BY DEF FixInv, BufInv
<1>3. BufInv' /\ \E k \in Nat : DOMAIN cut = 1 .. k
  BY <1>1, <1>2, ParseStep
<1>4. PICK k \in Nat : DOMAIN cut = 1 .. k
  BY <1>3
<1>. HIDE DEF cut
<1>5. ms \in [1 .. k -> [kind : Kind, hb : Nat, number : Nat]]
  <2>1. /\ ms \in [DOMAIN cut -> UNION {Parses(cut[i]) : i \in DOMAIN cut}]
        /\ \A i \in DOMAIN cut : ms[i] \in Parses(cut[i])
    BY DEF ParsesAll
  <2>2. \A i \in DOMAIN cut : ms[i] \in [kind : Kind, hb : Nat, number : Nat]
    BY <2>1, <1>2, ParsesType
  <2>. QED  BY <2>1, <2>2, <1>4
<1>6. SessionInv'
  BY <1>1, <1>2, <1>5, <1>7, OnFixMsgsStep
<1>. QED  BY <1>3, <1>6 DEF FixInv

(* The buffer's invariant is about the buffer alone.                       *)
LEMMA BufStays ==
  ASSUME BufInv, UNCHANGED bufVars
  PROVE  BufInv'
<1>1. /\ stream' = stream /\ received' = received /\ held' = held
      /\ bufSz' = bufSz /\ delivered' = delivered /\ overlapped' = overlapped
  BY DEF bufVars
<1>2. \A c : Waiting(c) => Waiting(c)'
  BY <1>1 DEF Waiting
<1>3. AllBytes' = AllBytes
  BY <1>1 DEF AllBytes, Bytes
<1>4. (overlapped => Growing)'
  BY <1>1 DEF BufInv, Growing
<1>. QED  BY <1>1, <1>2, <1>3, <1>4 DEF BufInv

(* Every step keeps the invariant.                                         *)
LEMMA NextStep ==
  ASSUME FixInv, [Next]_vars
  PROVE  FixInv'
<1>1. CASE Connect
  <2>1. PICK s \in Streams : Clear(s)
    BY <1>1 DEF Connect
  <2>2. BufInv'
    BY <2>1, ClearStep DEF FixInv, BufInv
  <2>3. SessionInv'
    BY <1>1, ConnectionStep DEF FixInv, Connect
  <2>. QED  BY <2>2, <2>3 DEF FixInv
<1>2. CASE Disconnect
  BY <1>2, ConnectionStep, BufStays DEF FixInv, Disconnect
<1>3. CASE Timer
  BY <1>3, TimerStep, BufStays DEF FixInv, Timer
<1>4. CASE Gateway
  <2>1. PICK n \in Nat \ {0} : Build(n)
    <3>1. MaxSymbols \in Nat
      BY HandlerAssumption
    <3>2. 1 \in Nat \ {0} /\ 2 .. MaxSymbols \subseteq Nat \ {0}
      BY <3>1
    <3>. QED  BY <1>4, <3>2 DEF Gateway, Instruct, MarketDataRequest
  <2>2. SessionInv'
    BY <2>1, BuildStep DEF FixInv
  <2>3. BufInv'
    BY <1>4, BufStays DEF FixInv, Gateway
  <2>. QED  BY <2>2, <2>3 DEF FixInv
<1>5. CASE \E n \in 1 .. Room : Read(n)
  BY <1>5, ReadStep
<1>6. CASE UNCHANGED vars
  <2>1. BufInv'
    BY <1>6, BufStays DEF FixInv, vars
  <2>2. SessionInv'
    <3>1. /\ UNCHANGED <<connected, now, hbInterval, lastMsgRecvTm, expiry, queued>>
          /\ UNCHANGED <<msgSeqNum, lastMsgSeqNum, sent, failed>>
          /\ UNCHANGED <<watching, noticed, strayed>>
      BY <1>6 DEF vars, sessionVars, clockVars, numberVars, histVars
    <3>2. SessionTypeOK'
      BY <3>1 DEF FixInv, SessionInv, SessionTypeOK
    <3>3. TimerInv' /\ SilenceNoticed' /\ CancelInv' /\ NumberedOnce'
      BY <3>1 DEF FixInv, SessionInv, TimerInv, SilenceNoticed, CancelInv, NumberedOnce
    <3>. QED  BY <3>2, <3>3 DEF SessionInv
  <2>. QED  BY <2>1, <2>2 DEF FixInv
<1>. QED  BY <1>1, <1>2, <1>3, <1>4, <1>5, <1>6 DEF Next

(* Before the first connection.                                            *)
LEMMA InitStart ==
  ASSUME Init
  PROVE  FixInv
<1>1. SessionInv
  BY SessionStart DEF Init
<1>2. /\ stream \in Streams /\ received = 0 /\ delivered = <<>> /\ held = <<>>
      /\ bufSz \in Nat \ {0} /\ overlapped = FALSE
  BY SizeAssumption DEF Init, BufInit
<1>3. Len(stream) \in Nat /\ 0 \in 0 .. Len(stream)
      /\ Off(stream, 0) = 0 /\ Off(stream, Len(stream)) \in Nat
  BY <1>2, StreamFacts, OffFacts
<1>4. 0 < Len(stream) => 0 < Off(stream, 0 + 1)
  <2>1. 0 < Len(stream) => 0 + 1 \in 0 .. Len(stream) /\ Off(stream, 0 + 1) \in Nat
    BY <1>2, <1>3, OffFacts
  <2>2. 0 < Len(stream) => Off(stream, 0) + 8 <= Off(stream, 0 + 1)
    BY <2>1, <1>2, <1>3, OffFacts
  <2>. QED  BY <2>1, <2>2, <1>3
<1>5. SubSeq(All(stream), 0 + 1, 0) = <<>>
  BY SubSeqEmpty
<1>6. [j \in 1 .. 0 |-> BytesOf(stream, j)] = <<>>
  <2>. DEFINE d == [j \in 1 .. 0 |-> BytesOf(stream, j)]
  <2>1. d \in [1 .. 0 -> {}]
    OBVIOUS
  <2>. HIDE DEF d
  <2>2. d \in Seq({}) /\ Len(d) = 0
    BY <2>1
  <2>3. d = <<>>
    BY <2>2, EmptySeq
  <2>. QED  BY <2>3 DEF d
<1>7. Waiting(0)
  BY <1>2, <1>3, <1>4, <1>5, <1>6 DEF Waiting
<1>8. BufInv
  <2>1. Len(AllBytes) = Off(stream, Len(stream)) /\ received \in 0 .. Len(AllBytes)
    BY <1>2, <1>3, AllBytesIs
  <2>2. held \in Seq(ToSet(AllBytes)) /\ Len(held) < bufSz
    BY <1>2
  <2>3. overlapped => Growing
    BY <1>2
  <2>. QED  BY <2>1, <2>2, <2>3, <1>2, <1>3, <1>7 DEF BufInv
<1>. QED  BY <1>1, <1>8 DEF FixInv

(***************************************************************************)
(* The invariant of a FIX session: timer, connection, numbers and buffer.  *)
(***************************************************************************)
THEOREM Invariance == Spec => []FixInv
<1>1. Init => FixInv
  BY InitStart
<1>2. FixInv /\ [Next]_vars => FixInv'
  BY NextStep
<1>. QED  BY <1>1, <1>2, PTL DEF Spec

(***************************************************************************)
(* However the peer's bytes were cut into reads: as long as the memcpy of  *)
(* parse was not given ranges that overlap, the parser got whole messages, *)
(* each once, in order and as soon as it was complete; overlapping needs a *)
(* message longer than the one in front of it; and whatever the memcpy     *)
(* did, the buffer has room for another read.                              *)
(***************************************************************************)
THEOREM CutsWholeMessages == Spec => []Framed
<1>1. FixInv => Framed
  <2>. SUFFICES ASSUME FixInv
                PROVE  Framed
    OBVIOUS
  <2>1. BufInv
    BY DEF FixInv
  <2>2. Room > 0
    <3>1. bufSz \in Nat /\ Len(held) \in Nat /\ Len(held) < bufSz
      BY <2>1 DEF BufInv
    <3>. QED  BY <3>1 DEF Room
  <2>3. overlapped => Growing
    BY <2>1 DEF BufInv
  <2>. QED  BY <2>1, <2>2, <2>3, BufInvWhole DEF Framed
<1>. QED  BY <1>1, Invariance, PTL

(***************************************************************************)
(* If no message of a stream is longer by two bytes or more than the one   *)
(* in front of it, the memcpy of parse is always defined, and the messages *)
(* come out whole to the end.                                              *)
(***************************************************************************)
THEOREM SteadyStreamIsWhole == Spec => [](~Growing => Whole)
<1>1. Framed => (~Growing => Whole)
  <2>1. CASE overlapped
    BY <2>1 DEF Framed
  <2>2. CASE ~overlapped
    BY <2>2 DEF Framed
  <2>. QED  BY <2>1, <2>2
<1>. QED  BY <1>1, CutsWholeMessages, PTL

(* A peer whose silence lasts three intervals has been reported.           *)
THEOREM SilenceIsNoticed == Spec => []SilenceNoticed
<1>1. FixInv => SilenceNoticed
  BY DEF FixInv, SessionInv
<1>. QED  BY <1>1, Invariance, PTL

(* Without a connection the timer is still, but for a handler that was     *)
(* queued when the connection broke.                                       *)
THEOREM CancelIsKept == Spec => []CancelHolds
<1>1. FixInv => CancelHolds
  BY DEF FixInv, SessionInv, CancelInv, CancelHolds
<1>. QED  BY <1>1, Invariance, PTL

(* No number is used twice on a connection, and none is skipped but those  *)
(* of messages that failed or of earlier connections.                      *)
THEOREM NumbersOnce == Spec => []NumberedOnce
<1>1. FixInv => NumberedOnce
  BY DEF FixInv, SessionInv
<1>. QED  BY <1>1, Invariance, PTL

(* The types of session and buffer.                                        *)
THEOREM TypeCorrect == Spec => []TypeOK
<1>1. FixInv => TypeOK
  BY DEF FixInv, SessionInv, BufInv, TypeOK
<1>. QED  BY <1>1, Invariance, PTL
=============================================================================
