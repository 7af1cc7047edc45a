------------------------- MODULE ExchangeSimProofs -------------------------
(***************************************************************************)
(* The safety properties of ExchangeSim for every number of commands and   *)
(* of wake-ups that nobody asked for.                                      *)
(*                                                                         *)
(* That the subscriber takes no command the publisher has not seen is a    *)
(* matter of parity.  The queue grows by one text with each unknown        *)
(* command, and each turn of both threads takes two texts from its front   *)
(* when the first is known and one when it is not; the known commands      *)
(* always lie an even number of places before the end when the publisher   *)
(* looks, and an odd number when the subscriber does, so that two of them  *)
(* are never neighbours.  EInv says this, whose turn it is, and which      *)
(* entry of the queue stands for a command not yet answered.               *)
(***************************************************************************)
EXTENDS ExchangeSim, TLAPS

(* Places at which the texts are such that the publisher answers.          *)
KnownAt(parity) ==
  \A j \in 1 .. Len(queue) :
    queue[j].text \in Known => (Len(queue) - j) % 2 = parity

(* Whose turn it is, as long as only notifications wake the threads.       *)
Turns ==
  spurious = 0 =>
    /\ Produced =>
         /\ publisher = "waiting"
         /\ KnownAt(1)
         /\ queue # <<>> => queue[1].text \notin Known
    /\ subscriber = "woken" => Produced
    /\ publisher = "start" => queue = <<>> /\ typed = <<>> /\ ~Produced
    /\ publisher = "woken" => queue # <<>> /\ ~Produced /\ KnownAt(0)

(* A command in the queue has a number that some command has.              *)
Numbered ==
  /\ Len(typed) <= MaxCommands
  /\ \A j \in 1 .. Len(queue) : queue[j].text \in Known => queue[j].nr # 0

(* A known command that is not answered is itself in the queue.            *)
Kept ==
  spurious = 0 =>
    \A i \in 1 .. Len(typed) :
      typed[i] \in Known /\ i \notin answered =>
        \E j \in 1 .. Len(queue) : queue[j] = [text |-> typed[i], nr |-> i]

EInv == TypeOK /\ Numbered /\ Turns /\ InStep /\ Kept

Entry == [text : Text, nr : 0 .. MaxCommands]

----------------------------------------------------------------------------
(* What a sequence is without its first element.                           *)
LEMMA TailFacts ==
  ASSUME NEW S, NEW q \in Seq(S), q # <<>>
  PROVE  /\ Tail(q) \in Seq(S)
         /\ Len(Tail(q)) = Len(q) - 1
         /\ \A j \in 1 .. Len(q) - 1 : Tail(q)[j] = q[j + 1]
         /\ Head(q) = q[1] /\ Len(q) \in Nat \ {0} /\ q[1] \in S
OBVIOUS

(* What a sequence is with one more element.                               *)
LEMMA AppendFacts ==
  ASSUME NEW S, NEW q \in Seq(S), NEW x \in S
  PROVE  /\ Append(q, x) \in Seq(S)
         /\ Len(Append(q, x)) = Len(q) + 1
         /\ \A j \in 1 .. Len(q) : Append(q, x)[j] = q[j]
         /\ Append(q, x)[Len(q) + 1] = x
         /\ Len(q) \in Nat
OBVIOUS

(* What a turn does to the queue that takes one text and puts another.     *)
LEMMA ShiftFacts ==
  ASSUME NEW S, NEW q \in Seq(S), q # <<>>, NEW x \in S
  PROVE  LET r == Append(Tail(q), x)
         IN /\ r \in Seq(S) /\ r # <<>>
            /\ Len(r) = Len(q) /\ Len(q) \in Nat \ {0}
            /\ \A j \in 1 .. Len(q) - 1 : r[j] = q[j + 1]
            /\ r[Len(q)] = x
            /\ Head(q) = q[1] /\ q[1] \in S
<1>1. /\ Tail(q) \in Seq(S)
      /\ Len(Tail(q)) = Len(q) - 1
      /\ \A j \in 1 .. Len(q) - 1 : Tail(q)[j] = q[j + 1]
      /\ Head(q) = q[1] /\ Len(q) \in Nat \ {0} /\ q[1] \in S
  BY TailFacts
<1>. DEFINE t == Tail(q)
            r == Append(t, x)
<1>2. /\ r \in Seq(S)
      /\ Len(r) = Len(t) + 1
      /\ \A j \in 1 .. Len(t) : r[j] = t[j]
      /\ r[Len(t) + 1] = x
  BY <1>1, AppendFacts
<1>3. r # <<>>
  BY <1>1, <1>2
<1>. QED  BY <1>1, <1>2, <1>3

(* One place further from the end the parity is the other one.             *)
LEMMA NextParity ==
  ASSUME NEW n \in Nat
  PROVE  /\ n % 2 = 0 => (n + 1) % 2 = 1
         /\ n % 2 = 1 => (n + 1) % 2 = 0
OBVIOUS

(* What the publisher puts into the queue is no command.                   *)
LEMMA AnswerFacts ==
  ASSUME NEW text, NEW sub \in BOOLEAN
  PROVE  Answer(text, sub) \in Text \ Command
<1>1. Answer(text, sub) \in {"Subscribed", "Unsubscribed", "status 0",
                             "status 1", "security list", "Exchange Commands"}
  BY DEF Answer
<1>. QED  BY <1>1 DEF Text, Command, Known

(* EInv holds when the threads start.                                      *)
LEMMA InitInv == Init => EInv
<1>. SUFFICES ASSUME Init
              PROVE  EInv
  OBVIOUS
<1>. USE BoundAssumption DEF Init
<1>1. TypeOK
  <2>1. {Produced, subscribed, crashed, misread} \subseteq BOOLEAN
    OBVIOUS
  <2>2. queue \in Seq([text : Text, nr : 0 .. MaxCommands]) /\ typed \in Seq(Command)
    OBVIOUS
  <2>3. answered \subseteq 1 .. MaxCommands /\ spurious \in 0 .. MaxSpurious
    OBVIOUS
  <2>. QED  BY <2>1, <2>2, <2>3 DEF TypeOK
<1>2. Numbered
  BY DEF Numbered
<1>3. Turns
  BY DEF Turns
<1>4. InStep
  BY DEF InStep
<1>5. Kept
  BY DEF Kept
<1>. QED  BY <1>1, <1>2, <1>3, <1>4, <1>5 DEF EInv

----------------------------------------------------------------------------
(* The types as the steps below use them.                                  *)
LEMMA TypeFacts ==
  ASSUME EInv
  PROVE  /\ queue \in Seq(Entry) /\ Len(queue) \in Nat
         /\ Produced \in BOOLEAN /\ subscribed \in BOOLEAN
         /\ crashed \in BOOLEAN /\ misread \in BOOLEAN
         /\ typed \in Seq(Command) /\ Len(typed) \in 0 .. MaxCommands
         /\ spurious \in Nat /\ MaxCommands \in Nat
BY BoundAssumption DEF EInv, TypeOK, Numbered, Entry

(***************************************************************************)
(* The publisher answers: the known commands behind the first move one     *)
(* place to the front and the answer is none, so that their distance to    *)
(* the end grows by one; the first text is now what was the second, one    *)
(* place from a known command.                                             *)
(***************************************************************************)
LEMMA ReplyStep ==
  ASSUME EInv, Ready(publisher), Reply, Produced' = TRUE,
         subscriber' = Notify(subscriber), publisher' = "waiting",
         UNCHANGED <<crashed, typed, spurious>>
  PROVE  EInv'
<1>. DEFINE front == Head(queue)
            answer == [text |-> Answer(front.text, subscribed), nr |-> front.nr]
<1>1. /\ queue # <<>>
      /\ front.text \in Known
      /\ queue' = Append(Tail(queue), answer)
      /\ subscribed' \in BOOLEAN
      /\ answered' = answered \cup {front.nr}
      /\ misread' = misread
  BY TypeFacts DEF Reply
<1>2. front = queue[1] /\ front \in Entry
  BY <1>1, TypeFacts, TailFacts
<1>3. answer \in Entry /\ answer.text \notin Command /\ answer.text \notin Known
  BY <1>2, TypeFacts, AnswerFacts DEF Entry, Command
<1>. HIDE DEF answer, front
<1>4. /\ queue' \in Seq(Entry) /\ queue' # <<>>
      /\ Len(queue') = Len(queue) /\ Len(queue) \in Nat \ {0}
      /\ \A j \in 1 .. Len(queue) - 1 : queue'[j] = queue[j + 1]
      /\ queue'[Len(queue)] = answer
  BY <1>1, <1>3, TypeFacts, ShiftFacts
<1>5. front.nr \in 1 .. MaxCommands
  <2>1. queue[1].nr # 0
    BY <1>1, <1>2, <1>4 DEF EInv, Numbered
  <2>. QED  BY <2>1, <1>2, TypeFacts DEF Entry
<1>6. TypeOK'
  <2>1. subscriber' \in {"start", "waiting", "woken", "end"}
    BY DEF EInv, TypeOK, Notify
  <2>. QED  BY <1>1, <1>4, <1>5, <2>1 DEF EInv, TypeOK, Entry
<1>7. Numbered'
  BY <1>3, <1>4 DEF EInv, Numbered
<1>8. Turns'
  <2>. SUFFICES ASSUME spurious = 0
                PROVE  /\ KnownAt(1)'
                       /\ queue'[1].text \notin Known
    BY <1>4 DEF Turns, EInv
  <2>1. KnownAt(0)
    BY <1>1 DEF EInv, Turns, Ready
  <2>2. KnownAt(1)'
    <3>. SUFFICES ASSUME NEW j \in 1 .. Len(queue), queue'[j].text \in Known
                  PROVE  (Len(queue) - j) % 2 = 1
      BY <1>4 DEF KnownAt
    <3>1. j \in 1 .. Len(queue) - 1
      BY <1>3, <1>4
    <3>2. (Len(queue) - (j + 1)) % 2 = 0
      BY <3>1, <2>1, <1>4 DEF KnownAt
    <3>3. Len(queue) - (j + 1) \in Nat /\ Len(queue) - j = (Len(queue) - (j + 1)) + 1
      BY <3>1, <1>4
    <3>. QED  BY <3>2, <3>3, NextParity
  <2>3. queue'[1].text \notin Known
    <3>. SUFFICES ASSUME queue'[1].text \in Known
                  PROVE  FALSE
      OBVIOUS
    <3>1. (Len(queue) - 1) % 2 = 1
      BY <2>2, <1>4 DEF KnownAt
    <3>2. (Len(queue) - 1) % 2 = 0
      BY <2>1, <1>1, <1>2, <1>4 DEF KnownAt
    <3>. QED  BY <3>1, <3>2
  <2>. QED  BY <2>2, <2>3
<1>9. InStep'
  <2>. SUFFICES ASSUME ~misread
                PROVE  /\ Len(queue') = 1
                       /\ Head(queue').nr = Len(typed)
                       /\ Head(queue').text \notin Command
    BY <1>1 DEF InStep
  <2>1. Len(queue) = 1 /\ front.nr = Len(typed)
    BY <1>1 DEF EInv, InStep, front
  <2>2. Head(queue') = answer
    BY <2>1, <1>4, TailFacts
  <2>. QED  BY <2>1, <2>2, <1>3, <1>4 DEF answer
<1>10. Kept'
  <2>. SUFFICES ASSUME spurious = 0, NEW i \in 1 .. Len(typed),
                       typed[i] \in Known, i \notin answered'
                PROVE  \E j \in 1 .. Len(queue) :
                         queue'[j] = [text |-> typed[i], nr |-> i]
    BY <1>4 DEF Kept
  <2>1. PICK j \in 1 .. Len(queue) : queue[j] = [text |-> typed[i], nr |-> i]
    BY <1>1 DEF EInv, Kept
  <2>2. j # 1
    BY <2>1, <1>1, <1>2
  <2>3. j - 1 \in 1 .. Len(queue) - 1 /\ queue'[j - 1] = queue[j]
    BY <2>2, <1>4
  <2>. QED  BY <2>1, <2>3, <1>4
<1>. QED  BY <1>6, <1>7, <1>8, <1>9, <1>10 DEF EInv

(***************************************************************************)
(* The publisher does not know the first text, or there is none: the queue *)
(* grows by the help, and every distance to the end by one.                *)
(***************************************************************************)
LEMMA HelpStep ==
  ASSUME EInv, Ready(publisher), Help, Produced' = TRUE,
         subscriber' = Notify(subscriber), publisher' = "waiting",
         UNCHANGED <<crashed, typed, spurious>>
  PROVE  EInv'
<1>. DEFINE help == [text |-> Answer("else", subscribed), nr |-> Len(typed)]
<1>1. /\ queue # <<>> => Head(queue).text \notin Known
      /\ queue' = Append(queue, help)
      /\ misread' = (misread \/ queue # <<>>)
      /\ UNCHANGED <<subscribed, answered>>
  BY DEF Help
<1>3. help \in Entry /\ help.text \notin Command /\ help.text \notin Known
  BY TypeFacts, AnswerFacts DEF Entry, Command
<1>. HIDE DEF help
<1>4. /\ queue' \in Seq(Entry) /\ queue' # <<>>
      /\ Len(queue') = Len(queue) + 1 /\ Len(queue) \in Nat
      /\ \A j \in 1 .. Len(queue) : queue'[j] = queue[j]
      /\ queue'[Len(queue) + 1] = help
  <2>1. /\ queue' \in Seq(Entry)
        /\ Len(queue') = Len(queue) + 1 /\ Len(queue) \in Nat
        /\ \A j \in 1 .. Len(queue) : queue'[j] = queue[j]
        /\ queue'[Len(queue) + 1] = help
    BY <1>1, <1>3, TypeFacts, AppendFacts
  <2>. QED  BY <2>1
<1>5. queue'[1].text \notin Known
  <2>1. CASE queue = <<>>
    BY <2>1, <1>3, <1>4
  <2>2. CASE queue # <<>>
    BY <2>2, <1>1, <1>4, TailFacts, TypeFacts
  <2>. QED  BY <2>1, <2>2
<1>6. TypeOK'
  <2>1. subscriber' \in {"start", "waiting", "woken", "end"}
    BY DEF EInv, TypeOK, Notify
  <2>2. misread' \in BOOLEAN
    BY <1>1, TypeFacts
  <2>. QED  BY <1>1, <1>4, <2>1, <2>2 DEF EInv, TypeOK, Entry
<1>7. Numbered'
  <2>. SUFFICES ASSUME NEW j \in 1 .. Len(queue'), queue'[j].text \in Known
                PROVE  queue'[j].nr # 0
    BY DEF EInv, Numbered
  <2>1. j \in 1 .. Len(queue)
    BY <1>3, <1>4
  <2>. QED  BY <2>1, <1>4 DEF EInv, Numbered
<1>8. Turns'
  <2>. SUFFICES ASSUME spurious = 0
                PROVE  KnownAt(1)'
    BY <1>4, <1>5 DEF Turns, EInv
  <2>1. KnownAt(0)
    BY <1>1 DEF EInv, Turns, Ready, KnownAt
  <2>. SUFFICES ASSUME NEW j \in 1 .. Len(queue) + 1, queue'[j].text \in Known
                PROVE  (Len(queue) + 1 - j) % 2 = 1
    BY <1>4 DEF KnownAt
  <2>2. j \in 1 .. Len(queue)
    BY <1>3, <1>4
  <2>3. (Len(queue) - j) % 2 = 0
    BY <2>1, <2>2, <1>4 DEF KnownAt
  <2>4. Len(queue) - j \in Nat /\ Len(queue) + 1 - j = (Len(queue) - j) + 1
    BY <2>2, <1>4
  <2>. QED  BY <2>3, <2>4, NextParity
<1>9. InStep'
  <2>. SUFFICES ASSUME ~misread'
                PROVE  /\ Len(queue') = 1
                       /\ Head(queue').nr = Len(typed)
                       /\ Head(queue').text \notin Command
    BY DEF InStep
  <2>1. queue = <<>>
    BY <1>1
  <2>2. Len(queue') = 1 /\ queue'[1] = help
    BY <2>1, <1>4
  <2>3. Head(queue') = help
    BY <2>2, <1>4, TailFacts
  <2>. QED  BY <2>2, <2>3, <1>3 DEF help
<1>10. Kept'
  <2>. SUFFICES ASSUME spurious = 0, NEW i \in 1 .. Len(typed),
                       typed[i] \in Known, i \notin answered
                PROVE  \E j \in 1 .. Len(queue) + 1 :
                         queue'[j] = [text |-> typed[i], nr |-> i]
    BY <1>1, <1>4 DEF Kept
  <2>1. PICK j \in 1 .. Len(queue) : queue[j] = [text |-> typed[i], nr |-> i]
    BY <1>1 DEF EInv, Kept
  <2>2. j \in 1 .. Len(queue) + 1 /\ queue'[j] = queue[j]
    BY <1>4
  <2>. QED  BY <2>1, <2>2
<1>. QED  BY <1>6, <1>7, <1>8, <1>9, <1>10 DEF EInv

(***************************************************************************)
(* A turn of the subscriber: what it takes is no known command, and its    *)
(* own is at the end.  The others keep their distance to the end plus one, *)
(* which makes it even again.                                              *)
(***************************************************************************)
LEMMA SubscriberStep ==
  ASSUME EInv, NEW command \in Command, SubscriberTurn(command)
  PROVE  EInv'
<1>. DEFINE entry == [text |-> command, nr |-> Len(typed')]
<1>1. /\ queue # <<>>
      /\ queue' = Append(Tail(queue), entry)
      /\ Len(typed) < MaxCommands
      /\ typed' = Append(typed, command)
      /\ Produced' = FALSE
      /\ publisher' = Notify(publisher)
      /\ subscriber' = "waiting"
      /\ UNCHANGED <<subscribed, crashed, answered, misread, spurious>>
  BY DEF SubscriberTurn
<1>2. /\ typed' \in Seq(Command)
      /\ Len(typed') = Len(typed) + 1 /\ Len(typed) \in Nat
      /\ \A i \in 1 .. Len(typed) : typed'[i] = typed[i]
      /\ typed'[Len(typed) + 1] = command
      /\ Len(typed') \in 1 .. MaxCommands
  <2>1. /\ typed' \in Seq(Command)
        /\ Len(typed') = Len(typed) + 1 /\ Len(typed) \in Nat
        /\ \A i \in 1 .. Len(typed) : typed'[i] = typed[i]
        /\ typed'[Len(typed) + 1] = command
    BY <1>1, TypeFacts, AppendFacts
  <2>. QED  BY <2>1, <1>1, TypeFacts
<1>3. entry \in Entry /\ entry.text = command /\ entry.nr = Len(typed')
  <2>1. command \in Text
    BY DEF Text
  <2>2. Len(typed') \in 0 .. MaxCommands
    BY <1>2, TypeFacts
  <2>. QED  BY <2>1, <2>2 DEF Entry
<1>. HIDE DEF entry
<1>4. /\ queue' \in Seq(Entry) /\ queue' # <<>>
      /\ Len(queue') = Len(queue) /\ Len(queue) \in Nat \ {0}
      /\ \A j \in 1 .. Len(queue) - 1 : queue'[j] = queue[j + 1]
      /\ queue'[Len(queue)] = entry
  BY <1>1, <1>3, TypeFacts, ShiftFacts
<1>5. spurious = 0 =>
        /\ Produced /\ publisher = "waiting" /\ KnownAt(1)
        /\ queue[1].text \notin Known
  BY <1>1 DEF EInv, Turns, SubscriberTurn, Receives
<1>6. TypeOK'
  <2>1. publisher' \in {"start", "waiting", "woken"}
    BY <1>1 DEF EInv, TypeOK, Notify
  <2>. QED  BY <1>1, <1>2, <1>4, <2>1 DEF EInv, TypeOK, Entry
<1>7. Numbered'
  <2>. SUFFICES ASSUME NEW j \in 1 .. Len(queue), queue'[j].text \in Known
                PROVE  queue'[j].nr # 0
    BY <1>2, <1>4 DEF EInv, Numbered
  <2>1. CASE j = Len(queue)
    BY <2>1, <1>2, <1>3, <1>4
  <2>2. CASE j # Len(queue)
    <3>1. j \in 1 .. Len(queue) - 1 /\ j + 1 \in 1 .. Len(queue)
      BY <2>2, <1>4
    <3>. QED  BY <3>1, <1>4 DEF EInv, Numbered
  <2>. QED  BY <2>1, <2>2
<1>8. Turns'
  <2>. SUFFICES ASSUME spurious = 0
                PROVE  KnownAt(0)'
    BY <1>1, <1>4, <1>5 DEF Turns, Notify
  <2>. SUFFICES ASSUME NEW j \in 1 .. Len(queue), queue'[j].text \in Known
                PROVE  (Len(queue) - j) % 2 = 0
    BY <1>4 DEF KnownAt
  <2>1. CASE j = Len(queue)
    <3>1. Len(queue) - j = 0
      BY <2>1, <1>4
    <3>. QED  BY <3>1
  <2>2. CASE j # Len(queue)
    <3>1. j \in 1 .. Len(queue) - 1 /\ j + 1 \in 1 .. Len(queue)
      BY <2>2, <1>4
    <3>2. (Len(queue) - (j + 1)) % 2 = 1
      BY <3>1, <1>4, <1>5 DEF KnownAt
    <3>3. Len(queue) - (j + 1) \in Nat /\ Len(queue) - j = (Len(queue) - (j + 1)) + 1
      BY <3>1, <1>4
    <3>. QED  BY <3>2, <3>3, NextParity
  <2>. QED  BY <2>1, <2>2
<1>9. InStep'
  <2>. SUFFICES ASSUME ~misread
                PROVE  /\ Len(queue') = 1
                       /\ Head(queue').nr = Len(typed')
                       /\ Head(queue').text \in Command
    BY <1>1 DEF InStep
  <2>1. Len(queue) = 1
    BY <1>1 DEF EInv, InStep
  <2>2. Head(queue') = entry
    BY <2>1, <1>4, TailFacts
  <2>. QED  BY <2>1, <2>2, <1>3, <1>4
<1>10. Kept'
  <2>. SUFFICES ASSUME spurious = 0, NEW i \in 1 .. Len(typed'),
                       typed'[i] \in Known, i \notin answered
                PROVE  \E j \in 1 .. Len(queue) :
                         queue'[j] = [text |-> typed'[i], nr |-> i]
    BY <1>1, <1>4 DEF Kept
  <2>1. CASE i = Len(typed')
    <3>1. queue'[Len(queue)] = [text |-> typed'[i], nr |-> i]
      BY <2>1, <1>2, <1>4 DEF entry
    <3>. QED  BY <3>1, <1>4
  <2>2. CASE i # Len(typed')
    <3>1. i \in 1 .. Len(typed) /\ typed'[i] = typed[i]
      BY <2>2, <1>2
    <3>2. PICK j \in 1 .. Len(queue) : queue[j] = [text |-> typed[i], nr |-> i]
      BY <3>1 DEF EInv, Kept
    <3>3. j # 1
      BY <3>1, <3>2, <1>5
    <3>4. j - 1 \in 1 .. Len(queue) - 1 /\ queue'[j - 1] = queue[j]
      BY <3>3, <1>4
    <3>. QED  BY <3>1, <3>2, <3>4, <1>4
  <2>. QED  BY <2>1, <2>2
<1>. QED  BY <1>6, <1>7, <1>8, <1>9, <1>10 DEF EInv

(* The subscriber takes a text that is no known command and returns.       *)
LEMMA QuitStep ==
  ASSUME EInv, SubscriberQuits
  PROVE  EInv'
<1>1. /\ queue # <<>> /\ queue' = Tail(queue)
      /\ Produced' = FALSE /\ subscriber' = "end"
      /\ UNCHANGED <<subscribed, publisher, crashed, typed, answered, misread,
                     spurious>>
  BY DEF SubscriberQuits
<1>2. /\ queue' \in Seq(Entry)
      /\ Len(queue') = Len(queue) - 1 /\ Len(queue) \in Nat \ {0}
      /\ \A j \in 1 .. Len(queue) - 1 : queue'[j] = queue[j + 1]
  BY <1>1, TypeFacts, TailFacts
<1>3. spurious = 0 =>
        Produced /\ publisher = "waiting" /\ queue[1].text \notin Known
  BY <1>1 DEF EInv, Turns, SubscriberQuits, Receives
<1>4. TypeOK'
  BY <1>1, <1>2 DEF EInv, TypeOK, Entry
<1>5. Numbered'
  <2>. SUFFICES ASSUME NEW j \in 1 .. Len(queue) - 1, queue'[j].text \in Known
                PROVE  queue'[j].nr # 0
    BY <1>1, <1>2 DEF EInv, Numbered
  <2>. QED  BY <1>2 DEF EInv, Numbered
<1>6. Turns'
  BY <1>1, <1>3 DEF Turns
<1>7. InStep'
  <2>. SUFFICES ASSUME ~misread, queue' # <<>>
                PROVE  FALSE
    BY <1>1 DEF InStep
  <2>1. Len(queue) = 1
    BY <1>1 DEF EInv, InStep
  <2>. QED  BY <2>1, <1>2
<1>8. Kept'
  <2>. SUFFICES ASSUME spurious = 0, NEW i \in 1 .. Len(typed),
                       typed[i] \in Known, i \notin answered
                PROVE  \E j \in 1 .. Len(queue) - 1 :
                         queue'[j] = [text |-> typed[i], nr |-> i]
    BY <1>1, <1>2 DEF Kept
  <2>1. PICK j \in 1 .. Len(queue) : queue[j] = [text |-> typed[i], nr |-> i]
    BY DEF EInv, Kept
  <2>2. j # 1
    BY <2>1, <1>3
  <2>3. j - 1 \in 1 .. Len(queue) - 1 /\ queue'[j - 1] = queue[j]
    BY <2>2, <1>2
  <2>. QED  BY <2>1, <2>3
<1>. QED  BY <1>4, <1>5, <1>6, <1>7, <1>8 DEF EInv

----------------------------------------------------------------------------
(* Every step of the two threads keeps the invariant.                      *)
LEMMA NextStep == EInv /\ [Next]_vars => EInv'
<1>. SUFFICES ASSUME EInv, [Next]_vars
              PROVE  EInv'
  OBVIOUS
<1>1. CASE PublisherTurn
  BY <1>1, ReplyStep, HelpStep DEF PublisherTurn
<1>2. CASE PublisherCrashes
  BY <1>2 DEF PublisherCrashes, EInv, TypeOK, Numbered, Turns, KnownAt, InStep,
              Kept, threadVars
<1>3. CASE SubscriberWaits
  BY <1>3 DEF SubscriberWaits, EInv, TypeOK, Numbered, Turns, KnownAt, InStep,
              Kept
<1>4. CASE \E command \in Command : SubscriberTurn(command)
  BY <1>4, SubscriberStep
<1>5. CASE SubscriberQuits
  BY <1>5, QuitStep
<1>6. CASE SubscriberCrashes
  BY <1>6 DEF SubscriberCrashes, EInv, TypeOK, Numbered, Turns, KnownAt, InStep,
              Kept, threadVars
<1>7. CASE Spurious
  <2>1. spurious' # 0
    BY <1>7, TypeFacts DEF Spurious
  <2>2. TypeOK'
    BY <1>7, BoundAssumption DEF Spurious, EInv, TypeOK
  <2>3. Numbered'
    BY <1>7 DEF Spurious, EInv, Numbered
  <2>4. InStep'
    BY <1>7 DEF Spurious, EInv, InStep
  <2>. QED  BY <2>1, <2>2, <2>3, <2>4 DEF EInv, Turns, Kept
<1>8. CASE UNCHANGED vars
  BY <1>8 DEF vars, EInv, TypeOK, Numbered, Turns, KnownAt, InStep,
              Kept, threadVars
<1>. QED  BY <1>1, <1>2, <1>3, <1>4, <1>5, <1>6, <1>7, <1>8 DEF Next

(* EInv holds in every state of the simulator.                             *)
THEOREM Invariance == Spec => []EInv
<1>. QED  BY InitInv, NextStep, PTL DEF Spec

(* Every variable has its type.                                            *)
THEOREM TypeCorrect == Spec => []TypeOK
<1>1. EInv => TypeOK
  BY DEF EInv
<1>. QED  BY <1>1, Invariance, PTL

(***************************************************************************)
(* As long as no text that it does not know reached the publisher, the     *)
(* queue holds one text, and Produced says whether it is the last command  *)
(* or the answer to it, whatever woke the threads.                         *)
(***************************************************************************)
THEOREM TakesTurns == Spec => []InStep
<1>1. EInv => InStep
  BY DEF EInv
<1>. QED  BY <1>1, Invariance, PTL

(***************************************************************************)
(* As long as only notifications wake the threads, the subscriber takes no *)
(* known command out of the queue before the publisher has answered it,    *)
(* however many unknown ones have come in between.                         *)
(***************************************************************************)
THEOREM NoCommandSkipped == Spec => []NoneSkipped
<1>1. ASSUME EInv
      PROVE  NoneSkipped
  <2>. SUFFICES ASSUME spurious = 0, NEW i \in DOMAIN typed,
                       typed[i] \in Known, i \notin answered
                PROVE  \E j \in DOMAIN queue : queue[j] = [text |-> typed[i], nr |-> i]
    BY DEF NoneSkipped
  <2>1. i \in 1 .. Len(typed) /\ DOMAIN queue = 1 .. Len(queue)
    BY <1>1, TypeFacts
  <2>2. PICK j \in 1 .. Len(queue) : queue[j] = [text |-> typed[i], nr |-> i]
    BY <1>1, <2>1 DEF EInv, Kept
  <2>. QED  BY <2>1, <2>2
<1>. QED  BY <1>1, Invariance, PTL
=============================================================================
