----------------------------- MODULE ExchangeSim -----------------------------
(***************************************************************************)
(* The exchange simulator, src/exchange_sim/thread-base.cpp: a publisher   *)
(* and a subscriber thread pass strings through one queue, taking turns by *)
(* a mutex, a condition variable and the flag Produced.                    *)
(*                                                                         *)
(* A thread holds the mutex from the moment it gets it until it waits or   *)
(* returns, getline included, so each turn is one step.  Waits are behind  *)
(* an `if`, and a condition variable may wake a thread for no reason.      *)
(***************************************************************************)
EXTENDS Naturals, Sequences

CONSTANTS
  MaxCommands,  (* bound: the commands a user types                        *)
  MaxSpurious   (* bound: the wake-ups nobody asked for                    *)

ASSUME BoundAssumption == {MaxCommands, MaxSpurious} \subseteq Nat

(* What the user types; "else" is anything the publisher does not know.    *)
Known == {"subscribe", "unsubscribe", "exchange_status", "symbol_status"}

Command == Known \cup {"else"}

(* Mutant: nothing is said to a text the publisher does not know.          *)
AnswerUnhelpful(text, sub) ==
  CASE text = "subscribe" -> "Subscribed"
    [] text = "unsubscribe" -> "Unsubscribed"
    [] text = "exchange_status" -> IF sub THEN "status 1" ELSE "status 0"
    [] text = "symbol_status" -> IF sub THEN "security list" ELSE "status 0"
    [] OTHER -> ""

(* The publisher's answer to a text it finds in the queue.                 *)
Answer(text, sub) ==
  CASE text = "subscribe" -> "Subscribed"
    [] text = "unsubscribe" -> "Unsubscribed"
    [] text = "exchange_status" -> IF sub THEN "status 1" ELSE "status 0"
    [] text = "symbol_status" -> IF sub THEN "security list" ELSE "status 0"
    [] OTHER -> "Exchange Commands"

VARIABLES
  queue,       (* m_queue: texts, each with the number of its command      *)
  Produced,    (* Produced                                                 *)
  subscribed,  (* the publisher's subscribed                               *)
  publisher,   (* where the threads are: "start" and "woken" try to get    *)
  subscriber,  (* the mutex, "waiting" is in cv_.wait, "end" has returned  *)
  crashed,     (* undefined behaviour ended the process                    *)
  typed,       (* history: the commands of the user                        *)
  answered,    (* history: the numbers of the commands answered            *)
  misread,     (* history: an "else" reached the publisher                 *)
  spurious     (* history: the wake-ups nobody asked for                   *)

threadVars == <<publisher, subscriber>>
vars == <<queue, Produced, subscribed, threadVars, crashed, typed, answered,
          misread, spurious>>

Init ==
  /\ queue = <<>>
  /\ Produced = FALSE
  /\ subscribed = FALSE
  /\ publisher = "start"
  /\ subscriber = "start"
  /\ crashed = FALSE
  /\ typed = <<>>
  /\ answered = {}
  /\ misread = FALSE
  /\ spurious = 0

Ready(thread) == ~crashed /\ thread \in {"start", "woken"}

(* notify_all and notify_one: only one other thread can be waiting.        *)
Notify(thread) == IF thread = "waiting" THEN "woken" ELSE thread

----------------------------------------------------------------------------
(* The publisher.                                                          *)

(* Mutants: the answer is put behind the text, which stays; it takes the   *)
(* place of all that is in the queue.                                      *)
ReplyKeeps ==
  LET front == Head(queue)
  IN /\ queue # <<>>
     /\ front.text \in Known
     /\ queue' = Append(queue,
                        [text |-> Answer(front.text, subscribed), nr |-> front.nr])
     /\ subscribed' = CASE front.text = "subscribe" -> TRUE
                        [] front.text = "unsubscribe" -> FALSE
                        [] OTHER -> subscribed
     /\ answered' = answered \cup {front.nr}
     /\ UNCHANGED misread

ReplyDrains ==
  LET front == Head(queue)
  IN /\ queue # <<>>
     /\ front.text \in Known
     /\ queue' = <<[text |-> Answer(front.text, subscribed), nr |-> front.nr]>>
     /\ subscribed' = CASE front.text = "subscribe" -> TRUE
                        [] front.text = "unsubscribe" -> FALSE
                        [] OTHER -> subscribed
     /\ answered' = answered \cup {front.nr}
     /\ UNCHANGED misread

(* A text it knows: the answer takes the text's place in the queue.        *)
Reply ==
  LET front == Head(queue)
  IN /\ queue # <<>>
     /\ front.text \in Known
     /\ queue' = Append(Tail(queue),
                        [text |-> Answer(front.text, subscribed), nr |-> front.nr])
     /\ subscribed' = CASE front.text = "subscribe" -> TRUE
                        [] front.text = "unsubscribe" -> FALSE
                        [] OTHER -> subscribed
     /\ answered' = answered \cup {front.nr}
     /\ UNCHANGED misread

(***************************************************************************)
(* Anything else, and what front() returns of an empty queue: help is      *)
(* pushed and the text stays where it is.                                  *)
(***************************************************************************)
Help ==
  /\ queue # <<>> => Head(queue).text \notin Known
  /\ queue' = Append(queue, [text |-> Answer("else", subscribed), nr |-> Len(typed)])
  /\ misread' = (misread \/ queue # <<>>)
  /\ UNCHANGED <<subscribed, answered>>

(* Mutant: help is pushed and the subscriber is not told.                  *)
PublisherTurnSilent ==
  /\ Ready(publisher)
  /\ \/ Reply /\ subscriber' = Notify(subscriber)
     \/ Help /\ UNCHANGED subscriber
  /\ Produced' = TRUE
  /\ publisher' = "waiting"
  /\ UNCHANGED <<crashed, typed, spurious>>

(***************************************************************************)
(* A turn, from the return of wait, or the start, to the next wait, which  *)
(* comes at once: Produced is clear when the publisher starts and set      *)
(* after each turn.                                                        *)
(***************************************************************************)
PublisherTurn ==
  /\ Ready(publisher)
  /\ Reply \/ Help
  /\ Produced' = TRUE
  /\ subscriber' = Notify(subscriber)
  /\ publisher' = "waiting"
  /\ UNCHANGED <<crashed, typed, spurious>>

(* front() of an empty queue reads memory that holds no string.            *)
PublisherCrashes ==
  /\ Ready(publisher)
  /\ queue = <<>>
  /\ crashed' = TRUE
  /\ UNCHANGED <<queue, Produced, subscribed, threadVars, typed, answered,
                 misread, spurious>>

----------------------------------------------------------------------------
(* The subscriber.                                                         *)

(* Nothing was produced yet when it starts.                                *)
SubscriberWaits ==
  /\ ~crashed
  /\ subscriber = "start"
  /\ ~Produced
  /\ subscriber' = "waiting"
  /\ UNCHANGED <<queue, Produced, subscribed, publisher, crashed, typed,
                 answered, misread, spurious>>

(* It may go on: it need not wait, or its wait has returned.               *)
Receives == Ready(subscriber) /\ (subscriber = "woken" \/ Produced)

(***************************************************************************)
(* A turn: it takes what is in front, the user types a command, and it     *)
(* waits for the answer, as Produced is clear again.                       *)
(***************************************************************************)
SubscriberTurn(command) ==
  /\ Receives
  /\ queue # <<>>
  /\ Len(typed) < MaxCommands
  /\ typed' = Append(typed, command)
  /\ queue' = Append(Tail(queue), [text |-> command, nr |-> Len(typed')])
  /\ Produced' = FALSE
  /\ publisher' = Notify(publisher)
  /\ subscriber' = "waiting"
  /\ UNCHANGED <<subscribed, crashed, answered, misread, spurious>>

(* The user types quit or exit.                                            *)
SubscriberQuits ==
  /\ Receives
  /\ queue # <<>>
  /\ queue' = Tail(queue)
  /\ Produced' = FALSE
  /\ subscriber' = "end"
  /\ UNCHANGED <<subscribed, publisher, crashed, typed, answered, misread,
                 spurious>>

(* A wake-up in front of an empty queue: front() and pop() are undefined.  *)
SubscriberCrashes ==
  /\ Receives
  /\ queue = <<>>
  /\ crashed' = TRUE
  /\ UNCHANGED <<queue, Produced, subscribed, threadVars, typed, answered,
                 misread, spurious>>

----------------------------------------------------------------------------
(* A wait returns though nobody notified.                                  *)
Spurious ==
  /\ ~crashed
  /\ spurious < MaxSpurious
  /\ spurious' = spurious + 1
  /\ \/ publisher = "waiting" /\ publisher' = "woken" /\ UNCHANGED subscriber
     \/ subscriber = "waiting" /\ subscriber' = "woken" /\ UNCHANGED publisher
  /\ UNCHANGED <<queue, Produced, subscribed, crashed, typed, answered, misread>>

Next ==
  \/ PublisherTurn
  \/ PublisherCrashes
  \/ SubscriberWaits
  \/ \E command \in Command : SubscriberTurn(command)
  \/ SubscriberQuits
  \/ SubscriberCrashes
  \/ Spurious

Spec == Init /\ [][Next]_vars

(* The publisher never blocks but in its wait.  The user need not type.    *)
FairSpec == Spec /\ WF_vars(PublisherTurn)

----------------------------------------------------------------------------
Text == Command \cup {"Subscribed", "Unsubscribed", "status 0", "status 1",
                      "security list", "Exchange Commands"}

TypeOK ==
  /\ queue \in Seq([text : Text, nr : 0 .. MaxCommands])
  /\ {Produced, subscribed, crashed, misread} \subseteq BOOLEAN
  /\ publisher \in {"start", "waiting", "woken"}
  /\ subscriber \in {"start", "waiting", "woken", "end"}
  /\ typed \in Seq(Command)
  /\ answered \subseteq 1 .. MaxCommands
  /\ spurious \in 0 .. MaxSpurious

(***************************************************************************)
(* The turns: the queue holds one text, and Produced says whose it is, the *)
(* last command or the publisher's answer to it.  Both ifs around the      *)
(* waits rest on this.  A spurious wake-up of the subscriber, which then   *)
(* takes its own command back and types another, does not end it; a text   *)
(* the publisher does not know does, because Help leaves it in the queue,  *)
(* and so does a spurious wake-up in which it reads its own answer.        *)
(***************************************************************************)
InStep ==
  ~misread /\ queue # <<>> =>
    /\ Len(queue) = 1
    /\ Head(queue).nr = Len(typed)
    /\ Produced <=> (Head(queue).text \notin Command)

(***************************************************************************)
(* Unknown commands shift the answers for good, so that the subscriber     *)
(* reads its own texts back and each answer late; but as long as only      *)
(* notifications wake the threads it takes nothing that the publisher has  *)
(* not seen: every known command is answered or is itself still in the     *)
(* queue.                                                                  *)
(***************************************************************************)
NoneSkipped ==
  spurious = 0 =>
    \A i \in DOMAIN typed :
      typed[i] \in Known =>
        \/ i \in answered
        \/ \E j \in DOMAIN queue : queue[j] = [text |-> typed[i], nr |-> i]

(***************************************************************************)
(* No wake-up is lost: the subscriber never waits for good, whatever it    *)
(* typed and however the waits returned.                                   *)
(***************************************************************************)
Woken == subscriber = "waiting" ~> subscriber # "waiting" \/ crashed
=============================================================================
