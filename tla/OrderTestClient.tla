--------------------------- MODULE OrderTestClient ---------------------------
(***************************************************************************)
(* The order test client, src/ma2_scripts/ma2_test_client.py: a timer      *)
(* sends one request after the other, answers set flags as they come, and  *)
(* each turn of the timer records as errors what its last request did not  *)
(* get.  The exchange on the other side is outside the code: it takes the  *)
(* requests in order, answers each when it likes or never, and creates no  *)
(* order without a request.                                                *)
(*                                                                         *)
(* Of the texts of errors and warnings only their being there is kept.     *)
(***************************************************************************)
EXTENDS Naturals, Sequences, FiniteSets, SequencesExt, FiniteSetsExt

CONSTANT
  MaxTrouble    (* bound: deviations of exchange and network from the plan *)

ASSUME BoundAssumption == MaxTrouble \in Nat

VARIABLES
  appl_init,     (* nothing was sent yet                                   *)
  sent,          (* the X of the flags X_sent that are set                 *)
  all_sent,      (* all_sent                                               *)
  recv,          (* the X of the flags X_recv that are set                 *)
  ornw_counter,  (* ornw_counter                                           *)
  order_id,      (* the number of the order, counted from 1                *)
  exchId,        (* the order whose exchange id was received last, 0: none *)
  errors,        (* errors is not empty                                    *)
  warnings,      (* warnings is not empty                                  *)
  status,        (* "running", "done" or "lost"                            *)
  requests,      (* what was sent: kind and order                          *)
  answered,      (* external: the requests the exchange has looked at      *)
  created,       (* external: the orders it has created                    *)
  channel,       (* external: its messages on the way to the client        *)
  trouble,       (* external: the deviations so far                        *)
  timely         (* history: the requests answered before the next one     *)

flagVars == <<appl_init, sent, all_sent, ornw_counter, order_id>>
heardVars == <<recv, exchId, errors, warnings>>
exchangeVars == <<answered, created, channel>>
vars == <<flagVars, heardVars, status, requests, exchangeVars, trouble, timely>>

Init ==
  /\ appl_init = TRUE
  /\ sent = {}
  /\ all_sent = FALSE
  /\ recv = {}
  /\ ornw_counter = 0
  /\ order_id = 1
  /\ exchId = 0
  /\ errors = FALSE
  /\ warnings = FALSE
  /\ status = "running"
  /\ requests = <<>>
  /\ answered = 0
  /\ created = {}
  /\ channel = <<>>
  /\ trouble = 0
  /\ timely = {}

----------------------------------------------------------------------------
(* The exchange.                                                           *)

(* What it says to a request: first the regular answer, then the others.   *)
Answers(kind) ==
  CASE kind = "helo" -> <<<<"exst">>, <<"err">>, <<>>>>
    [] kind = "hrbt" -> <<<<>>>>
    [] kind = "pdrq" -> <<<<"pdrp">>, <<"err">>, <<>>>>
    [] kind = "ornw" -> <<<<"ack", "orcr">>, <<"orrj">>, <<"ack">>, <<"err">>, <<>>>>
    [] kind = "oprq" -> <<<<"oprp">>, <<"err">>, <<>>>>
    [] kind = "orcn" -> <<<<"ack", "orst", "ordn">>, <<"clrj">>, <<"err">>, <<>>>>
    [] kind = "blrq" -> <<<<"blrp">>, <<"err">>, <<>>>>

(* Complete; with a field missing; with one that is read all the same.     *)
Form == {"whole", "field", "key"}

(* One deviation more, if there is one.                                    *)
Deviates(yes) ==
  /\ trouble' = IF yes THEN trouble + 1 ELSE trouble
  /\ trouble' <= MaxTrouble

ExchangeAnswers ==
  /\ status = "running"
  /\ answered < Len(requests)
  /\ answered' = answered + 1
  /\ LET r == requests[answered']
     IN \E i \in DOMAIN Answers(r.kind), form \in Form :
          LET types == Answers(r.kind)[i]
          IN /\ channel' = channel \o
                  [j \in DOMAIN types |->
                     [type |-> types[j], to |-> answered', order |-> r.order,
                      form |-> IF j = Len(types) THEN form ELSE "whole"]]
             /\ created' = IF "orcr" \in ToSet(types)
                           THEN created \cup {r.order} ELSE created
             /\ types = <<>> => form = "whole"
             /\ Deviates(i # 1 \/ form # "whole")
  /\ UNCHANGED <<flagVars, heardVars, status, requests, timely>>

(* Its status changes, of which it tells without being asked.              *)
StatusChanges ==
  /\ status = "running"
  /\ channel' = Append(channel,
       [type |-> "exst", to |-> 0, order |-> 0, form |-> "whole"])
  /\ Deviates(TRUE)
  /\ UNCHANGED <<flagVars, heardVars, status, requests, answered, created, timely>>

(* It closes the connection.                                               *)
ExchangeCloses ==
  /\ status = "running"
  /\ status' = "lost"
  /\ Deviates(TRUE)
  /\ UNCHANGED <<flagVars, heardVars, requests, exchangeVars, timely>>

----------------------------------------------------------------------------
(* Receiving.                                                              *)

(* What the if of each X_sent takes for an answer; others are errors.      *)
Wanted == [pdrq |-> {"pdrp"}, blrq |-> {"blrp"}, oprq |-> {"oprp"},
           ornw |-> {"ack", "orcr", "orrj"},
           orcn |-> {"ack", "orst", "ordn", "clrj"}]

Asking == DOMAIN Wanted \cap sent

IsWanted(type) ==
  \/ type = "exst" /\ "helo" \in sent
  \/ \E p \in Asking : type \in Wanted[p]

(* Mutant: an order that was rejected counts as created.                   *)
FlagRejected(type) ==
  CASE type = "exst" -> "helo"
    [] type = "orcr" -> "ornw"
    [] type = "orrj" -> "ornw"
    [] type = "ordn" -> "orcn"
    [] OTHER -> type

(* The X_recv that a wanted message sets.                                  *)
Flag(type) ==
  CASE type = "exst" -> "helo"
    [] type = "orcr" -> "ornw"
    [] type = "ordn" -> "orcn"
    [] OTHER -> type

(* The parse_... of a message, on what was heard so far; an exception of   *)
(* one that misses a key it reads makes asyncio close the connection.      *)
ParseMessage(c, m) ==
  LET raises == m.form = "key" /\ m.type \in {"exst", "pdrp", "orcr", "oprp", "err"}
  IN [c EXCEPT !.errors = @ \/ m.form # "whole" \/ m.type = "err",
               !.exchId = IF m.type = "orcr" /\ ~raises THEN m.order ELSE @,
               !.raised = raises,
               !.over = @ \/ raises]

(* It is the last answer to the last request; an exst does not say what it *)
(* answers.                                                                *)
Settles(m) ==
  \/ m.to = Len(requests) /\ m.type \notin {"ack", "orst"}
  \/ m.type = "exst" /\ "helo" \in sent

(* One message that is neither early nor an err.                           *)
Hear(c, m) ==
  LET wanted == IsWanted(m.type)
      flagged ==
        [c EXCEPT
          !.recv = (@ \ {"err"}) \cup (IF wanted THEN {Flag(m.type)} ELSE {}),
          !.errors = @ \/ \E p \in Asking : m.type \notin Wanted[p],
          !.warnings = @ \/ (~wanted /\ m.type \in {"orcr", "orrj", "orst", "ordn", "clrj"}),
          !.timely = @ \cup (IF Settles(m) THEN {Len(requests)} ELSE {})]
  IN IF wanted \/ m.type \in {"pdrp", "blrp", "oprp"}
     THEN ParseMessage(flagged, m) ELSE flagged

(***************************************************************************)
(* The loop of data_received: a message that is cut off, early or an err   *)
(* ends it, whatever came behind.                                          *)
(***************************************************************************)
HearNext(c, m) ==
  CASE c.over -> c
    [] ~c.over /\ m.type = "fragment" -> [c EXCEPT !.errors = TRUE, !.over = TRUE]
    [] ~c.over /\ m.type # "fragment" /\ appl_init ->
         [ParseMessage(c, m) EXCEPT !.errors = TRUE, !.over = TRUE]
    [] ~c.over /\ m.type = "err" /\ ~appl_init ->
         [ParseMessage(c, m) EXCEPT !.recv = @ \cup {"err"}, !.over = TRUE]
    [] OTHER -> Hear(c, m)

(***************************************************************************)
(* data_received: what has arrived is n whole messages, or these and the   *)
(* first part of the next, whose other part then comes with the rest.      *)
(* (A cut right before a newline only adds an error; it is not told apart.)*)
(***************************************************************************)
DataReceived(n, cut) ==
  LET fragment == [type |-> "fragment", to |-> 0, order |-> 0, form |-> "whole"]
      data == SubSeq(channel, 1, n) \o (IF cut THEN <<fragment>> ELSE <<>>)
      rest == SubSeq(channel, n + 1, Len(channel))
      before == [recv |-> recv, exchId |-> exchId, errors |-> errors,
                 warnings |-> warnings, timely |-> timely,
                 over |-> FALSE, raised |-> FALSE]
      after == FoldLeft(HearNext, before, data)
  IN /\ status = "running"
     /\ n <= Len(channel)
     /\ IF cut THEN rest # <<>> ELSE n > 0
     /\ channel' = IF cut THEN <<fragment>> \o Tail(rest) ELSE rest
     /\ recv' = after.recv
     /\ exchId' = after.exchId
     /\ errors' = after.errors
     /\ warnings' = after.warnings
     /\ timely' = after.timely
     /\ status' = IF after.raised THEN "lost" ELSE "running"
     /\ Deviates(cut)
     /\ UNCHANGED <<flagVars, requests, answered, created>>

----------------------------------------------------------------------------
(* The timer, _send_next.                                                  *)

(* The elifs in their order; the last else is never reached.               *)
Chain == <<"helo", "hrbt", "pdrq", "ornw", "oprq", "orcn", "blrq">>

Holds(f) == f \in sent /\ (f = "ornw" => ornw_counter < 2)

Branch ==
  CASE appl_init -> "appl_init"
    [] ~appl_init /\ \E i \in DOMAIN Chain : Holds(Chain[i]) ->
         Chain[Min({i \in DOMAIN Chain : Holds(Chain[i])})]
    [] OTHER -> IF all_sent THEN "all_sent" ELSE "else"

(* A request goes out; messages still to come are late.                    *)
Send(kind, order) ==
  /\ requests' = Append(requests, [kind |-> kind, order |-> order])
  /\ Deviates(answered < Len(requests) \/ channel # <<>>)
  /\ UNCHANGED <<status, exchangeVars, timely>>

(* From the flag of the last request to that of this one.                  *)
Moves(from, to) == sent' = (sent \ {from}) \cup {to}

(* An error is recorded if yes.                                            *)
Records(yes) == errors' = (errors \/ yes)

SendHelo ==
  /\ Branch = "appl_init"
  /\ Send("helo", 0)
  /\ appl_init' = FALSE
  /\ sent' = sent \cup {"helo"}
  /\ UNCHANGED <<all_sent, ornw_counter, order_id, heardVars>>

(* Mutant: nobody looks whether helo was answered.                         *)
SendHeartbeatUnchecked ==
  /\ Branch = "helo"
  /\ Send("hrbt", 0)
  /\ Moves("helo", "hrbt")
  /\ UNCHANGED <<appl_init, all_sent, ornw_counter, order_id, heardVars>>

SendHeartbeat ==
  /\ Branch = "helo"
  /\ Send("hrbt", 0)
  /\ Moves("helo", "hrbt")
  /\ Records("helo" \notin recv)
  /\ UNCHANGED <<appl_init, all_sent, ornw_counter, order_id, recv, exchId, warnings>>

SendPairData ==
  /\ Branch = "hrbt"
  /\ Send("pdrq", 0)
  /\ Moves("hrbt", "pdrq")
  /\ UNCHANGED <<appl_init, all_sent, ornw_counter, order_id, heardVars>>

SendNewOrder ==
  /\ Branch = "pdrq"
  /\ Send("ornw", order_id)
  /\ Moves("pdrq", "ornw")
  /\ Records("pdrp" \notin recv)
  /\ UNCHANGED <<appl_init, all_sent, ornw_counter, order_id, recv, exchId, warnings>>

(* Mutant: the orders are not counted.                                     *)
SendOpenOrdersUncounted ==
  /\ Branch = "ornw"
  /\ Send("oprq", 0)
  /\ Moves("ornw", "oprq")
  /\ Records("orrj" \notin recv /\ ~({"ack", "ornw"} \subseteq recv))
  /\ warnings' = (warnings \/ "orrj" \in recv)
  /\ UNCHANGED <<appl_init, all_sent, ornw_counter, order_id, recv, exchId>>

SendOpenOrders ==
  /\ Branch = "ornw"
  /\ Send("oprq", 0)
  /\ Moves("ornw", "oprq")
  /\ Records("orrj" \notin recv /\ ~({"ack", "ornw"} \subseteq recv))
  /\ warnings' = (warnings \/ "orrj" \in recv)
  /\ ornw_counter' = ornw_counter + 1
  /\ UNCHANGED <<appl_init, all_sent, order_id, recv, exchId>>

(* The order by the exchange's id, or by ours when it is the first.        *)
SendCancel ==
  /\ Branch = "oprq"
  /\ "ornw" \in recv
  /\ Send("orcn", IF ornw_counter # 1 THEN exchId ELSE order_id)
  /\ Moves("oprq", "orcn")
  /\ Records("oprp" \notin recv)
  /\ recv' = recv \ {"ack"}
  /\ UNCHANGED <<appl_init, all_sent, ornw_counter, order_id, exchId, warnings>>

(* There is no order to cancel.                                            *)
SendBalance ==
  /\ Branch = "oprq"
  /\ "ornw" \notin recv
  /\ Send("blrq", 0)
  /\ Moves("oprq", "blrq")
  /\ Records("oprp" \notin recv)
  /\ UNCHANGED <<appl_init, all_sent, ornw_counter, order_id, recv, exchId, warnings>>

SendBalanceAfterCancel ==
  /\ Branch = "orcn"
  /\ Send("blrq", 0)
  /\ Moves("orcn", "blrq")
  /\ Records({"clrj", "err"} \cap recv = {} /\ ~({"ack", "orst", "orcn"} \subseteq recv))
  /\ warnings' = (warnings \/ "clrj" \in recv)
  /\ UNCHANGED <<appl_init, all_sent, ornw_counter, order_id, recv, exchId>>

SendNextOrder ==
  /\ Branch = "blrq"
  /\ Send("ornw", order_id + 1)
  /\ Moves("blrq", "ornw")
  /\ Records("blrp" \notin recv)
  /\ order_id' = order_id + 1
  /\ all_sent' = TRUE
  /\ UNCHANGED <<appl_init, ornw_counter, recv, exchId, warnings>>

Close ==
  /\ Branch = "all_sent"
  /\ status' = "done"
  /\ UNCHANGED <<flagVars, heardVars, requests, exchangeVars, trouble, timely>>

SendNext ==
  /\ status = "running"
  /\ \/ SendHelo \/ SendHeartbeat \/ SendPairData \/ SendNewOrder
     \/ SendOpenOrders \/ SendCancel \/ SendBalance \/ SendBalanceAfterCancel
     \/ SendNextOrder \/ Close

Next ==
  \/ SendNext
  \/ \E n \in 0 .. Len(channel), cut \in BOOLEAN : DataReceived(n, cut)
  \/ ExchangeAnswers
  \/ StatusChanges
  \/ ExchangeCloses

Spec == Init /\ [][Next]_vars

----------------------------------------------------------------------------
Orders == 1 .. 3

(* The requests of the longest run: four, and for the orders four, three   *)
(* and one more.                                                           *)
MaxRequests == 12

(* The poor man's state machine: one request at a time is waited for, the  *)
(* chain of elifs has a branch for each state and ends after three orders. *)
TypeOK ==
  /\ {appl_init, all_sent, errors, warnings} \subseteq BOOLEAN
  /\ sent \subseteq ToSet(Chain)
  /\ Cardinality(sent) = IF appl_init THEN 0 ELSE 1
  /\ Branch # "else"
  /\ recv \subseteq {"helo", "pdrp", "ornw", "orrj", "oprp", "blrp", "orcn",
                     "clrj", "orst", "ack", "err"}
  /\ ornw_counter \in 0 .. 2
  /\ order_id \in Orders
  /\ exchId \in Orders \cup {0}
  /\ status \in {"running", "done", "lost"}
  /\ Len(requests) <= MaxRequests
  /\ answered \in 0 .. Len(requests)
  /\ created \subseteq Orders
  /\ timely \subseteq 1 .. Len(requests)

(* The i-th request is of this kind.                                       *)
Is(i, kind) == requests[i].kind = kind

(* The client was told in time that the order of the i-th request exists.  *)
Told(i) == Is(i, "ornw") /\ i \in timely /\ requests[i].order \in created

(***************************************************************************)
(* What is cancelled was created, though half of the cancels go by a stale *)
(* exchange id and ornw_recv is never cleared; and when the test is over,  *)
(* the first two orders are cancelled if the client was told of them in    *)
(* time.  (The third is left open, whatever happened.)                     *)
(***************************************************************************)
Cancels ==
  /\ \A i \in DOMAIN requests : Is(i, "orcn") => requests[i].order \in created
  /\ status = "done" =>
       \A i \in DOMAIN requests :
         Told(i) /\ requests[i].order < 3 =>
           \E j \in DOMAIN requests :
             Is(j, "orcn") /\ requests[j].order = requests[i].order

(***************************************************************************)
(* A test that found no error had the first request of every kind answered *)
(* before the next one was sent, by an answer to that very request, or, in *)
(* the case of helo, by any exst.  (Of the later ones it says nothing, as  *)
(* the flags stay set.)                                                    *)
(***************************************************************************)
CleanMeansAnswered ==
  status = "done" /\ ~errors =>
    \A kind \in {"helo", "pdrq", "ornw", "oprq", "blrq"} :
      Min({i \in DOMAIN requests : Is(i, kind)}) \in timely
=============================================================================
