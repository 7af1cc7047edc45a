----------------------------- MODULE FixHandler -----------------------------
(***************************************************************************)
(* The session of a FIX connection, struct FixHandler in                   *)
(* src/baxter/fix_api/FixHandler.hpp: the numbers of the messages sent and *)
(* received, the interval of heartbeats and the timer that watches over a  *)
(* silent peer.                                                            *)
(*                                                                         *)
(* Of a message received only what the session's state depends on is kept: *)
(* its kind, and the interval a Logon asks for.  Callbacks of subscribers  *)
(* are outside: what they send are Instruct steps of their own.            *)
(***************************************************************************)
EXTENDS Naturals, Sequences, FiniteSets, SequencesExt

CONSTANTS
  DefaultHb,  (* the interval before a Logon names one: 30 seconds         *)
  HbLimit,    (* an interval below this one is accepted: 600 seconds       *)
  MaxTime,    (* bound: the time at which the model ends                   *)
  MaxSeqNum,  (* bound: no number above this one is sent                   *)
  MaxSymbols  (* bound: the symbols of one market data request             *)

ASSUME HandlerAssumption ==
  /\ {DefaultHb, MaxTime} \subseteq Nat \ {0}
  /\ {HbLimit, MaxSeqNum, MaxSymbols} \subseteq Nat

VARIABLES
  connected,      (* the connection is up                                  *)
  now,            (* the clock                                             *)
  hbInterval,     (* m_hbInterval                                          *)
  lastMsgRecvTm,  (* m_lastMsgRecvTm                                       *)
  expiry,         (* when the wait of m_timer ends, 0 if it has none       *)
  queued,         (* waits that ended and whose handlers have not run      *)
  msgSeqNum,      (* m_msgSeqNum                                           *)
  lastMsgSeqNum,  (* m_lastMsgSeqNum                                       *)
  sent,           (* the numbers of the messages sent on this connection   *)
  failed,         (* the numbers taken otherwise: by messages that were    *)
                  (* not formatted, or before this connection              *)
  watching,       (* history: a Logon of this connection set the timer     *)
  noticed,        (* history: the peer's silence was reported              *)
  strayed         (* history: the connection broke with a handler queued   *)

clockVars == <<now, hbInterval, lastMsgRecvTm, expiry, queued>>
numberVars == <<msgSeqNum, lastMsgSeqNum, sent, failed>>
histVars == <<watching, noticed, strayed>>
sessionVars == <<connected, clockVars, numberVars, histVars>>

NoWait == 0

(* What the constructor sets; the connection is not up yet.                *)
SessionInit ==
  /\ connected = FALSE
  /\ now = 1
  /\ hbInterval = DefaultHb
  /\ lastMsgRecvTm = now
  /\ expiry = NoWait
  /\ queued = 0
  /\ msgSeqNum = 1
  /\ lastMsgSeqNum = 0
  /\ sent = <<>>
  /\ failed = {}
  /\ watching = FALSE
  /\ noticed = FALSE
  /\ strayed = FALSE

----------------------------------------------------------------------------
(* Receiving.  A message is [kind, hb, number]; Kind lists the cases that  *)
(* differ in what they do to the session.                                  *)
Kind == {"logon",      (* one with a heartbeat interval                    *)
         "other",      (* its subscribers are called, no more              *)
         "no_number",  (* its number is missing, which throws              *)
         "invalid"}    (* FixMsgParser cannot parse it and drops it        *)

(* Mutant: every interval is accepted.                                     *)
AcceptedAny(hb, old) == hb

(* The interval after a Logon that asks for hb.                            *)
Accepted(hb, old) == IF 0 < hb /\ hb < HbLimit THEN hb ELSE old

(***************************************************************************)
(* parseFixMsg, on the part s of the state that it changes; a message that *)
(* the parser dropped does not get there.                                  *)
(***************************************************************************)
ParseFixMsg(s, m) ==
  LET hb == Accepted(m.hb, s.hb)
      heard == [s EXCEPT !.recv = now, !.noticed = FALSE]
      numbered == [heard EXCEPT !.last = m.number]
  IN CASE m.kind = "invalid" -> s
       [] m.kind = "no_number" -> heard
       [] m.kind = "logon" -> [numbered EXCEPT !.hb = hb, !.expiry = now + hb,
                                               !.watching = TRUE]
       [] m.kind = "other" -> numbered

(* onFixMsg for each of the messages ms of one read.                       *)
OnFixMsgs(ms) ==
  LET before == [hb |-> hbInterval, expiry |-> expiry, last |-> lastMsgSeqNum,
                 recv |-> lastMsgRecvTm, watching |-> watching,
                 noticed |-> noticed]
      after == FoldLeft(ParseFixMsg, before, ms)
  IN /\ hbInterval' = after.hb
     /\ expiry' = after.expiry
     /\ lastMsgSeqNum' = after.last
     /\ lastMsgRecvTm' = after.recv
     /\ watching' = after.watching
     /\ noticed' = after.noticed
     /\ UNCHANGED <<connected, now, queued, msgSeqNum, sent, failed, strayed>>

----------------------------------------------------------------------------
(* The timer.                                                              *)

(* The wait ends: its handler is queued and can no longer be cancelled.    *)
Expire ==
  /\ expiry # NoWait
  /\ expiry <= now
  /\ queued' = queued + 1
  /\ expiry' = NoWait
  /\ UNCHANGED <<connected, now, hbInterval, lastMsgRecvTm, numberVars, histVars>>

(* Time passes; no handler of the event loop waits for a whole unit.       *)
Tick ==
  /\ now < MaxTime
  /\ queued = 0
  /\ expiry = NoWait \/ expiry > now
  /\ now' = now + 1
  /\ UNCHANGED <<connected, hbInterval, lastMsgRecvTm, expiry, queued,
                 numberVars, histVars>>

(* Mutant: one interval more of silence is let pass.                       *)
OnHeartbeatTestLate ==
  /\ queued > 0
  /\ queued' = queued - 1
  /\ noticed' = (noticed \/ now > lastMsgRecvTm + 3 * hbInterval)
  /\ expiry' = now + hbInterval
  /\ UNCHANGED <<connected, now, hbInterval, lastMsgRecvTm, numberVars,
                 watching, strayed>>

(***************************************************************************)
(* onHeartbeatTest without an error: our heartbeat is asked for, the       *)
(* silence of the peer is reported, and the next wait begins.              *)
(***************************************************************************)
OnHeartbeatTest ==
  /\ queued > 0
  /\ queued' = queued - 1
  /\ noticed' = (noticed \/ now > lastMsgRecvTm + 2 * hbInterval)
  /\ expiry' = now + hbInterval
  /\ UNCHANGED <<connected, now, hbInterval, lastMsgRecvTm, numberVars,
                 watching, strayed>>

----------------------------------------------------------------------------
(* The connection.                                                         *)

(* Mutant: the timer is not cancelled.                                     *)
DisconnectedRunning ==
  /\ connected
  /\ connected' = FALSE
  /\ watching' = FALSE
  /\ strayed' = (queued > 0)
  /\ UNCHANGED <<clockVars, numberVars, noticed>>

(* onConnStatus(disconnected): m_timer.cancel.                             *)
Disconnected ==
  /\ connected
  /\ connected' = FALSE
  /\ expiry' = NoWait
  /\ watching' = FALSE
  /\ strayed' = (queued > 0)
  /\ UNCHANGED <<now, hbInterval, lastMsgRecvTm, queued, numberVars, noticed>>

(***************************************************************************)
(* A connection begins: the session is told, which changes nothing; the    *)
(* gateway may set the next number, to 1, or go on counting, behind the    *)
(* numbers that were taken before.                                         *)
(***************************************************************************)
Connected ==
  /\ ~connected
  /\ connected' = TRUE
  /\ msgSeqNum' \in {1, msgSeqNum}
  /\ sent' = <<>>
  /\ failed' = 1 .. msgSeqNum' - 1
  /\ UNCHANGED <<clockVars, lastMsgSeqNum, histVars>>

----------------------------------------------------------------------------
(* Sending.                                                                *)

(* Mutant: all messages of one request carry one number.                   *)
NumbersShared(n) == [i \in 1 .. n |-> msgSeqNum]

(* nextMsgSeqNum, called n times.                                          *)
Numbers(n) == [i \in 1 .. n |-> msgSeqNum + i - 1]

(***************************************************************************)
(* A function instruct... that builds up to n messages one after the       *)
(* other, each with its own number: a message that cannot be formatted     *)
(* has used its number, is not sent, and ends the loop.                    *)
(***************************************************************************)
Build(n) ==
  /\ msgSeqNum + n - 1 <= MaxSeqNum
  /\ \/ /\ sent' = sent \o Numbers(n)
        /\ failed' = failed
     \/ /\ sent' = sent \o SubSeq(Numbers(n), 1, n - 1)
        /\ failed' = failed \cup {Numbers(n)[n]}
  /\ msgSeqNum' = msgSeqNum + n
  /\ UNCHANGED <<connected, clockVars, lastMsgSeqNum, histVars>>

(* instructNewOrder, Cancel, CancelReplace, Logon, Logout, Heartbeat,      *)
(* TestRequest, SequenceReset, SecurityListRequest.                        *)
Instruct == connected /\ Build(1)

(* instructMarketDataRequest: one message for each symbol.                 *)
MarketDataRequest == connected /\ \E n \in 2 .. MaxSymbols : Build(n)

----------------------------------------------------------------------------
SessionTypeOK ==
  /\ {connected, watching, noticed, strayed} \subseteq BOOLEAN
  /\ now \in 1 .. MaxTime
  /\ hbInterval \in 1 .. HbLimit - 1 \/ hbInterval = DefaultHb
  /\ lastMsgRecvTm \in 1 .. now
  /\ expiry \in Nat
  /\ queued \in Nat
  /\ msgSeqNum \in 1 .. MaxSeqNum + 1
  /\ lastMsgSeqNum \in Nat
  /\ sent \in Seq(1 .. MaxSeqNum)
  /\ failed \subseteq 1 .. MaxSeqNum

(***************************************************************************)
(* scheduleHeartbeatTest and onHeartbeatTest: once a Logon has set the     *)
(* timer, a peer that is silent for more than three intervals has been     *)
(* reported, whatever Logons, disconnects and late handlers did to the     *)
(* timer in between.                                                       *)
(***************************************************************************)
SilenceNoticed ==
  watching /\ now > lastMsgRecvTm + 3 * hbInterval => noticed

(***************************************************************************)
(* Disconnected cancels the wait and onHeartbeatTest drops a cancelled one:*)
(* without a connection the timer is still, unless the connection broke    *)
(* while a handler was queued, which starts the timer again: that case is  *)
(* what the code does, and strayed leaves it out.                          *)
(***************************************************************************)
CancelHolds == ~connected /\ expiry # NoWait => strayed

(***************************************************************************)
(* No number is used twice on a connection, numbers are sent in order, and *)
(* the ones that are missing are those of messages that failed or that     *)
(* were taken before the connection began.                                 *)
(***************************************************************************)
NumberedOnce ==
  /\ \A i, j \in DOMAIN sent : i < j => sent[i] < sent[j]
  /\ ToSet(sent) \cap failed = {}
  /\ ToSet(sent) \cup failed = 1 .. msgSeqNum - 1
=============================================================================
