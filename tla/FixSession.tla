----------------------------- MODULE FixSession -----------------------------
(***************************************************************************)
(* A FIX connection: bytes are read into the buffer of FixMsgRcvBuf, whose *)
(* messages go through FixMsgParser to the handlers of FixHandler, all in  *)
(* one callback of the event loop; timer, gateway and peer interleave.     *)
(***************************************************************************)
EXTENDS FixMsgRcvBuf, FixHandler

CONSTANT
  Streams     (* what a peer may send on a connection                      *)

(* A message is not shorter than the field that ends it.                   *)
ASSUME StreamAssumption ==
  /\ Streams \subseteq Seq([kind : Kind, len : Nat, hb : Nat])
  /\ \A s \in Streams : \A i \in DOMAIN s : s[i].len >= Len(Trailer)

vars == <<bufVars, sessionVars>>

Init ==
  /\ BufInit(Streams)
  /\ SessionInit

(***************************************************************************)
(* FixMsgParser: what it may make of these bytes.  It looks at no checksum:*)
(* bytes that a move has garbled can be any message, or none.              *)
(***************************************************************************)
Parses(bytes) ==
  LET is == {i \in DOMAIN stream : Bytes(i) = bytes}
  IN IF is # {}
     THEN {[kind |-> stream[i].kind, hb |-> stream[i].hb, number |-> i] : i \in is}
     ELSE [kind : Kind, hb : 0 .. HbLimit, number : {0}]

(* What it may make of each of the messages ms.                            *)
ParsesAll(ms) ==
  {parsed \in [DOMAIN ms -> UNION {Parses(ms[i]) : i \in DOMAIN ms}] :
     \A i \in DOMAIN ms : parsed[i] \in Parses(ms[i])}

(* The socket's read handler: parse, and onFixMsg for every message.       *)
Read(n) ==
  /\ connected
  /\ CanRead(n)
  /\ Parse(n)
  /\ \E parsed \in ParsesAll(Messages(Filled(n))) : OnFixMsgs(parsed)

(* The connection begins and its buffer is cleared.                        *)
Connect ==
  /\ Connected
  /\ \E s \in Streams : Clear(s)

(* Steps that leave the buffer alone.                                      *)
Timer == (Expire \/ Tick \/ OnHeartbeatTest) /\ UNCHANGED bufVars

Gateway == (Instruct \/ MarketDataRequest) /\ UNCHANGED bufVars

Disconnect == Disconnected /\ UNCHANGED bufVars

Next ==
  \/ Connect
  \/ Disconnect
  \/ Timer
  \/ Gateway
  \/ \E n \in 1 .. Room : Read(n)

Spec == Init /\ [][Next]_vars

----------------------------------------------------------------------------
TypeOK ==
  /\ SessionTypeOK
  /\ stream \in Streams
  /\ received \in 0 .. Len(AllBytes)
  /\ held \in Seq(ToSet(AllBytes))
  /\ bufSz \in Nat \ {0}
  /\ overlapped \in BOOLEAN
=============================================================================
