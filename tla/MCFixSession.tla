---------------------------- MODULE MCFixSession ----------------------------
(* A FIX session, for TLC.                                                 *)
EXTENDS FixSession

Message(len, kind, hb) == [len |-> len, kind |-> kind, hb |-> hb]

(* A Logon in front of a longer one, whose rest may be garbled by its move *)
(* and then be any message, one that the parser drops among them; a message*)
(* without a number; and a Logon that is refused.                          *)
MCStreams ==
  { <<Message(8, "logon", 1), Message(10, "logon", 2)>>,
    <<Message(8, "no_number", 0)>>,
    <<Message(8, "logon", 3)>> }
=============================================================================
