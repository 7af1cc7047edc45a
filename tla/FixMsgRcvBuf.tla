---------------------------- MODULE FixMsgRcvBuf ----------------------------
(***************************************************************************)
(* The receive buffer of a FIX session, struct FixMsgRcvBuf in             *)
(* src/baxter/fix_api/FixMsgRcvBuf.hpp: the bytes of a connection arrive   *)
(* in pieces of any size and are cut into messages after the checksum      *)
(* field; what is left of the last message waits at the front.             *)
(*                                                                         *)
(* A byte is <<i, n>>: it belongs to the i-th message of the connection,   *)
(* and n bytes of that message follow it.  Char gives its value, as far as *)
(* the search for the checksum field tells values apart.                   *)
(***************************************************************************)
EXTENDS Naturals, Sequences, FiniteSets, SequencesExt, FiniteSetsExt

CONSTANT
  InitialSize   (* aBufSz, 10240 unless the caller says otherwise          *)

ASSUME SizeAssumption == InitialSize \in Nat \ {0}

VARIABLES
  stream,     (* the messages the peer sends on this connection            *)
  received,   (* the number of bytes of them that were read                *)
  held,       (* the bytes from m_buf up to m_bufBegin                     *)
  bufSz,      (* m_bufSz                                                   *)
  delivered,  (* what m_parser.process was given on this connection        *)
  overlapped  (* history: memcpy moved a rest of this connection onto a    *)
              (* part of itself                                            *)

bufVars == <<stream, received, held, bufSz, delivered, overlapped>>

----------------------------------------------------------------------------
(* The stream.                                                             *)

(* The bytes of the i-th message.                                          *)
Bytes(i) == [j \in 1 .. stream[i].len |-> <<i, stream[i].len - j>>]

AllBytes == FlattenSeq([i \in DOMAIN stream |-> Bytes(i)])

(* How a message ends: the checksum field, three digits and the delimiter. *)
Trailer == <<"SOH", "1", "0", "=", "digit", "digit", "digit", "SOH">>

Char(byte) ==
  IF byte[2] < Len(Trailer) THEN Trailer[Len(Trailer) - byte[2]] ELSE "other"

----------------------------------------------------------------------------
(* memmem: where the Needle begins in data.                                *)
Needle == SubSeq(Trailer, 1, 4)

Hits(data) ==
  {p \in 1 .. Len(data) - 3 :
     \A i \in 1 .. Len(Needle) : Char(data[p + i - 1]) = Needle[i]}

(* Mutant: the message ends with the last digit of the checksum.           *)
MessagesShort(data) ==
  LET from[b \in 1 .. Len(data) + 1] ==
        LET hits == {p \in Hits(data) : p >= b}
            end == Min(hits) + Len(Needle) + 2
        IN IF hits = {} \/ end > Len(data)
           THEN <<>>
           ELSE <<SubSeq(data, b, end)>> \o from[end + 1]
  IN from[1]

(***************************************************************************)
(* The loop of parse: a message ends four bytes after the Needle; the loop *)
(* ends when there is no Needle or its message is incomplete.              *)
(***************************************************************************)
Messages(data) ==
  LET from[b \in 1 .. Len(data) + 1] ==
        LET hits == {p \in Hits(data) : p >= b}
            end == Min(hits) + Len(Needle) + 3
        IN IF hits = {} \/ end > Len(data)
           THEN <<>>
           ELSE <<SubSeq(data, b, end)>> \o from[end + 1]
  IN from[1]

(* msgBegin - m_buf after the loop: the bytes of the messages taken off.   *)
Taken(data) == Len(FlattenSeq(Messages(data)))

(* The bytes from msgBegin to bufEnd after the loop.                       *)
Left(data) == SubSeq(data, Taken(data) + 1, Len(data))

(***************************************************************************)
(* The bytes of the rest that lie where its move to the front writes: the  *)
(* two ranges of the memcpy overlap if there are any.  A rest in front of  *)
(* which nothing was taken off is copied onto itself, byte by byte.        *)
(***************************************************************************)
Exposed(data) ==
  IF Taken(data) = 0 THEN {} ELSE 1 .. Len(Left(data)) - Taken(data)

(***************************************************************************)
(* memcpy of a rest to the front, over a distance.  Each build copies in   *)
(* an order of its own: a byte in late is read after its place was written *)
(* and is what was written there.                                          *)
(***************************************************************************)
Moved(rest, distance, late) ==
  LET byte[k \in DOMAIN rest] ==
        IF k \in late THEN byte[k + distance] ELSE rest[k]
  IN byte

(* What may be at the front after the memcpy.                              *)
Moves(data) ==
  {Moved(Left(data), Taken(data), late) : late \in SUBSET Exposed(data)}

(* size(): the room for the next read.                                     *)
Room == bufSz - Len(held)

(* The bytes in the buffer after a read of n.                              *)
Filled(n) == held \o SubSeq(AllBytes, received + 1, received + n)

(***************************************************************************)
(* parse(n): messages go to the parser, the rest is moved to the front,    *)
(* and the buffer doubles when the rest fills it.                          *)
(***************************************************************************)
Parse(n) ==
  /\ received' = received + n
  /\ delivered' = delivered \o Messages(Filled(n))
  /\ held' \in Moves(Filled(n))
  /\ overlapped' = (overlapped \/ Exposed(Filled(n)) # {})
  /\ bufSz' = IF Len(held') = bufSz THEN 2 * bufSz ELSE bufSz
  /\ UNCHANGED stream

(* A read can return n bytes: no more than there is room for, and data.    *)
CanRead(n) ==
  /\ n \in 1 .. Room
  /\ received + n <= Len(AllBytes)

(* clear(), when a connection with the stream s begins.                    *)
Clear(s) ==
  /\ stream' = s
  /\ received' = 0
  /\ delivered' = <<>>
  /\ held' = <<>>
  /\ overlapped' = FALSE
  /\ UNCHANGED bufSz

BufInit(streams) ==
  /\ stream \in streams
  /\ received = 0
  /\ held = <<>>
  /\ bufSz = InitialSize
  /\ delivered = <<>>
  /\ overlapped = FALSE

----------------------------------------------------------------------------
(***************************************************************************)
(* The parser got whole messages, each once and in order, every one that   *)
(* is complete, and the bytes that wait are those of the next one.         *)
(***************************************************************************)
Whole ==
  /\ delivered = [i \in 1 .. Len(delivered) |-> Bytes(i)]
  /\ FlattenSeq(delivered) \o held = SubSeq(AllBytes, 1, received)
  /\ \A i \in DOMAIN held : held[i][2] # 0

(* A message is longer, by two bytes or more, than the one in front of it. *)
Growing == \E i \in 2 .. Len(stream) : stream[i].len > stream[i - 1].len + 1

(***************************************************************************)
(* However the stream was cut into reads: its messages come out whole      *)
(* until parse moves a rest onto a part of itself, which happens only      *)
(* behind a message that is shorter than the next one; and there is always *)
(* room to read into, as a read of no bytes would look like the end of the *)
(* connection.                                                             *)
(***************************************************************************)
Framed ==
  /\ ~overlapped => Whole
  /\ overlapped => Growing
  /\ Room > 0
=============================================================================
