------------------------------- MODULE Codec --------------------------------
(***************************************************************************)
(* The fields of packets: the writers and readers of src/protocol/rw.c, as *)
(* the macros of packets.h string them together, between a sender (the     *)
(* send_##name##_packet functions of simple_server/util.c) and a reader    *)
(* (handle_player_packet, or the packet callback of the demo).             *)
(*                                                                         *)
(* A layout is the declaration of a packet, a sequence of fields; the      *)
(* values of a packet are sequences of numbers.  The reader keeps two      *)
(* places, as the code does: ptr, where it takes bytes from, and pos,      *)
(* which is compared with the length of the packet.                        *)
(***************************************************************************)
EXTENDS VarInt, SequencesExt

CONSTANTS
  LongBits, \* bits of a 64-bit var int
  XZBits,   \* bits of x and of z in a position (26; y has the rest of 64)
  Packets,  \* the packets sent: layout, values, and who reads them
  Tails     \* what may stand in memory behind a packet received

\* The bytes of fields of fixed width; float and double are read and written
\* like int and long, and a uuid is two of long.
Size == [bool |-> 1, ubyte |-> 1, byte |-> 1, short |-> 2, ushort |-> 2,
         int |-> 4, long |-> 8, position |-> 8]
Fixed == DOMAIN Size
Kinds == Fixed \cup {"var_int", "var_long", "list", "var_str", "network_nbt"}

\* A list has the kinds of each of its items, in order; lists of lists are
\* left out.
Field == [kind : Kinds, items : Seq(Kinds \ {"list"})]
Packet == [layout : Seq(Field), values : Seq(Seq(Int)), callback : BOOLEAN]

ByteBits == SegmentBits + 1
Base == Pow2[ByteBits]
YBits == ByteBits * Size["position"] - 2 * XZBits

VarLong == INSTANCE VarInt WITH WordBits <- LongBits

-----------------------------------------------------------------------------
(* What the fields look like.                                              *)

\* Two's complement in a number of bits, and back.
Unsigned(v, bits) == v % Pow2[bits]
Signed(u, bits) == IF u < Pow2[bits-1] THEN u ELSE u - Pow2[bits]
IsSigned(v, bits) == v \in -Pow2[bits-1] .. Pow2[bits-1] - 1

\* Faulty variant: y and z change places.
Pack_Swapped(v) ==
  Unsigned(v[1], XZBits) * Pow2[XZBits + YBits]
  + Unsigned(v[2], XZBits) * Pow2[YBits] + Unsigned(v[3], YBits)

\* A position is one number: from the top x, z and y.
Pack(v) ==
  Unsigned(v[1], XZBits) * Pow2[XZBits + YBits]
  + Unsigned(v[3], XZBits) * Pow2[YBits] + Unsigned(v[2], YBits)
Unpack(w) ==
  <<Signed(Unsigned(w \div Pow2[XZBits + YBits], XZBits), XZBits),
    Signed(Unsigned(w, YBits), YBits),
    Signed(Unsigned(w \div Pow2[YBits], XZBits), XZBits)>>

BigEndian(v, n) ==
  [k \in 1 .. n |-> (v \div Pow2[ByteBits * (n - k)]) % Base]
FromBytes(s) ==
  LET Value[n \in 0 .. Len(s)] == IF n = 0 THEN 0 ELSE Value[n-1] * Base + s[n]
  IN Value[Len(s)]

\* The bytes of a field.  Those of an NBT tag are the library's; that they
\* tell where the tag ends is modelled by a byte in front of them.
Encoding(kind, v) ==
  CASE kind \in Fixed \ {"position"} -> BigEndian(v[1], Size[kind])
    [] kind = "position"    -> BigEndian(Pack(v), Size[kind])
    [] kind \in {"var_int", "list"} -> Encode(v[1])
    [] kind = "var_long"    -> VarLong!Encode(v[1])
    [] kind = "var_str"     -> Encode(Len(v)) \o v
    [] kind = "network_nbt" -> <<Len(v)>> \o v

\* The number of items is an int: a word with its top bit set is negative, and
\* the loop over the items does not run.
Count(u) == IF u < Pow2[WordBits-1] THEN u ELSE 0

\* What is left of a layout after its first field, which had the value v:
\* the number of items of a list is followed by the items.
After(todo, v) ==
  LET items == Head(todo).items
      item(k) == [kind |-> items[1 + ((k - 1) % Len(items))], items |-> <<>>]
      n == IF Head(todo).kind = "list" THEN Count(v[1]) * Len(items) ELSE 0
  IN [k \in 1 .. n |-> item(k)] \o Tail(todo)

\* A packet as it should be on the wire, up to each of its values: the bytes,
\* the kind of the last field, and the fields left.
Parts(p) ==
  LET Part[n \in 0 .. Len(p.values)] ==
        IF n = 0 THEN [rest |-> p.layout, last |-> "none", bytes |-> <<>>]
        ELSE LET todo == Part[n-1].rest
                 v == p.values[n]
             IN [rest  |-> After(todo, v),
                 last  |-> Head(todo).kind,
                 bytes |-> Part[n-1].bytes \o Encoding(Head(todo).kind, v)]
  IN Part
Whole(p) == Parts(p)[Len(p.values)]

\* The values that the C type of a field can have.
IsValue(kind, v) ==
  CASE kind = "position" ->
         /\ Len(v) = 3
         /\ IsSigned(v[1], XZBits) /\ IsSigned(v[3], XZBits)
         /\ IsSigned(v[2], YBits)
    [] kind = "bool" -> Len(v) = 1 /\ v[1] \in {0, 1}
    [] kind \in {"ubyte", "ushort"} ->
         Len(v) = 1 /\ v[1] \in 0 .. Pow2[ByteBits * Size[kind]] - 1
    [] kind \in {"byte", "short", "int", "long"} ->
         Len(v) = 1 /\ IsSigned(v[1], ByteBits * Size[kind])
    [] kind \in {"var_int", "list"} -> Len(v) = 1 /\ v[1] \in Word
    [] kind = "var_long" -> Len(v) = 1 /\ v[1] \in VarLong!Word
    [] kind = "var_str" -> v \in Seq(Byte) /\ Len(v) < Pow2[WordBits-1]
    [] kind = "network_nbt" -> v \in Seq(Byte) /\ Len(v) \in Byte

\* The values of a packet are those of its fields, to the last.
WellFormed(p) ==
  /\ \A n \in 0 .. Len(p.values) :
       LET todo == Parts(p)[n].rest
       IN IF n = Len(p.values) THEN todo = <<>>
          ELSE todo # <<>> /\ IsValue(Head(todo).kind, p.values[n+1])
  /\ Len(Whole(p).bytes) \in Word

ASSUME CodecAssumption ==
  /\ LongBits \in Nat \ {0} /\ XZBits \in Nat \ {0} /\ YBits \in Nat \ {0}
  /\ Packets \subseteq Packet
  /\ \A p \in Packets : WellFormed(p)
  /\ Tails \subseteq Seq(Byte)

-----------------------------------------------------------------------------
VARIABLES
  packet,   \* the packet of this behaviour, one of Packets
  max,      \* the length of the buffer, as its writers are told
  buffer,   \* the bytes written, behind the hole for the length
  mem,      \* what the reader has: the bytes of the packet, and the tail
  buf_len,  \* the length it has been told
  pos, ptr, \* its two places, counted from the id
  fields,   \* the fields still to be written or read
  values,   \* the values written or read
  phase,    \* "write", "send", "read", "done", "refused" or "astray"
  uncounted \* history: ptr has moved by other than what pos has counted
sender == <<packet, max, buffer>>
receiver == <<mem, buf_len, pos, ptr>>
vars == <<sender, receiver, fields, values, phase, uncounted>>

\* Buffers longer than the packet by more than a byte are all alike.
Init ==
  /\ packet \in Packets
  /\ max \in 0 .. Len(Whole(packet).bytes) + 1
  /\ buffer = <<>> /\ mem = <<>> /\ buf_len = 0 /\ pos = 0 /\ ptr = 0
  /\ fields = packet.layout /\ values = <<>>
  /\ phase = "write" /\ uncounted = FALSE

-----------------------------------------------------------------------------
(* The sender.                                                             *)

\* Faulty variant: the room is not looked at.
AtMost_All(n, room) == n
AtMost(n, room) == IF n < room THEN n ELSE room

\* write_byte, which write_var_long calls too, keeps away from the last byte
\* of the buffer.
Spare(kind) == IF kind \in {"byte", "var_long"} THEN 1 ELSE 0

\* How many bytes of a field are written into some room before its writer
\* is through or fails: numbers of fixed width and strings are checked
\* first, var ints and tags go byte by byte.
Fitting(kind, v, room) ==
  LET n == Len(Encoding(kind, v))
      free == room - Spare(kind)
  IN CASE kind \in Fixed -> IF n <= free THEN n ELSE 0
       [] kind = "var_str" -> IF n <= room THEN n
                              ELSE IF Len(v) < room THEN EncodedLen(Len(v))
                              ELSE 0
       [] OTHER -> IF free < 0 THEN 0 ELSE AtMost(n, free)

\* The call of the writer of a field.  When it fails the writer of the packet
\* returns; the writer of NBT returns 0 whatever it could write.
WriteField ==
  /\ phase = "write" /\ fields # <<>>
  /\ LET kind == Head(fields).kind
         v == packet.values[Len(values) + 1]
         n == Fitting(kind, v, max - Len(buffer))
     IN /\ buffer' = buffer \o SubSeq(Encoding(kind, v), 1, n)
        /\ IF n = Len(Encoding(kind, v)) \/ kind = "network_nbt"
           THEN /\ fields' = After(fields, v)
                /\ values' = Append(values, v)
                /\ UNCHANGED phase
           ELSE /\ phase' = "send"
                /\ UNCHANGED <<fields, values>>
  /\ UNCHANGED <<packet, max, receiver, uncounted>>

AllWritten ==
  /\ phase = "write" /\ fields = <<>>
  /\ phase' = "send"
  /\ UNCHANGED <<sender, receiver, fields, values, uncounted>>

\* Faulty variant: the length of the buffer, not of what is in it.
Header_Room == Encode(max)

\* The number put into the hole.  The sender does not look at the error of
\* the writer: what there is in the buffer is sent as a packet.
Header == Encode(Len(buffer))

\* The packet is there.  The packet callback starts to count anew behind the
\* id, which handle_player_packet has read.
Receive ==
  /\ phase = "send"
  /\ \E tail \in Tails : mem' = buffer \o tail
  /\ buf_len' = VarIntValue(Header, Len(Header))
  /\ pos' = 0 /\ ptr' = 0
  /\ fields' = packet.layout /\ values' = <<>>
  /\ phase' = "read"
  /\ UNCHANGED <<sender, uncounted>>

-----------------------------------------------------------------------------
(* The reader.                                                             *)

Left == buf_len - pos
Ahead == SubSeq(mem, ptr + 1, Len(mem))

Refuse ==
  phase' = "refused" /\ UNCHANGED <<pos, ptr, fields, values, uncounted>>

\* The reader leaves the packet and the tail behind it, on either side.
GoAstray ==
  phase' = "astray" /\ UNCHANGED <<pos, ptr, fields, values, uncounted>>

\* A field of n bytes is read, of which counted are counted.
Accept(v, n, counted) ==
  IF n > Len(Ahead) \/ ptr + n < 0 THEN GoAstray
  ELSE /\ ptr' = ptr + n
       /\ pos' = IF values = <<>> /\ packet.callback THEN 0 ELSE pos + counted
       /\ fields' = After(fields, v)
       /\ values' = Append(values, v)
       /\ uncounted' = (uncounted \/ pos' # pos + n)
       /\ UNCHANGED phase

\* Faulty variant: a byte more than there is.
Enough_OneShort(kind) == Left + 1 >= Size[kind]

\* read_byte keeps away from the last byte of the packet.
Enough(kind) == Left >= Size[kind] + (IF kind = "byte" THEN 1 ELSE 0)

FixedValue(kind, u) ==
  CASE kind = "position" -> Unpack(u)
    [] kind \in {"bool", "ubyte", "ushort"} -> <<u>>
    [] OTHER -> <<Signed(u, ByteBits * Size[kind])>>

ReadFixed(kind) ==
  LET u == FromBytes(SubSeq(Ahead, 1, AtMost(Size[kind], Len(Ahead))))
  IN IF ~Enough(kind) \/ (kind = "bool" /\ u > 1) THEN Refuse
     ELSE Accept(FixedValue(kind, u), Size[kind], Size[kind])

\* What there is of the bytes left.
Window == SubSeq(Ahead, 1, AtMost(Left, Len(Ahead)))

\* No number was found in the window.
NoNumber(maxBytes) ==
  IF Len(Window) < Left /\ Len(Window) < maxBytes THEN GoAstray ELSE Refuse

ReadVarInt ==
  LET n == VarIntLen(Window)
  IN IF n = 0 THEN NoNumber(MaxBytes)
     ELSE Accept(<<VarIntValue(Window, n)>>, n, n)

ReadVarLong ==
  LET n == VarLong!VarIntLen(Window)
  IN IF n = 0 THEN NoNumber(VarLong!MaxBytes)
     ELSE Accept(<<VarLong!VarIntValue(Window, n)>>, n, n)

\* Only the length of a string is counted.  It is an int and compared with
\* nothing: a negative one takes the pointer back.
ReadString ==
  LET n == VarIntLen(Window)
      len == Signed(VarIntValue(Window, n), WordBits)
  IN IF n = 0 THEN NoNumber(MaxBytes)
     ELSE Accept(SubSeq(Ahead, n + 1, n + len), n + len, n)

\* The parser gives no tag (modelled by <<>>) for bytes that end too early,
\* and its caller returns 0 all the same.
ReadNBT ==
  LET n == Head(Window) + 1
      w == Len(Window)
  IN IF w > 0 /\ n <= w THEN Accept(SubSeq(Window, 2, n), n, n)
     ELSE IF w < Left THEN GoAstray
     ELSE Accept(<<>>, w, w)

ReadField ==
  /\ phase = "read" /\ fields # <<>>
  /\ LET kind == Head(fields).kind
     IN \/ kind \in Fixed /\ ReadFixed(kind)
        \/ kind \in {"var_int", "list"} /\ ReadVarInt
        \/ kind = "var_long" /\ ReadVarLong
        \/ kind = "var_str" /\ ReadString
        \/ kind = "network_nbt" /\ ReadNBT
  /\ UNCHANGED <<sender, mem, buf_len>>

AllRead ==
  /\ phase = "read" /\ fields = <<>>
  /\ phase' = "done"
  /\ UNCHANGED <<sender, receiver, fields, values, uncounted>>

Ended == phase \in {"done", "refused", "astray"} /\ UNCHANGED vars

Next == WriteField \/ AllWritten \/ Receive \/ ReadField \/ AllRead \/ Ended
Spec == Init /\ [][Next]_vars

-----------------------------------------------------------------------------
TypeOK ==
  /\ packet \in Packets /\ max \in Nat
  /\ buffer \in Seq(Byte) /\ Len(buffer) <= max
  /\ mem \in Seq(Byte) /\ buf_len \in Nat
  /\ pos \in 0 .. buf_len /\ ptr \in 0 .. Len(mem)
  /\ fields \in Seq(Field) /\ values \in Seq(Seq(Int))
  /\ phase \in {"write", "send", "read", "done", "refused", "astray"}
  /\ uncounted \in BOOLEAN

OnTheWire == phase \notin {"write", "send"}
Complete == buffer = Whole(packet).bytes

\* However short the buffer, what goes out is a beginning of the packet, and
\* its length says so; a packet that fits goes out whole.  (write_byte wants
\* one byte more than it writes, which matters at the end of a packet.)
SentIsPrefix ==
  LET whole == Whole(packet) IN
  OnTheWire =>
    /\ IsPrefix(buffer, whole.bytes)
    /\ buf_len = Len(buffer)
    /\ max >= Len(whole.bytes) + Spare(whole.last) => Complete

\* A packet sent whole and read through is what was written, field for field,
\* and the reader stops where the writer did.
ReadsBack ==
  phase = "done" /\ Complete =>
    /\ values = packet.values
    /\ ptr = Len(buffer)

\* A packet sent whole is refused in one case, known beforehand: its last
\* field is a byte and the reader has counted every byte before it.  The
\* fields before it are right: the position handlers, which do not look at
\* the error, work with them.
RefusesLastByte ==
  Complete /\ OnTheWire =>
    /\ phase # "astray"
    /\ phase = "refused" => /\ values = Front(packet.values)
                            /\ Whole(packet).last = "byte" /\ ptr = pos
    /\ phase = "done" /\ Whole(packet).last = "byte" => pos < ptr

HasTag(p) ==
  \E n \in DOMAIN p.layout :
    "network_nbt" \in {p.layout[n].kind} \cup Range(p.layout[n].items)

\* A packet cut short by its sender is noticed by its reader, unless it has
\* taken bytes without counting them (those of a string, or the id of a
\* packet that is counted from behind it), or there is a tag, which
\* may end anywhere.
CutNoticed ==
  phase = "done" /\ ~Complete => uncounted \/ HasTag(packet)
=============================================================================
