------------------------------ MODULE Framing -------------------------------
(***************************************************************************)
(* How the server cuts the byte stream of one connection into packets:     *)
(* handle_packet of src/simple_server/simple_server.c with the backlog it  *)
(* keeps in the player.  A packet is its length, as a var int, followed by *)
(* that many bytes, which start with the packet's id.                      *)
(*                                                                         *)
(* The bytes are real: a header that is looked for in the wrong place is   *)
(* decoded from whatever bytes are there.                                  *)
(***************************************************************************)
EXTENDS Integers, Sequences, VarInt

CONSTANTS
  Payloads,   \* the packets the client writes, as bytes without the length
  MaxSent,    \* bound: packets written
  MaxRead,    \* the size of the buffer read() fills
  Pipelined,  \* TRUE: the client writes on before the server has caught up
  ReadsPast   \* TRUE: the read that completes a backlog may bring more

ASSUME PayloadsAssumption == \A p \in Payloads : /\ p \in Seq(Byte)
                                                 /\ Len(p) \in Word
                                                 /\ VarIntLen(p) # 0
ASSUME BoundsAssumption == MaxSent \in Nat /\ MaxRead \in Nat \ {0}
ASSUME ModesAssumption == {Pipelined, ReadsPast} \subseteq BOOLEAN

VARIABLES
  sent,     \* history: the payloads the client wrote
  wire,     \* the bytes on their way, or in the socket buffer
  arg,      \* the bytes handle_packet was called with
  backlog,  \* conn.backlog, empty for NULL
  got,      \* history: what handle_player_packet was called with
  status,   \* "idle", "handle" (inside handle_packet) or "closed"
  torn      \* history: a read has ended inside a length
vars == <<sent, wire, arg, backlog, got, status, torn>>

\* Type invariant.  handle_packet is never called with no bytes: it would take
\* them for a length it cannot read and deallocate the player.
TypeOK ==
  /\ sent \in Seq(Payloads)
  /\ {wire, arg, backlog} \subseteq Seq(Byte)
  /\ got \in Seq(Seq(Byte))
  /\ status \in {"idle", "handle", "closed"}
  /\ status = "handle" <=> arg # <<>>
  /\ torn \in BOOLEAN

Init == /\ sent = <<>> /\ wire = <<>> /\ arg = <<>>
        /\ backlog = <<>> /\ got = <<>>
        /\ status = "idle" /\ torn = FALSE

Drop(s, n) == SubSeq(s, n + 1, Len(s))
Frame(p) == Encode(Len(p)) \o p

-----------------------------------------------------------------------------
(* The client and the network.                                             *)

Write ==
  /\ Len(sent) < MaxSent
  /\ Pipelined \/ (wire = <<>> /\ backlog = <<>> /\ status = "idle")
  /\ \E p \in Payloads : /\ sent' = Append(sent, p)
                         /\ wire' = wire \o Frame(p)
  /\ UNCHANGED <<arg, backlog, got, status, torn>>

\* The stream of the packets s: Bytes(s)[n] are those of the first n.
Bytes(s) ==
  LET B[n \in 0 .. Len(s)] == IF n = 0 THEN <<>> ELSE B[n-1] \o Frame(s[n])
  IN B

\* Where in the stream of everything written the packet n ends.
Written(n) == Len(Bytes(sent)[n])
Consumed == Written(Len(sent)) - Len(wire)
InsideHead(pos) ==
  \E n \in 1 .. Len(sent) :
    Written(n-1) < pos /\ pos < Written(n-1) + Len(Encode(Len(sent[n])))
PastPacket(pos) ==
  \E n \in 1 .. Len(sent) :
    Written(n-1) < Consumed /\ Consumed < Written(n) /\ Written(n) < pos

\* read() on the ready descriptor returns k bytes; handle_packet is called.
Read ==
  /\ status = "idle"
  /\ \E k \in 1 .. Len(wire) :
       /\ k <= MaxRead
       /\ ReadsPast \/ ~PastPacket(Consumed + k)
       /\ arg' = SubSeq(wire, 1, k)
       /\ wire' = Drop(wire, k)
       /\ torn' = (torn \/ InsideHead(Consumed + k))
  /\ status' = "handle"
  /\ UNCHANGED <<sent, backlog, got>>

-----------------------------------------------------------------------------
(* handle_packet.                                                          *)

read_buf == backlog \o arg
pos == VarIntLen(read_buf)
packet_len == VarIntValue(read_buf, pos)
remaining_data == Len(read_buf) - pos
packet == SubSeq(read_buf, pos + 1, pos + packet_len)

\* Faulty variant: the length of the header is not counted.
left_off_Header == Drop(read_buf, packet_len)
left_off == Drop(read_buf, pos + packet_len)

\* No length can be read: the player is deallocated.
BadLength ==
  /\ status = "handle"
  /\ pos = 0
  /\ status' = "closed"
  /\ arg' = <<>>
  /\ UNCHANGED <<sent, wire, backlog, got, torn>>

\* Faulty variant: only the bytes just read are kept.
Incomplete_ForgetsHead ==
  /\ status = "handle"
  /\ pos # 0
  /\ remaining_data < packet_len
  /\ backlog' = arg
  /\ arg' = <<>>
  /\ status' = "idle"
  /\ UNCHANGED <<sent, wire, got, torn>>

\* The packet is not complete: everything so far becomes the backlog.
Incomplete ==
  /\ status = "handle"
  /\ pos # 0
  /\ remaining_data < packet_len
  /\ backlog' = read_buf
  /\ arg' = <<>>
  /\ status' = "idle"
  /\ UNCHANGED <<sent, wire, got, torn>>

\* Faulty variants: the backlog is never freed; handle_packet is called again
\* with what is left even if that is nothing; what follows is dropped.
Complete_KeepsBacklog ==
  /\ status = "handle"
  /\ pos # 0
  /\ remaining_data >= packet_len
  /\ got' = Append(got, packet)
  /\ IF VarIntLen(packet) = 0
     THEN status' = "closed" /\ arg' = <<>>
     ELSE IF left_off # <<>>
     THEN arg' = left_off /\ UNCHANGED status
     ELSE arg' = <<>> /\ status' = "idle"
  /\ UNCHANGED <<sent, wire, backlog, torn>>

Complete_AlwaysMore ==
  /\ status = "handle"
  /\ pos # 0
  /\ remaining_data >= packet_len
  /\ got' = Append(got, packet)
  /\ IF VarIntLen(packet) = 0
     THEN status' = "closed" /\ arg' = <<>>
     ELSE arg' = left_off /\ UNCHANGED status
  /\ UNCHANGED <<sent, wire, backlog, torn>>

Complete_DropsRest ==
  /\ status = "handle"
  /\ pos # 0
  /\ remaining_data >= packet_len
  /\ got' = Append(got, packet)
  /\ arg' = <<>> /\ backlog' = <<>> /\ status' = "idle"
  /\ UNCHANGED <<sent, wire, torn>>

\* handle_player_packet gets the packet.  If there are bytes left,
\* handle_packet is called again with them, and finds the backlog as it was;
\* otherwise the backlog is freed.
Complete ==
  /\ status = "handle"
  /\ pos # 0
  /\ remaining_data >= packet_len
  /\ got' = Append(got, packet)
  /\ IF VarIntLen(packet) = 0
     THEN status' = "closed" /\ arg' = <<>> /\ UNCHANGED backlog
     ELSE IF left_off # <<>>
     THEN arg' = left_off /\ UNCHANGED <<status, backlog>>
     ELSE arg' = <<>> /\ backlog' = <<>> /\ status' = "idle"
  /\ UNCHANGED <<sent, wire, torn>>

Done == /\ \/ status = "closed"
           \/ status = "idle" /\ wire = <<>> /\ Len(sent) = MaxSent
        /\ UNCHANGED vars

Server == Read \/ BadLength \/ Incomplete \/ Complete
Next == Write \/ Server \/ Done
Spec == Init /\ [][Next]_vars
FairSpec == Spec /\ WF_vars(Server)

-----------------------------------------------------------------------------
(* Properties.                                                             *)

Stream == INSTANCE PacketStream WITH broken <- status = "closed"

\* handle_packet delivers the client's packets whole, once, in order and all
\* of them, unless it gives the connection up.
StreamSpec == Stream!Spec

\* The packets handed on are those the client wrote, in order and unchanged.
InOrder == /\ Len(got) <= Len(sent)
           /\ \A n \in 1 .. Len(got) : got[n] = sent[n]

\* A client that writes nothing but well-formed packets is given up only
\* where the code cannot continue: when a read has ended inside a length.
OnlyTornGivenUp == status = "closed" => torn

\* Between reads the backlog is exactly the beginning of the packet the
\* client wrote next, never empty-handed and never a whole packet.
BacklogIsHead ==
  status = "idle" =>
    \/ backlog = <<>> /\ Consumed = Written(Len(got))
    \/ /\ Len(got) < Len(sent)
       /\ Consumed - Written(Len(got)) = Len(backlog)
       /\ Len(backlog) < Len(Frame(sent[Len(got) + 1]))
       /\ backlog = SubSeq(Frame(sent[Len(got) + 1]), 1, Len(backlog))
=============================================================================
