------------------------------ MODULE SendPath ------------------------------
(***************************************************************************)
(* How packets leave the server: send_packet and sendall of                *)
(* src/simple_server/util.c on the non-blocking socket of one client.      *)
(*                                                                         *)
(* A byte on the wire is <<packet, offset>>, so that the place every byte  *)
(* came from can be told; the bytes of the length that send_packet writes  *)
(* in front of a packet are the first ones of it.                          *)
(***************************************************************************)
EXTENDS Integers, Sequences, FiniteSets

CONSTANTS
  Sizes,      \* the lengths of packets with their header (total_len)
  MaxPackets, \* bound: packets sent
  SndBuf      \* the room of the socket's send buffer, in bytes

ASSUME SendAssumption == /\ Sizes \subseteq Nat \ {0}
                         /\ MaxPackets \in Nat
                         /\ SndBuf \in Nat \ {0}

VARIABLES
  lens,      \* total_len of every packet send_packet was called with
  total, bytesleft, \* the variables of sendall
  sending,   \* send_packet is running
  sndbuf,    \* kernel: bytes accepted and not yet fetched by the client
  stream,    \* the bytes the client has fetched
  alive,     \* kernel: the connection has not been reset
  reported,  \* packets reported as "failed to send all data, very bad"
  behind     \* history: packets sent before the client had fetched the last
vars ==
  <<lens, total, bytesleft, sending, sndbuf, stream, alive, reported, behind>>

Positions == (1 .. MaxPackets) \X Nat

TypeOK ==
  /\ lens \in Seq(Sizes)
  /\ total \in Nat /\ bytesleft \in Nat
  /\ sending \in BOOLEAN
  /\ sending => total + bytesleft = lens[Len(lens)]
  /\ sndbuf \in Seq(Positions) /\ Len(sndbuf) <= SndBuf
  /\ stream \in Seq(Positions)
  /\ alive \in BOOLEAN
  /\ {reported, behind} \subseteq SUBSET (1 .. MaxPackets)

Init ==
  /\ lens = <<>> /\ total = 0 /\ bytesleft = 0 /\ sending = FALSE
  /\ sndbuf = <<>> /\ stream = <<>>
  /\ alive = TRUE
  /\ reported = {} /\ behind = {}

-----------------------------------------------------------------------------
current == Len(lens)

\* The bytes of the current packet from an offset on.
Bytes(from, n) == [k \in 1 .. n |-> <<current, from + k - 1>>]

\* send_packet puts the length in front and calls sendall.
Start ==
  /\ ~sending
  /\ current < MaxPackets
  /\ \E len \in Sizes : lens' = Append(lens, len) /\ bytesleft' = len
  /\ total' = 0
  /\ sending' = TRUE
  /\ behind' = IF sndbuf = <<>> THEN behind ELSE behind \cup {current + 1}
  /\ UNCHANGED <<sndbuf, stream, alive, reported>>

\* Faulty variants: the next send() starts at the beginning again; it is
\* given the whole length again; neither variable is brought forward.
Accepted_Restart(n) ==
  /\ sndbuf' = sndbuf \o Bytes(0, n)
  /\ total' = total + n
  /\ bytesleft' = bytesleft - n
Accepted_KeepsLeft(n) ==
  /\ sndbuf' = sndbuf \o Bytes(total, n)
  /\ total' = total + n
  /\ UNCHANGED bytesleft
Accepted_Forgets(n) ==
  /\ sndbuf' = sndbuf \o Bytes(total, n)
  /\ UNCHANGED <<total, bytesleft>>

Accepted(n) ==
  /\ sndbuf' = sndbuf \o Bytes(total, n)
  /\ total' = total + n
  /\ bytesleft' = bytesleft - n

\* One send() of the loop: the kernel takes some of the bytes.
Send ==
  /\ sending /\ alive
  /\ total < lens[current]
  /\ \E n \in 1 .. bytesleft : Len(sndbuf) + n <= SndBuf /\ Accepted(n)
  /\ UNCHANGED <<lens, sending, stream, alive, reported, behind>>

\* The loop is through: every byte was accepted.
Sent ==
  /\ sending
  /\ total >= lens[current]
  /\ sending' = FALSE
  /\ UNCHANGED <<lens, total, bytesleft, sndbuf, stream, alive, reported, behind>>

\* Faulty variant: the result of a send() that failed is not looked at.
SendFails_Silent ==
  /\ sending
  /\ total < lens[current]
  /\ ~alive \/ Len(sndbuf) = SndBuf
  /\ sending' = FALSE
  /\ UNCHANGED <<lens, total, bytesleft, sndbuf, stream, alive, reported, behind>>

\* Faulty variant: the socket blocks, send() waits for room.
SendFails_Blocking ==
  /\ sending
  /\ total < lens[current]
  /\ ~alive
  /\ sending' = FALSE
  /\ reported' = reported \cup {current}
  /\ UNCHANGED <<lens, total, bytesleft, sndbuf, stream, alive, behind>>

\* send() returns -1: no room is left (EAGAIN), or the connection is gone.
\* sendall breaks off, send_packet says so and returns; the next packet is
\* sent as if nothing had happened.
SendFails ==
  /\ sending
  /\ total < lens[current]
  /\ ~alive \/ Len(sndbuf) = SndBuf
  /\ sending' = FALSE
  /\ reported' = reported \cup {current}
  /\ UNCHANGED <<lens, total, bytesleft, sndbuf, stream, alive, behind>>

-----------------------------------------------------------------------------
\* The client fetches some of the bytes, or resets the connection.
Fetch ==
  /\ \E n \in 1 .. Len(sndbuf) :
       /\ stream' = stream \o SubSeq(sndbuf, 1, n)
       /\ sndbuf' = SubSeq(sndbuf, n + 1, Len(sndbuf))
  /\ UNCHANGED <<lens, total, bytesleft, sending, alive, reported, behind>>

GoAway ==
  /\ alive
  /\ alive' = FALSE
  /\ sndbuf' = <<>>
  /\ UNCHANGED <<lens, total, bytesleft, sending, stream, reported, behind>>

Done == /\ ~sending /\ current = MaxPackets /\ sndbuf = <<>>
        /\ UNCHANGED vars

SendPacket == Start \/ Send \/ Sent \/ SendFails
Next == SendPacket \/ Fetch \/ GoAway \/ Done
Spec == Init /\ [][Next]_vars

\* The server's thread runs on inside sendall.  Nothing is assumed of the
\* client, nor that there is another packet to send.
FairSpec == Spec /\ WF_vars(Send \/ Sent \/ SendFails)

-----------------------------------------------------------------------------
(* Properties.                                                             *)

Taken == stream \o sndbuf
OfPacket(k) == {n \in 1 .. Len(Taken) : Taken[n][1] = k}

\* However send() divides the packets, the client gets their bytes in order:
\* of each packet the beginning, without a gap, a repetition or a byte of
\* another packet in between, and nothing past its end.
PrefixesInOrder ==
  alive =>
    \A n \in 1 .. Len(Taken) :
      LET k == Taken[n][1]
          o == Taken[n][2]
      IN /\ o < lens[k]
         /\ IF o = 0 THEN n = 1 \/ Taken[n-1][1] < k
                     ELSE n > 1 /\ Taken[n-1] = <<k, o - 1>>

\* A packet that was not reported reached the socket completely, and one
\* that was reported did not: the message is right in both directions.
ReportedIffCut ==
  alive => \A k \in 1 .. current :
    k < current \/ ~sending =>
      (k \in reported <=> Cardinality(OfPacket(k)) < lens[k])

\* A packet that fits into the socket's buffer is cut only if the client had
\* not fetched the one before when it was sent: sendall goes on until all
\* of it is in, in however many parts send() takes it.
OnlyBehindCut ==
  alive => \A k \in reported : k \in behind \/ lens[k] > SndBuf

\* A client that fetches nothing, or is gone, does not hold up the server,
\* whose one thread serves all the others too: every packet is done with,
\* sent or given up.
NeverWaits == sending ~> ~sending
=============================================================================
