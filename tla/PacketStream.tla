---------------------------- MODULE PacketStream ----------------------------
(***************************************************************************)
(* What the packet layer of the server promises for one connection: the    *)
(* packets the client wrote reach handle_player_packet whole, each once,   *)
(* and in the order in which they were written, until the connection       *)
(* breaks; as long as it does not, all of them.                            *)
(***************************************************************************)
EXTENDS Integers, Sequences

CONSTANTS Payloads, MaxSent  \* MaxSent bounds the packets written

VARIABLES sent, got, broken
vars == <<sent, got, broken>>

TypeOK == {sent, got} \subseteq Seq(Payloads) /\ broken \in BOOLEAN
Init == sent = <<>> /\ got = <<>> /\ broken = FALSE

Write == /\ Len(sent) < MaxSent
         /\ \E p \in Payloads : sent' = Append(sent, p)
         /\ UNCHANGED <<got, broken>>

Deliver == /\ ~broken
           /\ Len(got) < Len(sent)
           /\ got' = Append(got, sent[Len(got) + 1])
           /\ UNCHANGED <<sent, broken>>

Break == /\ broken' = TRUE
         /\ UNCHANGED <<sent, got>>

Next == Write \/ Deliver \/ Break
Spec == Init /\ [][Next]_vars /\ WF_vars(Deliver)
=============================================================================
