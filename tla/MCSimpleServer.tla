--------------------------- MODULE MCSimpleServer ---------------------------
(* Constants for the model checking of SimpleServer. *)
EXTENDS SimpleServer, TLC

\* Packets that move a connection on, and packets that end it: at the
\* handshake only (a status request, which after it passes for a login
\* start), or at any time (a packet that cannot be read).
Id(n) == [id |-> n, intent |-> LoginIntent]
Status == [id |-> HANDSHAKE_ID, intent |-> 1]
MCPackets == {Id(HANDSHAKE_ID), Status}
MCLoginPackets == {Id(HANDSHAKE_ID), Id(Unreadable)}
ConnSymmetry == Permutations(Conns)
=============================================================================
