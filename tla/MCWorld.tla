------------------------------ MODULE MCWorld -------------------------------
(* Constants for the model checking of World. *)
EXTENDS World

Id(n) == [id |-> n, intent |-> LoginIntent]
Status == [id |-> HANDSHAKE_ID, intent |-> 1]
MCPackets == {Id(0), Id(3), Status}

\* In halves of a unit, with shorts of 2 bits and ints of 3.
MCSpawnAt == 5

\* From the spawn one is a unit and a half off, the other just too far for a
\* short; from the first to the second it is too far for an int, and back it
\* is not.
MCPositions == {MCSpawnAt - 3, MCSpawnAt + 5}
=============================================================================
