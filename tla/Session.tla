------------------------------- MODULE Session -------------------------------
(***************************************************************************)
(* What handle_player_packet (src/simple_server/simple_server.c:108-894)   *)
(* does with one whole packet of one player: the connection state it moves *)
(* to, the packets it writes back, and whether it refuses the packet, in   *)
(* which case the player is deallocated.  Constant operators only: the     *)
(* modules that own the players and the sockets use them in their actions. *)
(*                                                                         *)
(* A packet is its id and, for a handshake, its intent.  A packet id means *)
(* a different packet in each connection state, so one id is tested under  *)
(* several names.  A handshake that cannot be parsed leaves `intent'       *)
(* uninitialised (l.136-141), that is, equal to 2 or not: the two kinds    *)
(* of readable handshake already are those outcomes.                       *)
(***************************************************************************)
EXTENDS Integers, Sequences

\* Packet ids the handler tests, by the state in which it tests them.
Unreadable == -1                                  \* read_var_int fails

HANDSHAKE_ID == 0
LOGIN_START_ID == 0
LOGIN_ACKNOWLEDGED_ID == 3
SERVERBOUND_KNOWN_PACKS_CONFIGURATION_ID == 7
ACKGNOWLEDGE_SERVER_CONFIGURATION_ID == 3
SET_PLAYER_POSITION_ID == 29
SET_PLAYER_POSITION_AND_ROTATION_ID == 30
SET_PLAYER_ROTATION_ID == 31

\* Connection states, with the numbers the code uses.
Handshaking == 0
Login == 2
Configuration == 3
Play == 4
ConnectionStates == {Handshaking, Login, Configuration, Play}

LoginIntent == 2
Packet == [id : Int, intent : Int]

-----------------------------------------------------------------------------
IsHandshake(state, p) == state = Handshaking /\ p.id = HANDSHAKE_ID

\* Faulty variant: the intent of a handshake is not looked at.
Refused_AnyIntent(state, p) == p.id = Unreadable

\* The two errors of the handler: no id can be read, or the handshake asks
\* for anything but a login.
Refused(state, p) ==
  \/ p.id = Unreadable
  \/ IsHandshake(state, p) /\ p.intent # LoginIntent

\* The packet that ends the configuration.
Acknowledges(state, p) ==
  state = Configuration /\ p.id = ACKGNOWLEDGE_SERVER_CONFIGURATION_ID

\* The connection state after an accepted packet.
NextState(state, p) ==
  CASE IsHandshake(state, p)                                   -> p.intent
    [] state = Login /\ p.id = LOGIN_ACKNOWLEDGED_ID           -> Configuration
    [] Acknowledges(state, p)                                  -> Play
    [] OTHER                                                   -> state

\* What ends the configuration: "registry_data" stands for the last of a whole
\* run of registries (from l.199 on).
Registries == <<"registry_data", "finish_configuration">>

Welcome == <<"login_play">>

\* The packets the handler itself writes to the player, in order.
Replies(state, p) ==
  CASE state = Login /\ p.id = LOGIN_START_ID -> <<"login_success">>
    [] state = Login /\ p.id = LOGIN_ACKNOWLEDGED_ID
         -> <<"clientbound_known_packs">>
    [] state = Configuration
         /\ p.id = SERVERBOUND_KNOWN_PACKS_CONFIGURATION_ID
         -> Registries
    [] Acknowledges(state, p) -> Welcome
    [] OTHER -> <<>>

\* The packets after which the handler calls on_move and on_chunk_move.
Moves(state, p) ==
  state = Play /\ p.id \in {SET_PLAYER_POSITION_ID,
                            SET_PLAYER_POSITION_AND_ROTATION_ID,
                            SET_PLAYER_ROTATION_ID}
=============================================================================
