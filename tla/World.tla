------------------------------- MODULE World --------------------------------
(***************************************************************************)
(* The world of demos/simple_terrain: what the callbacks of main.c tell    *)
(* the clients about each other, on top of the sessions of Session.  The   *)
(* server has one thread and SimpleServer shows that a handler keeps its   *)
(* player, so that a handler with all its callbacks is one step here.      *)
(*                                                                         *)
(* Positions have one coordinate; the three are handled alike.  It counts  *)
(* in parts of 1/4096 block, the unit of update_entity_position_and_       *)
(* rotation, because a client sends a double and the server rounds.        *)
(***************************************************************************)
EXTENDS Integers, Session, SequencesExt

CONSTANTS
  MAX_PLAYERS,
  Packets,    \* the packets clients send, other than positions
  Parts,      \* parts of a unit a position is given in
  ShortMax, IntMax, \* the largest short and int
  SpawnAt,    \* the position of finish_configuration_cb
  Positions,  \* the positions clients report
  MaxMoves,   \* bound: moves of a player between two spawns
  MaxMovers,  \* bound: players that move between two spawns
  Unknown     \* an entity a client was never told about

Slots == 0 .. MAX_PLAYERS - 1
Free == -1

ASSUME WorldAssumption == /\ MAX_PLAYERS \in Nat \ {0}
                          /\ Packets \subseteq Packet
                          /\ Parts \in Nat \ {0}
                          /\ ShortMax \in Nat /\ IntMax \in Nat
                          /\ ShortMax <= IntMax
                          /\ {SpawnAt} \cup Positions \subseteq Int
                          /\ MaxMoves \in Nat /\ MaxMovers \in Nat
                          /\ Unknown \notin Int

VARIABLES
  state,     \* conn.connection_state of the player in a slot, or Free
  loc,       \* its loc
  welcomed,  \* the slots whose client was sent login_play
  early,     \* history: play packets a client got before login_play
  seen,      \* seen[j][k]: where the client in j has the entity k
  ghosts,    \* history: <<j,k>> with seen[j][k] a player that left
  moves,     \* history: moves of a player since it was last spawned
  jumps,     \* history: what those too long for a short came out as
  named,     \* the slots whose username and uuid are set
  listed     \* <<j,k>>: the tab list of the client in j has the player in k,
             \* by the name it has now
names == <<named, listed>>
history == <<moves, jumps>>
vars == <<state, loc, welcomed, early, seen, ghosts, history, names>>

Kinds == {"spawn_entity", "update_entity_position", "player_info_update",
          "game_event", "keep_alive", "system_chat"}

Occupied(st) == {k \in Slots : st[k] # Free}
Playing(st) == {k \in Slots : st[k] = Play}

TypeOK ==
  /\ state \in [Slots -> ConnectionStates \cup {Free}]
  /\ loc \in [Slots -> Int]
  /\ welcomed \in SUBSET Occupied(state)
  /\ early \in [Slots -> SUBSET Kinds]
  /\ seen \in [Slots -> [Slots -> Int \cup {Unknown}]]
  /\ ghosts \in SUBSET (Slots \X Slots)
  /\ moves \in [Slots -> 0 .. MaxMoves]
  /\ jumps \in [Slots -> SUBSET {"wrapped", "undefined"}]
  /\ named \in SUBSET Occupied(state)
  /\ listed \in SUBSET (welcomed \X named)

Nothing == [k \in Slots |-> Unknown]

Init ==
  /\ state = [k \in Slots |-> Free]
  /\ loc = [k \in Slots |-> 0]
  /\ welcomed = {}
  /\ early = [k \in Slots |-> {}]
  /\ seen = [k \in Slots |-> Nothing]
  /\ ghosts = {}
  /\ moves = [k \in Slots |-> 0]
  /\ jumps = [k \in Slots |-> {}]
  /\ named = {} /\ listed = {}

-----------------------------------------------------------------------------
(* Sending.                                                                *)

\* The clients in js are sent a packet of a kind; in is the set of the
\* clients that were sent login_play before.
Sent(kind, js, in, log) ==
  [j \in Slots |-> IF j \in js \ in THEN log[j] \cup {kind} ELSE log[j]]

\* Faulty variants: only the newcomer is told; clients that are still logging
\* in are told.
Told_Newcomer(st, k) == {p \in {k} \X Occupied(st) : p[1] # p[2]}
Told_Everyone(st, k) == {p \in Occupied(st) \X Occupied(st) : p[1] # p[2]}

\* send_all_players_to_players: whom it tells about which player.
\* It names every occupied slot, those still logging in included.
Told(st, k) == {p \in Playing(st) \X Occupied(st) : p[1] # p[2]}

\* Faulty variant: only the newcomer gets the list.
Named_Newcomer(st, k) == {k} \X Occupied(st)

\* update_tab_list: to whom it names whom.
Named(st, k) == Occupied(st) \X Occupied(st)

\* (new * 4096) - (old * 4096), without its fraction.
Units(from, to) == IF to >= from THEN (to - from) \div Parts
                                 ELSE -((from - to) \div Parts)

\* Faulty variant: the sign is lost.
Short_Unsigned(n) == n % (2 * (ShortMax + 1))

\* The low bits of a number.
Short(n) == ((n + ShortMax + 1) % (2 * (ShortMax + 1))) - (ShortMax + 1)

\* The number it is converted to: its low bits, as long as it fits into an
\* int; beyond that the conversion may give anything.
Fits(n, max) == -max - 1 <= n /\ n <= max
Deltas(from, to) ==
  LET n == Units(from, to)
  IN IF Fits(n, IntMax) THEN {Short(n)} ELSE -ShortMax - 1 .. ShortMax

Jump(from, to) ==
  LET n == Units(from, to)
  IN IF Fits(n, ShortMax) THEN {}
     ELSE {IF Fits(n, IntMax) THEN "wrapped" ELSE "undefined"}

-----------------------------------------------------------------------------
(* Connections come and go.                                                *)

\* allocate_player with create_player: the first free slot, at the origin.
Join ==
  \E k \in Slots :
    /\ state[k] = Free
    /\ \A j \in Slots : j < k => state[j] # Free
    /\ state' = [state EXCEPT ![k] = Handshaking]
    /\ loc' = [loc EXCEPT ![k] = 0]
    /\ moves' = [moves EXCEPT ![k] = 0]
    /\ jumps' = [jumps EXCEPT ![k] = {}]
    /\ UNCHANGED <<welcomed, early, seen, ghosts, names>>

\* What is left of the tab lists when the player in a slot is another one.
Unlisted(k) == {p \in listed : k \notin {p[1], p[2]}}

\* Faulty variant: what the slot's last client was sent is not forgotten.
Leave_StaysWelcome(k) ==
  /\ state' = [state EXCEPT ![k] = Free]
  /\ seen' = [seen EXCEPT ![k] = Nothing]
  /\ named' = named \ {k}
  /\ listed' = Unlisted(k)
  /\ UNCHANGED <<loc, welcomed, early, ghosts, history>>

\* deallocate_player.  The player_leave callback is commented out: nobody
\* else is told, and the others keep the entity.
Leave(k) ==
  /\ state' = [state EXCEPT ![k] = Free]
  /\ welcomed' = welcomed \ {k}
  /\ early' = [early EXCEPT ![k] = {}]
  /\ seen' = [seen EXCEPT ![k] = Nothing]
  /\ ghosts' = {g \in ghosts : g[1] # k} \cup
               {<<j, k>> : j \in {h \in Slots \ {k} : seen[h][k] # Unknown}}
  /\ named' = named \ {k}
  /\ listed' = Unlisted(k)
  /\ UNCHANGED <<loc, history>>

HangUp(k) == state[k] # Free /\ Leave(k)

-----------------------------------------------------------------------------
(* Packets.                                                                *)

\* finish_configuration_cb: game event and position to the newcomer, the tab
\* list to everybody, the players to the players.
finish_configuration_cb(k, st, in) ==
  LET pairs == Told(st, k)
      here == [loc EXCEPT ![k] = SpawnAt]
  IN /\ loc' = here
     /\ seen' = [j \in Slots |-> [i \in Slots |->
                   IF <<j, i>> \in pairs THEN here[i] ELSE seen[j][i]]]
     /\ ghosts' = ghosts \ pairs
     /\ moves' = [i \in Slots |-> 0]
     /\ jumps' = [i \in Slots |-> {}]
     /\ listed' = listed \cup (Named(st, k) \cap (in \X named))
     /\ UNCHANGED named
     /\ early' = Sent("spawn_entity", {p[1] : p \in pairs}, in,
                   Sent("player_info_update", Occupied(st), in,
                     Sent("game_event", {k}, in, early)))

\* A packet other than a position: refused, or a step of the session, with
\* the replies of the handler; the one that leads to play runs the callback,
\* the one that starts a login sets the name and the uuid of the player.  A
\* login that is acknowledged without being started leaves them as they are.
Handle(k, p) ==
  /\ state[k] # Free
  /\ ~Refused(state[k], p) /\ ~Moves(state[k], p)
  /\ LET st == [state EXCEPT ![k] = NextState(state[k], p)]
         in == IF "login_play" \in ToSet(Replies(state[k], p))
               THEN welcomed \cup {k} ELSE welcomed
     IN /\ state' = st
        /\ welcomed' = in
        /\ IF st[k] = Play /\ state[k] # Play
           THEN finish_configuration_cb(k, st, in)
           ELSE /\ IF "login_success" \in ToSet(Replies(state[k], p))
                   THEN named' = named \cup {k} /\ listed' = Unlisted(k)
                   ELSE UNCHANGED names
                /\ UNCHANGED <<loc, early, seen, ghosts, history>>

Refuse(k, p) ==
  /\ state[k] # Free
  /\ Refused(state[k], p)
  /\ Leave(k)

\* on_move_cb: the others in play get the move as a difference, which their
\* clients add to where they have the entity, if they know it.
on_move_cb(k, from, to) ==
  LET js == Playing(state) \ {k} IN
  /\ \E d \in Deltas(from, to) :
       seen' = [j \in Slots |->
         IF j \in js /\ seen[j][k] # Unknown
         THEN [seen[j] EXCEPT ![k] = @ + Parts * d] ELSE seen[j]]
  /\ early' = Sent("update_entity_position", js, welcomed, early)

\* A position packet in play.  The handler takes any position.
Move(k, to) ==
  /\ state[k] = Play
  /\ moves[k] < MaxMoves
  /\ Cardinality({j \in Slots : moves[j] > 0} \cup {k}) <= MaxMovers
  /\ loc' = [loc EXCEPT ![k] = to]
  /\ moves' = [moves EXCEPT ![k] = @ + 1]
  /\ jumps' = [jumps EXCEPT ![k] = @ \cup Jump(loc[k], to)]
  /\ on_move_cb(k, loc[k], to)
  /\ UNCHANGED <<state, welcomed, ghosts, names>>

\* tick_callback, at a tick that sends keep-alives.
Tick ==
  /\ early' = Sent("keep_alive", Playing(state), welcomed, early)
  /\ UNCHANGED <<state, loc, welcomed, seen, ghosts, history, names>>

\* A chat message that the filter lets through: handle_packet_cb goes over the
\* occupied slots and sends it each time to the player it came from.
Chat(k) ==
  /\ state[k] = Play
  /\ early' = Sent("system_chat", {k}, welcomed, early)
  /\ UNCHANGED <<state, loc, welcomed, seen, ghosts, history, names>>

-----------------------------------------------------------------------------
Next == \/ Join
        \/ \E k \in Slots :
             \/ HangUp(k)
             \/ \E p \in Packets : Handle(k, p) \/ Refuse(k, p)
             \/ \E to \in Positions : Move(k, to)
             \/ Chat(k)
        \/ Tick

Spec == Init /\ [][Next]_vars

-----------------------------------------------------------------------------
(* Properties.                                                             *)

\* Any two players in play have been told about each other, and about the
\* player that is in the slot now: whatever left, joined and took over a
\* slot (an entity id) before, no client takes a player for a departed one.
PlayersSeeEachOther ==
  \A j, k \in Playing(state) : j # k =>
    seen[j][k] # Unknown /\ <<j, k>> \notin ghosts

\* A client has another player where the server has it, but for the part of
\* a unit that each move since the last spawn may have lost in rounding: no
\* move is missed or counted twice.  Once a move was too long for a short it
\* has it whole turns of 16 bits (16 blocks) away, until the next spawn; only
\* after one that was too long for an int nothing can be said.
Turn == Parts * 2 * (ShortMax + 1)
SeenWhereTheyAre ==
  \A j, k \in Playing(state) : j # k =>
    LET off == seen[j][k] - loc[k]
        lost == moves[k] * (Parts - 1)
    IN /\ jumps[k] = {} => -lost <= off /\ off <= lost
       /\ "undefined" \notin jumps[k] => (off + lost) % Turn <= 2 * lost

\* Two players in play have each other in their tab lists by name, however
\* their logins overlapped: what was sent before login_play, and what named a
\* player that had no name yet or took another, has been sent again since.
ListedByName ==
  \A j, k \in Playing(state) : k \in named => <<j, k>> \in listed

\* The only packet of the play state that may reach a client before its
\* login_play is the tab list, which goes to every occupied slot.
OnlyTabListEarly == \A k \in Slots : early[k] \subseteq {"player_info_update"}
=============================================================================
