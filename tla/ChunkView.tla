----------------------------- MODULE ChunkView ------------------------------
(***************************************************************************)
(* Which chunks a player in play is sent: the square around the spawn      *)
(* point when play begins, and the strips of on_chunk_move afterwards      *)
(* (src/simple_server/simple_server.c), through the send_chunks callback   *)
(* of the demo.  Coordinates count half blocks.                            *)
(***************************************************************************)
EXTENDS Integers

CONSTANTS
  ChunkWidth,      \* 16, the blocks along the side of a chunk
  view_distance,
  WORLD_GEN_LIMIT,
  Spawn,           \* both coordinates of the spawn point
  Reach,           \* the coordinates a player can reach
  Steps            \* the moves of one packet, as <<dx, dz>>

ASSUME ChunkAssumption ==
  /\ ChunkWidth \in Nat \ {0} /\ view_distance \in Nat
  /\ WORLD_GEN_LIMIT \in Nat
  /\ Reach \subseteq Int /\ Spawn \in Reach
  /\ Steps \subseteq Int \X Int

Side == 2 * ChunkWidth

VARIABLES
  loc,     \* <<x, z>> of the player
  center,  \* the center the client was last told, <<0, 0>> at first
  noticed, \* the last move was taken for the crossing of a boundary
  sent     \* the chunks the client was sent
vars == <<loc, center, noticed, sent>>

\* (int) of a real number, given as a fraction: towards zero.
Truncate(n, d) == IF n >= 0 THEN n \div d ELSE -((-n) \div d)

\* round(): to the nearest, halves away from zero.
Round(n, d) == IF n >= 0 THEN (2 * n + d) \div (2 * d)
                         ELSE -((2 * (-n) + d) \div (2 * d))

InWorld(n) == -WORLD_GEN_LIMIT + 1 <= n /\ n <= WORLD_GEN_LIMIT

\* Faulty variant: the world has no end.
send_chunks_Everywhere(chunks) == chunks

\* send_chunks: nothing is sent outside of the world.
send_chunks(chunks) == {c \in chunks : InWorld(c[1]) /\ InWorld(c[2])}

\* The offsets of a row of chunks: from -view_distance-1 to view_distance.
Row == -view_distance - 1 .. view_distance

Init ==
  /\ loc = <<Spawn, Spawn>>
  /\ center = <<0, 0>>
  /\ noticed = FALSE
  /\ sent = send_chunks({<<Truncate(x * Side + Spawn, Side),
                           Truncate(z * Side + Spawn, Side)>> :
                           x \in Row, z \in Row})

-----------------------------------------------------------------------------
\* crossed_x_chunk_bound, crossed_z_chunk_bound.
Crossed(old, new) == /\ Truncate(new, 2) % ChunkWidth = 0
                     /\ Truncate(old, 2) % ChunkWidth # 0

Direction(old, new) ==
  IF ~Crossed(old, new) THEN 0 ELSE IF new < old THEN -1 ELSE 1

\* Faulty variant: one row too far out.
Edge_Far(mid, dir) ==
  {mid + dir * (view_distance + 1), mid + dir * (view_distance + 2)}

\* The two rows that come into view in a direction, seen from a center.
Edge(mid, dir) == {mid + dir * view_distance, mid + dir * (view_distance + 1)}

\* A row seen from a center.
Across(mid) == {mid + n : n \in Row}

\* Faulty variant: the rows behind the player.
Strips_Behind(mid, dir) ==
  (IF dir[2] # 0 THEN Across(mid[1]) \X Edge(mid[2], -dir[2]) ELSE {})
  \cup
  (IF dir[1] # 0 THEN Edge(mid[1], -dir[1]) \X Across(mid[2]) ELSE {})

Strips(mid, dir) ==
  (IF dir[2] # 0 THEN Across(mid[1]) \X Edge(mid[2], dir[2]) ELSE {})
  \cup
  (IF dir[1] # 0 THEN Edge(mid[1], dir[1]) \X Across(mid[2]) ELSE {})

\* Faulty variant: the center is the block, not the chunk.
Center_Block(new) == <<Truncate(new[1], 2), Truncate(new[2], 2)>>

Center(new) == <<Round(new[1], Side), Round(new[2], Side)>>

\* A position packet: the move, and on_chunk_move.
Move(new) ==
  LET dir == <<Direction(loc[1], new[1]), Direction(loc[2], new[2])>>
  IN /\ loc' = new
     /\ noticed' = /\ loc[1] # new[1] /\ loc[2] # new[2]
                   /\ dir # <<0, 0>>
     /\ IF noticed'
        THEN /\ center' = Center(new)
             /\ sent' = sent \cup send_chunks(Strips(Center(new), dir))
        ELSE UNCHANGED <<center, sent>>

Next == \E s \in Steps :
          /\ loc[1] + s[1] \in Reach /\ loc[2] + s[2] \in Reach
          /\ Move(<<loc[1] + s[1], loc[2] + s[2]>>)

Spec == Init /\ [][Next]_vars

-----------------------------------------------------------------------------
(* Properties.                                                             *)

ChunkOf(place) == <<place[1] \div Side, place[2] \div Side>>
Within(c, mid, n) == /\ c[1] - mid[1] <= n /\ mid[1] - c[1] <= n
                     /\ c[2] - mid[2] <= n /\ mid[2] - c[2] <= n

TypeOK == /\ loc \in Reach \X Reach
          /\ center \in Int \X Int
          /\ noticed \in BOOLEAN
          /\ \A c \in sent : InWorld(c[1]) /\ InWorld(c[2])

\* A player always has every chunk of the world within the view distance of
\* the one it is in: strips are sent in time for every way the player turns.
WindowSent ==
  \A c \in (-WORLD_GEN_LIMIT + 1 .. WORLD_GEN_LIMIT)
             \X (-WORLD_GEN_LIMIT + 1 .. WORLD_GEN_LIMIT) :
    Within(c, ChunkOf(loc), view_distance) => c \in sent

\* The center the client was told is the player's chunk or one next to it.
CenterFollows == Within(center, ChunkOf(loc), 1)

\* A chunk that is sent lies at most one row beyond the view distance around
\* the center that the client has just been told.
SentAroundCenter ==
  [][\A c \in sent' \ sent : Within(c, center', view_distance + 1)]_vars

\* What the comment says of the condition in on_chunk_move: it is that the
\* player "crossed a chunk boundry".
CrossingNoticed == [][ChunkOf(loc') # ChunkOf(loc) => noticed']_vars
=============================================================================
