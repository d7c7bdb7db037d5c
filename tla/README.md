# A TLA+ model of the Minecraft server in C

This directory models the server of this repository: the `select()` loop and
its table of players, the cutting of byte streams into packets, the sessions of
the players, the fields of packets, the sending side, the clock, the chunks a
player is sent, and what the demo tells its players about each other. TLC checks
the models on small instances; TLAPS proves the safety properties of all of them
for every instance.

Line numbers `l.N` refer to `simple_server/simple_server.c` unless another file
is named. `PROJECT.json` maps every definition to its lines, and lists the runs,
the faulty variants every property has to catch, the findings, the hazards and
the theorems.

## The system

One process, one thread. `start_server` loops over `select()`, calls the tick
callback, accepts connections, reads, and handles every packet to its end before
it looks at the next descriptor. All concurrency comes from outside: between any
two steps of the loop clients connect, send, stop reading or hang up, and the
kernel queues, cuts and joins what they send.

| Component | State | Operations | Modelled in |
|---|---|---|---|
| Event loop and player table (`start_server`, `allocate_player`, `deallocate_player`, `player.c`) | `player_slots`, `players`, `master`, `fdmax`, `should_stop`, the ready set of a scan | wait, tick, accept, read, drop, stop | `SimpleServer` |
| Session handler (`handle_player_packet`) | `connection_state` | refuse, move on, reply | `Session`, used by `SimpleServer` and `World` |
| Packet framing (`handle_packet`) | `backlog`, `backlog_len` | cut, keep, recurse | `Framing`, implements `PacketStream` |
| Var ints (`rw.c`) | – | read, write | `VarInt`, used by `Framing` and `Codec` |
| Fields of packets (`rw.c`, `packets.h`, the generated `send_*_packet`) | the buffer; the reader's two places | write, send, read | `Codec` |
| Paletted containers (`play_clientbound.h`) | – | write a section, read it back | `Palette` |
| Send path (`send_packet`, `sendall`) | the position in the packet, the socket's buffer | send, give up | `SendPath` |
| Tick clock | `start_time`, `total_ticks` | tick, keep-alive | `TickClock` |
| Chunk view (`on_chunk_move`, `send_chunks`) | what the client has been sent | first square, strips | `ChunkView` |
| Demo callbacks (`demos/simple_terrain/main.c`, `util.c`) | `loc`, `username`; what clients have been told | join, log in, move, chat, keep-alive, tab list | `World` |

They interact in this way: the loop hands the bytes of a read to the framing,
which hands packets to the session handler, which calls the demo's callbacks,
which write to the sockets of any players through the send path. Errors travel
back up as a return value, and each level deallocates the player again.

What is hard here: descriptors and slots are reused at once, while the scan still
works with an old ready set; a player may be freed below a function that holds
its pointer; the order of joining, leaving and reconnecting is up to the clients;
TCP delivers any cut of the stream; sockets are non-blocking and nobody waits for
a slow reader; time and positions are rounded. The list, with lines and the
properties that cover each item, is `hazards` in `PROJECT.json`.

What makes each component correct:

- **Event loop**: a descriptor belongs to exactly one player and a player to one
  connection; what `select()` reported is still so when it is used; nobody is
  dropped or forgotten without a cause; every client is served in the end.
- **Session**: a connection's state depends on its own packets only.
- **Framing**: the packets handed on are the packets written: all, whole, in order.
- **Fields**: a packet is read as it was written, or what is wrong is noticed.
- **Send path**: packets arrive whole, or it is known which one did not; nobody
  waits for a slow reader.
- **Clock**: ticks and keep-alives do not come too late.
- **Containers**: a section is read as it was written, to its end.
- **Chunks**: a player has what it can see.
- **World**: clients agree with the server about who is there, by what name, and
  where.

## The modules

**`Session`** holds constant operators only: `Refused`, `NextState`, `Replies`
and `Moves` of a state and a packet. A packet is its id and, for a handshake, its
intent. The ids of different states overlap, as on the wire. A handshake that
cannot be parsed leaves `intent` uninitialised; its outcomes are those of the two
kinds of handshake that can.

**`SimpleServer`** is the core. `pc` says where the thread is: waiting (`select`),
in the scan (`scan`), in `handle_packet` (`handle`), or at an end (`stopped`,
`exited` by an error of `select()`, `undefined` where the code uses player -1).
`read_fds` is what the scan has still to visit, in the order of the numbers.
`fdtable`, `queue`, `inq` and `hungup` are the kernel's: which connection is behind
a descriptor, who waits for `accept`, unread packets, closed ends. New descriptors
are the lowest free ones. `earned` is a history variable: the state that the
packets of a connection have led to. `torn` says that behind the packets of a read
there is the beginning of a length. Actions and code:

| Action | Code |
|---|---|
| `Select(stop)`, `Stop` | l.1033–1063; `stop`: the console asked for it in the tick callback |
| `Accept(ok)`, `AcceptFails` | l.1070–1110; `ok = FALSE`: `setsockopt` fails |
| `ReadClosed`, `ReadData` | l.1112–1139 |
| `OrphanClosed`, `OrphanData` | the same with `player_num == -1` |
| `handle_packet`: `GiveUp`, `Refuse`, `Handle` | a pass of `handle_packet` and `handle_player_packet`, l.896–977 and 108–894; `GiveUp`: no length can be read (l.926–931) |
| `Connect`, `Send`, `HangUp` | clients and kernel |

`ReadData` takes whole packets, any number of those that wait, and may end inside the
length of the next one, which costs the player its connection behind the packets that
were handled. A read that ends inside a packet's contents only delays the packet. How
bytes become packets, and that they are the packets written, is the subject of
`Framing`; its `backlog_twice` shows the one case in which they are not, and in which
a player may be dropped for a packet it never sent. A client that hangs up may reset the connection, so that its
unread packets are lost. `OrphanClosed` has two outcomes, because
`deallocate_player(server, -1)` reads the byte before the table.

**`PacketStream`** is the abstract promise (`Write`, `Deliver`, `Break`, weak
fairness of `Deliver` while the connection is not broken) and **`Framing`** the code,
on real bytes: the length is decoded from whatever stands at the front, so a header
looked for in the wrong place yields a wrong packet and not an error flag. Two
constants say what the environment does: `Pipelined` (the client writes ahead) and
`ReadsPast` (the read that completes a backlog may bring more). A read may end
anywhere; `torn` records that one ended inside a length. A packet has an id that can
be read, and a length that a var int can hold (`PayloadsAssumption`).

**`VarInt`** has the var ints as functions of the bits per byte and per number. Powers
of two are a recursive function, `Pow2`, which a proof can unfold.

**`Codec`** takes a packet through its whole way: `WriteField` is the call of one
writer, `Receive` the packet at its reader, `ReadField` the call of one reader. A
packet is a layout (what `packets.h` expands to a struct) and its values. Two things
in the code make it more than a pair of inverse functions. The generated senders do
not look at the writer's error, so that a packet that does not fit is sent as far as
it was written, under a length of its own (`Header`). And the reader keeps two
places: `ptr`, where it reads, and `pos`, which is compared with the length. They
drift apart, because a string is counted by its prefix only and the packet callback
starts at 0 behind the id; from then on the checks come too late. `uncounted` is the
history of that. The length of a string and the count of a list are signed numbers:
a negative length moves `ptr` back, a negative count is an empty list (`Count`). The
end of a behaviour is `done`, `refused` or, where a reader went out of the memory on
either side, `astray`. The bytes behind a packet in memory are one of a few `Tails`. `Parts` is the
packet as it should be on the wire, value by value. A packet is `WellFormed` if it has
exactly the values of its fields, each one that the C type of the field can have, and
a length that a var int can hold.

**`Palette`** has the buffer as a sequence of fields and a long as the set of its
bits, so that shifting is adding, masking is intersecting, and an index that is too
wide for its field does what it does in the code: its upper bits fall into the next
field and are cleared with it. `Collect` is a turn of the first loop; `Single`,
`Paletted` and `Direct` are the three forms; `Read` is the reader, which
counts longs and places bits by formulas of its own, as the code has them twice.
The bits of a field and the longs of a section are put together by recursive
functions (`Total`, `data`), one bit or entry at a time as in the loops of the code.
`Init`, `Next`, `TypeOK` and `Spec` have `Container` before their names, because
`ChunkProofs` extends this module together with `ChunkView`.

**`SendPath`** tags each byte with its packet and offset. `Start` is
`send_packet`, `Send`, `Sent` and `SendFails` the loop of `sendall`; the kernel
accepts any part that fits, the client fetches any part, and may reset. `behind`
records the packets that were sent before the client had fetched the last one.
`FairSpec` lets the thread run on inside `sendall` and assumes nothing of the client.

**`TickClock`** keeps time relative to `start_time` and to the last keep-alive.
`Select`, `Tick` or `NoTick`, and `Serve` are the stages of one pass of the loop.
`MaxInt` is the largest `int`, where `total_ticks` wraps.

**`ChunkView`** has the position in half blocks; truncation and rounding follow C.
One action, `Move`, is a position packet with `on_chunk_move`.

**`World`** has one step per packet with all its callbacks, which is justified by
`HandlerOwnsPlayer` and the single thread. `seen[j][k]` is where the client in slot
j has the entity k, `ghosts` marks entries left behind by players that are gone,
`early` collects what a client got of the play state before `login_play`. `named`
are the players whose name and uuid were set by a login, `listed` the entries of
tab lists that carry the present name; a second login, or another player in the
slot, makes them void. Positions have one coordinate in parts of 1/4096 block. The
server takes any position. What it sends of a move is the difference in 1/4096
blocks as a `short` (`Deltas`): from 8 blocks on it wraps, as conversions on this
platform go through an `int`, and where the difference fits no `int` C leaves the
conversion undefined and any `short` may come out. `jumps` is the history of which of
the two has happened since the last spawn. A position that is not a number is left
out.

## The runs

| Run | Instance | Shows |
|---|---|---|
| `polite` | 2 slots, 3 endpoints, descriptors 0–3, one of them the listener; clients count a connection until the server let go of it; `FairSpec` | the safety properties of the loop, with every order of reuse and reads torn inside a length; accepts and hang-ups are dealt with in the end |
| `crowded` | 2 slots, 3 live connections of 4 endpoints, descriptors 0–3; `setsockopt` may fail | even with orphans and closed descriptors in the select set no two players ever hold one descriptor, and what `select()` reported is never stale |
| `orphan` | as many connections as slots, impolite | **violation**: l.1119 "very bad stuff" is reached |
| `stream` | up to 4 packets, reads of up to 6 bytes that end anywhere | `Framing` implements `PacketStream`, liveness included; a connection is given up only when a read ended inside a length |
| `backlog_twice` | the read that completes a packet brings the next | **violation**: the backlog is used twice |
| `codec` | packets with fields of every kind, all var ints and 18 positions, buffers of every length | what goes out is a beginning of the packet; what is sent whole is read back, or refused at a last byte; which cuts are noticed |
| `sections` | 7 entries, equal and different in all 877 ways; longs of 7 bits | containers are read to their end, and exactly if an index has enough bits |
| `sends` | 3 packets of 1, 3 or 5 bytes, a buffer of 4; `FairSpec` | order, honest reports; whole packets for a client that keeps up; no packet holds up the server |
| `busy_clock` | waits, callbacks and serving of several units | the clock keeps up, keep-alives in time, through the wrap of the counter |
| `walk` | chunks of 4 blocks, view distance 1, diagonal moves of half a block | the window around the player is always complete, and what is sent lies around the announced center |
| `straight_walk` | moves along one axis | **violation**: the crossing is not noticed |
| `players` | 3 slots, sessions from handshake to play, up to two moves between two spawns, leaving, reuse | mutual sight, positions, tab lists by name, order of packets |

The bounds and why they suffice:

- *Slots and endpoints*: two slots are the least for which a lookup can hit the
  wrong one; a third endpoint reuses slot and descriptor of either of the others
  while the scan still runs. `crowded` has one descriptor more than the slots need.
  Endpoints are symmetric in `crowded` and `orphan`; `polite` checks liveness and
  does without.
- *Packets*: one that moves a connection on and one that ends it; two states of a
  session are enough to tell whose packets earned it, and `players` has all four.
  `MaxInFlight` lets a read return two packets, so that an error can occur in the
  middle, and a length be torn alone or behind a packet.
- *Framing*: lengths need one and two bytes, and `MaxRead` is smaller than two
  packets, so that each kind of cut occurs.
- *Codec*: bytes have three bits. Var ints of 7 bits in segments of 2 leave a bit to
  spare in the last byte, as 32 in segments of 7 leave three; 64-bit ones are 9 bits
  long, and positions have 10, 10 and 4 bits of 24 for 26, 26 and 12 of 64. The
  packets are rows of the packet tables that between them have every kind of field.
  Buffers have every length up to one byte more than the packet needs.
- *Containers*: with a smallest width of 1, a largest of 2 and 7 values there are
  widths that suffice, widths that do not, the direct form, longs with spare bits and
  a last long that is not full; the largest containers do not fit into the buffer.
- *Chunks*: sides of 4 instead of 16 blocks keep every residue; three chunks along
  each axis are the player's, one each side.
- *Clock*: the counter wraps behind 15 with a short interval across the wrap, as it
  does behind 2^31 - 1 for 400.
- *World*: three slots are two that know each other and one that comes and goes. A
  `short` has 2 bits and an `int` 3, a unit two parts. Of the two positions one is a
  unit and a half off the spawn (rounding), the other just too far for a `short`; from
  the first to the second it is too far for an `int`, and back it is not. One player
  moves between two spawns: a move changes where the others have that player only.

Runs check for deadlock everywhere: `Ended` and `Done` are the states in which a
component may stop.

### Fairness

`SimpleServer!FairSpec` has weak fairness of the server's own steps together: there
is one thread and nothing it calls blocks, but `accept` on an empty queue, which
does not occur. The console's request to stop is not among them. Nothing is assumed
of clients. `Framing!FairSpec` has weak fairness of reading and handling, which is
what `QueuedServed` and `HangUpReleased` show of the loop. `SendPath!FairSpec` has
weak fairness of the steps of `sendall` together: the sockets are non-blocking
(l.1091–1092), so that `send()` returns and the thread goes on. The other modules
have safety properties only.

## What is proved

`SimpleServerProofs` proves, for every number of slots, descriptors, connections
and packets, for polite and impolite clients, and with or without a failing
`setsockopt`:

- `TypeCorrect`: `Spec => []TypeOK`
- `OneSlotPerFdHolds`, `SnapshotFreshHolds`, `HandlerOwnsPlayerHolds`,
  `StateEarnedHolds`: the invariants of these names
- `JustDropHolds`, `SlotStableHolds`: the action properties

The assumptions are those on the constants in the modules themselves
(`SizesAssumption` and the following in `SimpleServer`), which TLC evaluates in every
run; where a theorem below assumes more, it says so.

*The argument.* None of the properties is inductive. `SnapshotFresh`, for instance,
would not survive an accept that got the number of a descriptor the scan has still
to visit; it does because that descriptor is open, and `accept` only gives free
ones. It would not survive a deallocation either, if the dropped player shared its
descriptor; so it needs `OneSlotPerFd`, which needs that players' descriptors stay
in `master` (`SlotsWatched`). The case of `setsockopt` breaks the simplest such
invariant (players' descriptors are open): a closed descriptor is registered and
could be handed out again. What saves the server is the order of things: within the
scan the listener is visited once, and the next `select()` fails on the closed
descriptor. `NoAcceptAfterFailure` states this. `IInv` collects:

1. `TypeOK`, and `SlotsMatch`: flag and pointer of a slot agree;
2. `OneSlotPerFd`, `SlotsWatched`;
3. `ConnsApart`: a connection is behind one descriptor or once in the queue;
4. `NothingEarned`: who is not accepted has earned no state;
5. `SnapshotFresh`, `NoAcceptAfterFailure`;
6. `HandlerOwnsPlayer`, `StateEarned`.

One lemma per action shows that it keeps `IInv`; the effect of `allocate_player`
and `deallocate_player` is stated once and cited. The action properties follow from
`IInv` and three lemmas about what an accept, a deallocation and any other step
change. `IInv` was an invariant of TLC's runs before it was proved.

The last part of the module has what depends on a count of connections:

- `ExitsForACauseHolds`, without further assumption
- `NoOrphanHolds` and `NoneForgottenHolds`, assuming `Uncrowded`: clients that count
  a connection until the server has let go of it, no more such connections than
  slots, and no failing `setsockopt`

Without `Polite`, `NoOrphan` is false, as `orphan` shows. *The argument*: `Roomy`
says that there are at most `MaxLive` live connections, that every accepted one is
watched, and that every watched descriptor has a player. A connection that is
accepted comes from the queue, so that fewer than `MaxPlayers` were accepted before
it; the occupied slots map one to one to accepted connections (`OneSlotPerFd`,
`ConnsApart`), so a slot is free and `allocate_player` cannot return -1 (`SlotFree`).

`WorldProofs`, for every number of slots and all positions and packets:
`TypeCorrect`, `PlayersSeeEachOtherHolds`, `ListedByNameHolds`,
`OnlyTabListEarlyHolds` and `SeenWhereTheyAreHolds`, for every size of `short` and
`int`. The first four need only one
fact more to be inductive: whoever is in play was sent `login_play`
(`PlayingWelcomed`). The bound on positions is kept by every step because players in
play know each other, and because what is sent of a move is the move but for less
than a unit and for whole turns of the bits of a `short` (`DeltaNear`); `SeenWithin`
has the turns as a number, and `Remainder` takes them out again.

`SendPathProofs`, for every length and number of packets and every room in the
socket: `TypeCorrect`, `PrefixesInOrderHolds`, `ReportedIffCutHolds`,
`OnlyBehindCutHolds`. The invariant ties the variables of `sendall` to the bytes:
`total` bytes of the current packet are taken (`TotalTaken`), the last byte taken is
the one before `total` (`EndsAtTotal`), and as long as the client was not behind
nothing else is in the buffer (`OnlyCurrent`).

`TickClockProofs`, for every period, timeout, cost and size of `int`: `TypeCorrect`
and `KeepAliveOnTimeHolds`. `Left` counts the ticks to the next keep-alive, across
the wrap of the counter; since the last one every tick but those left took
`MaxApart` at most (`AliveBound`). The assumption on `MaxInt` and `KEEP_ALIVE` says
that the interval across the wrap is not longer than the others, as is the case for
2^31 - 1 and 400.

`ChunkProofs` has two parts, independent of each other. The first is about `Palette`,
for every number of entries, every width of an entry and of a long, and every set of
sections that the constants allow:

- `ContainerTypeCorrect`, `ReadBackIffWide`, `ReadsToTheEnd`: the three invariants of
  the run `sections`
- `SmallSectionsExact`: a section of at most 2^`min_bpe_indirect` values, 16 in the
  code, is read back as it was. This is what the demo, with its six values, relies on.

*The argument.* Every entry has a long with room for its field (`PlaceIs`), and two
entries of one long have fields of their own (`FieldsApart`). A value of the width of
its field is put there and leaves the others alone (`PutIs`, `WithEntryIs`), so that
every such entry is read back as it was written (`DataIsRead`, an induction over the
entries). That is one half of `ExactIffWide`. For the other half nothing need be known
of what the overlapping values leave behind: a field of `bits` bits is read as a number
below 2^`bits` (`GetBound`), so if there are more values than that, an entry that has
the value behind them is read as another one of the palette, and the values of a
palette are different. The invariant is `ContainerInv`: what has been collected are the
values seen so far, each of them once (`Collected`, with `CollectedToTheEnd` for where
the loop is), and what has been written is one of the three forms of the section
(`WrittenWhole`).

The second part is about `ChunkView`, for every width of a chunk, view distance and
size of the world: `TypeCorrect` and `SentAroundCenterHolds` for every kind of move;
`WindowSentHolds` and `CenterFollowsHolds` for a `Walking` player, whose packets
change both coordinates by up to a block and who stays at or above zero (the run
`walk` is such a player, and so is one of the demo, with its 16 blocks and spawn at
8.5, as long as it keeps to that quarter of the world). What makes it inductive is a
row more than the window (`Need`): who stands in the first block of a chunk needs the
row behind it already, because the step back over the edge is not a crossing for the
code.

`VarIntProofs`, for every width of a byte and of a number: `ReadsNumber` (a var int is
read as the number written, in as many bytes, whatever follows it) and
`NoNumberCutShort` (of a part of one no number is read). The module also has what the
next two rest on. The induction theorems of the library take an operator as a
parameter, which the provers cannot instantiate; so induction is stated of sets of
numbers (`Induction`, from the well-foundedness of `<`), and the existence of a
recursively defined function is proved from it (`Recursion`, `ApproximationExists`).
That `EncodedLen` exists is the least number principle; that the digits add up is an
induction over them (`NextDigit`).

`FramingProofs`, for every set of packets, every size of the buffer of `read()` and
every way of cutting the stream:

- `TypeCorrect`, `DeliversInOrder`, `GivesUpOnlyTorn`, `BacklogIsBeginning`
- `ImplementsPacketStream`: every step of `Framing` is a step of `PacketStream` or none

`TypeCorrect` holds of any behaviour. The others assume `Calm`: the client waits for the server, or no read brings the end
of a packet in the backlog together with more. That is no convenience: without it
the theorems are false, as `backlog_twice` shows. *The argument*: `Located` says
where every byte is. The stream of the packets written is that of the packets handed
on, then the backlog, then what `handle_packet` was called with, then the wire. So
`read_buf` starts where a packet starts, `ReadsNumber` gives the packet's length, and
what is cut off is the packet. `Backlogged` is where `Calm` is needed: as long as
there is a backlog, nothing beyond its packet has been read, so that the recursive
call, which would use the backlog again, never happens with one. `TornSeen` gives
`GivesUpOnlyTorn`: a buffer in which no length can be read ends inside one
(`NoNumberCutShort`).

`CodecProofs`, for every packet of every layout, every length of the buffer, any
bytes behind the packet, and every width of bytes, numbers and positions:
`TypeCorrect`, `SendsPrefix`, `WholeIsReadBack`, `OnlyLastByteRefused`, `CutIsNoticed`.
The assumption is that of `Codec`, that packets are `WellFormed`. *The argument* has
three parts:

1. One lemma for each kind of field says that its reader, in front of the bytes of its
   writer, gives the value back: two's complement (`SignedBack`), the three numbers of
   a position (`PositionBack`), big-endian bytes (`ReadsBigEndian`), var ints of both
   widths, strings and tags. `ReadsWhole` and `ReadsShort` put them together: from all
   the bytes of a field the reader takes the value; from a part of them, with every
   byte counted, it takes nothing, or more than it counts.
2. `PartsDefined` unfolds the packet, and `WholeExtends` says that its bytes begin
   with those of its first fields.
3. The invariant: the writer has written the values it is through with, but for a full
   buffer (`WrittenSoFar`, `SentSoFar`); the memory of the reader begins with the
   buffer (`Received`); and a reader that is `Sure` is at its place in the packet, with
   the values so far right (`Located`). It is sure as long as the packet is whole, or
   it has counted every byte it took and there is no tag. `LastByteCounted` is what
   is left to say of the last byte. A reader that has lost count never finds its
   place again (`UnsureStays`), so that nothing need be said of it.

*Only model-checked*: liveness (`QueuedServed`, `HangUpReleased`, `NeverWaits`, and the
fairness of `Deliver` that `StreamSpec` contains), which the provers cannot do. Every
other property of the passing runs is a theorem.

## Findings

Shown by runs, with their lines in `PROJECT.json`: connections without a slot stay in
the select set; the backlog is used twice when the read that completes it brings
more; walking along one axis loads no chunks.

Shown by what the passing runs state, and no more than that holds: a read that ends
inside a length costs a correct client its connection, though the comment says "todo
-- append to backlog" (`OnlyTornGivenUp`); `sendall` cuts packets when a client that
is behind has filled its buffer, and the next packet follows the stump
(`ReportedIffCut`, `OnlyBehindCut`); `bits_per_entry` counts one bits where the width
of an index is meant, so that sections of 17 to 30 values, and most larger ones, come
out wrong (`ExactIffWide`; the demo has six values); `read_byte` refuses the last byte
of a packet, with which every position packet ends, and the handlers work with the
fields before it, which are right (`RefusesLastByte`); a packet that does not fit
into the buffer is sent cut short under a length that matches, and a reader fails to
notice it only where its count lags behind, by a string or the callback's id, or
there is a tag (`CutNoticed`). The tick is due after 20 microseconds, not the 20
milliseconds of the comment at l.1027.

Not claimed against any document, but visible in the models: the keep-alive's
"like, 16 seconds" is 8 at a tick per 20 ms and less under load; entities of players
that left stay on the other clients until the slot is used again; players that are
still logging in are already shown, at the origin; a player that moves by 8 blocks or
more at once is seen whole turns of 16 blocks from where it is until somebody spawns;
every move may lose a part of
1/4096 block, and the losses add up (`SeenWhereTheyAre` bounds them by the number of
moves, not by a constant); the tab list reaches clients before they are in play, and
lists players that have sent no name yet with what was in memory, until a later list
replaces it; a chat message goes back to its sender, once for every occupied slot.

## What is not modelled, and why

Nine tenths of the lines of the repository are generated tables (`blocks.h`,
`filter.h`) and vendored libraries (NBT, miniz, noise, hash map, hashing); none of it
is the program's own logic. Of the rest:

- *Contents of packets* (registries, NBT tags, chunk data, terrain noise) do not
  influence any decision of the server.
- *`lpvec3`* (`rw.c:244`): the server writes only the zero vector, which is one byte.
  (For others the upper part is shifted within 32 bits, `rw.c:261`.)
- *Optional fields* (`packets.h:70`): the server writes them only when present; for an
  absent one the macro writes no flag.
- *Region files* (`anvil.c`): no program calls it, and the writer of chunks ends in a
  `TODO`; nothing reads a region back, so that there is nothing to state about it.
- *The tcc demo* compiles `server_script.c`, whose callbacks repeat those of the main
  demo.
- *The chunk cache* is a table of what is computed once; it only grows.
- *The chat filter*: which messages pass is a choice (`World!Chat`).
- *Memory*: `malloc` does not fail, and leaks are not counted.
- *The kernel*: `select()` is not interrupted by signals, and a connection that was
  reset stays in the accept queue.
- *Errors before the main loop* end the program.
- *A failing `fcntl`* (l.1086–1095) on an open descriptor, which would leave a socket
  that blocks. On one that was closed after `setsockopt` it fails without consequence.

## Plan

Done: `Session`, `SimpleServer`, `World`, `SendPath`, `TickClock`, `ChunkView`, `VarInt`,
`PacketStream` with `Framing`, `Codec` and `Palette`, each with its proofs.

Left, in this order:

1. A composition of `Framing` and `SimpleServer`: a read of bytes is a read of
   packets, as `SimpleServer!ReadData` assumes.
2. The chunk cache of the demo with several players, and the walk below zero, where
   truncation goes the other way.
