---------------------------- MODULE SimpleServer ----------------------------
(***************************************************************************)
(* The event loop of src/simple_server/simple_server.c: start_server's     *)
(* select loop, the table of player slots, and the descriptors they hold.  *)
(*                                                                         *)
(* One thread runs the server; pc says where it is.  The clients and the   *)
(* kernel move between any two of its steps: a connection may arrive, send *)
(* or hang up after select() returned and before the scan reaches its      *)
(* descriptor.  What a packet does to a player is module Session; how the  *)
(* bytes of a read are cut into packets is module Framing, so here a read  *)
(* returns whole packets, and perhaps a part of the length of the next,    *)
(* which costs the player its connection.  The packets written back and    *)
(* the callbacks other than the console's change nothing modelled here.    *)
(***************************************************************************)
EXTENDS Integers, Sequences, FiniteSets, Session

CONSTANTS
  MaxPlayers,  \* server->max_players
  MaxFd,       \* the largest descriptor the process may open
  Listener,    \* the descriptor of the listening socket
  Conns,       \* client endpoints; one connection each at a time
  Packets,     \* the packets clients send
  MaxInFlight, \* bound: packets of one connection waiting to be read
  MaxLive,     \* bound: connections the clients keep at a time
  Polite,      \* TRUE: a connection counts until the server let go of it
  OptFails,    \* TRUE: setsockopt(TCP_NODELAY) may fail
  NoConn, NoPlayer

Slots == 0 .. MaxPlayers - 1
Fds == 0 .. MaxFd
ListenBacklog == 10

ASSUME SizesAssumption == /\ MaxPlayers \in Nat \ {0}
                          /\ MaxFd \in Nat
                          /\ MaxInFlight \in Nat
                          /\ MaxLive \in Nat
ASSUME ListenerAssumption == Listener \in Fds
ASSUME ConnsAssumption == IsFiniteSet(Conns) /\ NoConn \notin Conns
ASSUME PacketsAssumption == Packets \subseteq Packet
ASSUME SwitchesAssumption == Polite \in BOOLEAN /\ OptFails \in BOOLEAN

Player == [fd : Fds, connection_state : ConnectionStates]
ASSUME NoPlayerAssumption == NoPlayer \notin Player

VARIABLES
  player_slots,  \* server->player_slots
  players,       \* server->players
  master,        \* server->master
  fdmax,
  should_stop,
  pc,            \* "select", "scan", "handle", "stopped", "exited" or "undefined"
  read_fds,      \* the ready descriptors the scan has still to visit
  i,             \* the descriptor handle_packet serves, -1 outside of it
  player_num,    \* the player handle_packet serves
  buf,           \* the packets handle_packet has still to handle
  torn,          \* and behind them a length that is not all there
  fdtable,       \* kernel: the connection behind each open client descriptor
  queue,         \* kernel: connections waiting for accept(), in order
  inq,           \* kernel: packets of each connection not yet read
  hungup,        \* connections whose client has closed its end
  earned         \* history: the state a connection's own packets lead to

server == <<player_slots, players, master, fdmax, should_stop>>
scan == <<pc, read_fds, i, player_num, buf, torn>>
kernel == <<fdtable, queue, inq, hungup, earned>>
vars == <<server, scan, kernel>>

TypeOK ==
  /\ player_slots \in [Slots -> BOOLEAN]
  /\ players \in [Slots -> Player \cup {NoPlayer}]
  /\ master \in SUBSET Fds
  /\ fdmax \in Fds
  /\ should_stop \in BOOLEAN
  /\ pc \in {"select", "scan", "handle", "stopped", "exited", "undefined"}
  /\ read_fds \in SUBSET Fds
  /\ i \in Fds \cup {-1}
  /\ player_num \in Slots \cup {-1}
  /\ buf \in Seq(Packets)
  /\ torn \in BOOLEAN
  /\ fdtable \in [Fds -> Conns \cup {NoConn}]
  /\ queue \in Seq(Conns)
  /\ inq \in [Conns -> Seq(Packets)]
  /\ hungup \in SUBSET Conns
  /\ earned \in [Conns -> ConnectionStates]

\* allocate_simple_server, then start_server up to its main loop.
Init ==
  /\ player_slots = [k \in Slots |-> FALSE]
  /\ players = [k \in Slots |-> NoPlayer]
  /\ master = {Listener}
  /\ fdmax = Listener
  /\ should_stop = FALSE
  /\ pc = "select"
  /\ read_fds = {}
  /\ i = -1
  /\ player_num = -1
  /\ buf = <<>>
  /\ torn = FALSE
  /\ fdtable = [f \in Fds |-> NoConn]
  /\ queue = <<>>
  /\ inq = [c \in Conns |-> <<>>]
  /\ hungup = {}
  /\ earned = [c \in Conns |-> Handshaking]

-----------------------------------------------------------------------------
(* The clients and the kernel.                                             *)

Running == pc \in {"select", "scan", "handle"}
Queued == {queue[n] : n \in 1 .. Len(queue)}
Accepted == {fdtable[f] : f \in Fds} \ {NoConn}
Live == Queued \cup Accepted
Load == Cardinality(IF Polite THEN Live ELSE Live \ hungup)

Connect(c) ==
  /\ Running
  /\ c \notin Live
  /\ Load < MaxLive
  /\ Len(queue) < ListenBacklog
  /\ queue' = Append(queue, c)
  /\ UNCHANGED <<server, scan, fdtable, inq, hungup, earned>>

Send(c, p) ==
  /\ Running
  /\ c \in Live \ hungup
  /\ Len(inq[c]) < MaxInFlight
  /\ inq' = [inq EXCEPT ![c] = Append(@, p)]
  /\ UNCHANGED <<server, scan, fdtable, queue, hungup, earned>>

\* The client closes its end; if it resets, what it sent is lost.
HangUp(c) ==
  /\ Running
  /\ c \in Live \ hungup
  /\ hungup' = hungup \cup {c}
  /\ inq' \in {inq, [inq EXCEPT ![c] = <<>>]}
  /\ UNCHANGED <<server, scan, fdtable, queue, earned>>

\* close(f): the connection is over for both ends, its unread data is gone.
Forget(c) ==
  /\ inq' = [inq EXCEPT ![c] = <<>>]
  /\ hungup' = hungup \ {c}
  /\ earned' = [earned EXCEPT ![c] = Handshaking]

Close(f) ==
  /\ fdtable' = [fdtable EXCEPT ![f] = NoConn]
  /\ IF fdtable[f] = NoConn THEN UNCHANGED <<inq, hungup, earned>>
                            ELSE Forget(fdtable[f])
  /\ UNCHANGED queue

Readable(f) ==
  IF f = Listener THEN queue # <<>>
  ELSE fdtable[f] # NoConn /\ (inq[fdtable[f]] # <<>> \/ fdtable[f] \in hungup)

ClosedFd(f) == f # Listener /\ fdtable[f] = NoConn

-----------------------------------------------------------------------------
(* The player table.                                                       *)

\* Faulty variant: does not look whether the slot is taken.
FirstFree_Taken(k) == \A j \in Slots : j < k => player_slots[j]

FirstFree(k) == /\ ~player_slots[k]
                /\ \A j \in Slots : j < k => player_slots[j]

create_player(fd) == [fd |-> fd, connection_state |-> Handshaking]

\* Faulty variant: never uses the last slot.
allocate_player_Short(fd) ==
  LET Usable == 0 .. MaxPlayers - 2 IN
  \/ \E k \in Usable :
       /\ FirstFree(k)
       /\ players' = [players EXCEPT ![k] = create_player(fd)]
       /\ player_slots' = [player_slots EXCEPT ![k] = TRUE]
  \/ /\ \A k \in Usable : player_slots[k]
     /\ UNCHANGED <<players, player_slots>>

\* Takes the first free slot.  start_server ignores the -1 of a full table.
allocate_player(fd) ==
  \/ \E k \in Slots :
       /\ FirstFree(k)
       /\ players' = [players EXCEPT ![k] = create_player(fd)]
       /\ player_slots' = [player_slots EXCEPT ![k] = TRUE]
  \/ /\ \A k \in Slots : player_slots[k]
     /\ UNCHANGED <<players, player_slots>>

\* Faulty variant: the descriptor stays in master.
deallocate_player_NoClr(k) ==
  /\ Close(players[k].fd)
  /\ players' = [players EXCEPT ![k] = NoPlayer]
  /\ player_slots' = [player_slots EXCEPT ![k] = FALSE]
  /\ UNCHANGED master

\* FD_CLR, free_player (which closes the descriptor), slot free again.
deallocate_player(k) ==
  IF player_slots[k]
  THEN /\ master' = master \ {players[k].fd}
       /\ Close(players[k].fd)
       /\ players' = [players EXCEPT ![k] = NoPlayer]
       /\ player_slots' = [player_slots EXCEPT ![k] = FALSE]
  ELSE UNCHANGED <<master, players, player_slots, kernel>>

\* The occupied slots that hold f; the lookup takes the last of them.
SlotsOf(f) == {k \in Slots : player_slots[k] /\ players[k].fd = f}

\* Faulty variant: the last occupied slot, whatever its descriptor.
PlayerOf_Last(f, k) ==
  /\ player_slots[k]
  /\ \A j \in Slots : player_slots[j] => j <= k

PlayerOf(f, k) == k \in SlotsOf(f) /\ \A j \in SlotsOf(f) : j <= k

-----------------------------------------------------------------------------
(* The main loop.                                                          *)

Resume(rest) == IF rest = {} THEN "select" ELSE "scan"
NextFd(f) == pc = "scan" /\ f \in read_fds /\ \A g \in read_fds : f <= g
Visited(f) == /\ read_fds' = read_fds \ {f}
              /\ pc' = Resume(read_fds \ {f})
              /\ UNCHANGED <<i, player_num, buf, torn>>

\* Faulty variants: select() is given fdmax instead of fdmax+1; the scan
\* tests master instead of read_fds.
ReadyFds_Fdmax == {f \in master : f < fdmax /\ Readable(f)}
ReadyFds_Master ==
  IF \E f \in master : Readable(f) THEN {f \in master : f <= fdmax} ELSE {}

ReadyFds == {f \in master : f <= fdmax /\ Readable(f)}

\* Faulty variant: a failing select() is taken for one that timed out.
SelectFails_Ignored == FALSE

SelectFails == \E f \in master : f <= fdmax /\ ClosedFd(f)

\* The tick callback, which runs after select() returned and before its
\* result is looked at, may ask the server to stop.  A closed descriptor in
\* the set makes select() fail, and the program exit.
Select(stop) ==
  /\ pc = "select"
  /\ ~should_stop
  /\ should_stop' = stop
  /\ IF SelectFails
     THEN pc' = "exited" /\ UNCHANGED read_fds
     ELSE read_fds' = ReadyFds /\ pc' = Resume(ReadyFds)
  /\ UNCHANGED <<player_slots, players, master, fdmax, i, player_num, buf, torn,
                 kernel>>

Stop ==
  /\ pc = "select"
  /\ should_stop
  /\ pc' = "stopped"
  /\ UNCHANGED <<server, read_fds, i, player_num, buf, torn, kernel>>

\* Faulty variant: fdmax is one short.
raise_fdmax_Short(newfd) == fdmax' = IF newfd > fdmax THEN newfd - 1 ELSE fdmax
raise_fdmax(newfd) == fdmax' = IF newfd > fdmax THEN newfd ELSE fdmax

FreeFds == {f \in Fds : f # Listener /\ fdtable[f] = NoConn}

\* accept() gives the lowest free descriptor.  When setsockopt fails the
\* descriptor is closed, and then registered all the same.  The listening
\* socket blocks: with an empty queue this step, and the server, would wait.
Accept(ok) ==
  /\ NextFd(Listener)
  /\ queue # <<>>
  /\ queue' = Tail(queue)
  /\ \E newfd \in FreeFds :
       /\ \A f \in FreeFds : newfd <= f
       /\ IF ok THEN /\ fdtable' = [fdtable EXCEPT ![newfd] = Head(queue)]
                     /\ UNCHANGED <<inq, hungup, earned>>
                ELSE UNCHANGED fdtable /\ Forget(Head(queue))
       /\ master' = master \cup {newfd}
       /\ allocate_player(newfd)
       /\ raise_fdmax(newfd)
  /\ Visited(Listener)
  /\ UNCHANGED should_stop

\* accept() fails: no descriptor is left.  The connection stays queued.
AcceptFails ==
  /\ NextFd(Listener)
  /\ queue # <<>>
  /\ FreeFds = {}
  /\ Visited(Listener)
  /\ UNCHANGED <<server, kernel>>

\* read() returned 0 or -1 (hang-up, error, or nothing to read after all).
NothingRead(f) == f # Listener /\ (ClosedFd(f) \/ inq[fdtable[f]] = <<>>)

ReadClosed(f) ==
  /\ NextFd(f)
  /\ NothingRead(f)
  /\ \E k \in Slots : PlayerOf(f, k) /\ deallocate_player(k)
  /\ Visited(f)
  /\ UNCHANGED <<fdmax, should_stop>>

\* The same for a descriptor no player holds: deallocate_player(-1) reads
\* player_slots[-1].  If it is 0, the descriptor leaves master unclosed.
OrphanClosed(f) ==
  /\ NextFd(f)
  /\ NothingRead(f)
  /\ SlotsOf(f) = {}
  /\ \/ master' = master \ {f} /\ Visited(f)
     \/ /\ pc' = "undefined"
        /\ UNCHANGED <<master, read_fds, i, player_num, buf, torn>>
  /\ UNCHANGED <<player_slots, players, fdmax, should_stop, kernel>>

\* read() returned n packets, and perhaps the beginning of a length: look the
\* player up and go into handle_packet.
ReadData(f) ==
  /\ NextFd(f)
  /\ f # Listener
  /\ ~NothingRead(f)
  /\ \E n \in 0 .. Len(inq[fdtable[f]]) :
       LET c == fdtable[f] IN
       /\ torn' \in BOOLEAN
       /\ torn' => n < Len(inq[c])
       /\ n > 0 \/ torn'
       /\ buf' = SubSeq(inq[c], 1, n)
       /\ inq' = [inq EXCEPT ![c] = SubSeq(@, n + 1, Len(@))]
  /\ \E k \in Slots : PlayerOf(f, k) /\ player_num' = k
  /\ i' = f
  /\ read_fds' = read_fds \ {f}
  /\ pc' = "handle"
  /\ UNCHANGED <<server, fdtable, queue, hungup, earned>>

\* handle_packet(server, -1, ...) dereferences players[-1].
OrphanData(f) ==
  /\ NextFd(f)
  /\ f # Listener
  /\ ~NothingRead(f)
  /\ SlotsOf(f) = {}
  /\ pc' = "undefined"
  /\ UNCHANGED <<server, read_fds, i, player_num, buf, torn, kernel>>

BackToScan ==
  /\ pc' = Resume(read_fds)
  /\ i' = -1
  /\ player_num' = -1
  /\ buf' = <<>>
  /\ torn' = FALSE

\* What is left of the bytes behind the first packet, if anything.
HandleRest ==
  IF Len(buf) > 1 \/ torn
  THEN buf' = Tail(buf) /\ UNCHANGED <<pc, i, player_num, torn>>
  ELSE BackToScan

\* No length can be read: the player is dropped, as for a bad packet.
GiveUp ==
  /\ buf = <<>>
  /\ deallocate_player(player_num)
  /\ BackToScan
  /\ UNCHANGED <<fdmax, should_stop, read_fds>>

\* Faulty variant: after an error the rest of the bytes is still handled.
Refuse_GoesOn ==
  /\ buf # <<>>
  /\ Refused(players[player_num].connection_state, Head(buf))
  /\ deallocate_player(player_num)
  /\ HandleRest
  /\ UNCHANGED <<fdmax, should_stop, read_fds>>

\* A refused packet ends the player; otherwise handle_packet goes on with the
\* rest of the bytes it was given.
Refuse ==
  /\ buf # <<>>
  /\ Refused(players[player_num].connection_state, Head(buf))
  /\ deallocate_player(player_num)
  /\ BackToScan
  /\ UNCHANGED <<fdmax, should_stop, read_fds>>

Handle ==
  /\ buf # <<>>
  /\ LET p == Head(buf)
         state == players[player_num].connection_state
         c == fdtable[i]
     IN /\ ~Refused(state, p)
        /\ players' = [players EXCEPT ![player_num].connection_state =
                                         NextState(state, p)]
        /\ earned' = [earned EXCEPT ![c] = NextState(@, p)]
  /\ HandleRest
  /\ UNCHANGED <<player_slots, master, fdmax, should_stop, read_fds,
                 fdtable, queue, inq, hungup>>

\* One pass of handle_packet, which begins by following the player's pointer.
handle_packet ==
  /\ pc = "handle"
  /\ IF player_slots[player_num]
     THEN GiveUp \/ Refuse \/ Handle
     ELSE pc' = "undefined"
          /\ UNCHANGED <<server, read_fds, i, player_num, buf, torn, kernel>>

-----------------------------------------------------------------------------
Clients == \E c \in Conns : \/ Connect(c)
                            \/ \E p \in Packets : Send(c, p)
                            \/ HangUp(c)

Visit(f) == \/ ReadClosed(f)
            \/ OrphanClosed(f)
            \/ ReadData(f)
            \/ OrphanData(f)

\* A step of the server that no callback influences.
ServerStep == \/ Stop
              \/ Accept(TRUE)
              \/ AcceptFails
              \/ \E f \in Fds : Visit(f)
              \/ handle_packet

Ended == ~Running /\ UNCHANGED vars

Next == \/ Clients
        \/ \E stop \in BOOLEAN : Select(stop)
        \/ ServerStep
        \/ OptFails /\ Accept(FALSE)
        \/ Ended

Spec == Init /\ [][Next]_vars

\* The thread keeps running.  Nothing obliges the console to ask for a stop.
Fairness == WF_vars(Select(FALSE) \/ ServerStep)
FairSpec == Spec /\ Fairness

-----------------------------------------------------------------------------
(* Properties.                                                             *)

\* No two players hold the same descriptor, and none holds the listening
\* socket: the lookup by descriptor before a read (l.1113-1117) is exact, and
\* a deallocation closes nobody else's connection.
OneSlotPerFd ==
  \A j, k \in Slots :
    player_slots[j] /\ player_slots[k] /\ players[j].fd = players[k].fd
      => j = k /\ players[j].fd # Listener

\* Every client descriptor select() watches belongs to a player: the lookup
\* of l.1113-1119 never comes back with -1 ("very bad stuff").
NoOrphan ==
  Running => \A f \in master \ {Listener} : SlotsOf(f) # {}

\* What select() reported is still true when the scan gets there, whatever
\* was accepted, closed and reused earlier in the same scan: the read never
\* meets a closed or an idle descriptor (an EAGAIN would drop its player).
SnapshotFresh ==
  pc \in {"scan", "handle"} =>
    \A f \in read_fds : f \in master /\ f <= fdmax /\ Readable(f)

\* While handle_packet works through the bytes of a read, the player it was
\* given still exists and still holds the descriptor the bytes came from.
HandlerOwnsPlayer ==
  pc = "handle" => /\ buf # <<>> \/ torn
                   /\ SlotsOf(i) = {player_num}
                   /\ fdtable[i] # NoConn

\* A player's connection state is the one the packets of the connection it
\* stands for lead to: nothing is inherited through a reused slot or
\* descriptor, and no packet is credited to another player.
StateEarned ==
  \A k \in Slots :
    player_slots[k] /\ fdtable[players[k].fd] # NoConn
      => players[k].connection_state = earned[fdtable[players[k].fd]]

\* Every connection the server accepted and has not closed is watched by the
\* next select() and has a player: none is leaked or left without service.
NoneForgotten ==
  Running => \A f \in Fds : fdtable[f] # NoConn =>
               f \in master /\ f <= fdmax /\ SlotsOf(f) # {}

\* A step takes a connection away from its client only if the client hung
\* up, or if the bytes being handled are its own, and what is in front of
\* them is a packet to be refused or a length that is not all there.
DropsJustly ==
  \A f \in Fds : fdtable[f] # NoConn /\ fdtable'[f] # fdtable[f] =>
    \/ fdtable[f] \in hungup
    \/ /\ pc = "handle" /\ i = f
       /\ IF buf = <<>> THEN torn ELSE Refused(earned[fdtable[f]], Head(buf))
JustDrop == [][DropsJustly]_vars

\* A slot number, which the clients know as an entity id, stays with one
\* connection until the slot is given up.
KeepsConnections ==
  \A k \in Slots : player_slots[k] /\ player_slots'[k] =>
    /\ players'[k].fd = players[k].fd
    /\ fdtable'[players[k].fd] = fdtable[players[k].fd]
SlotStable == [][KeepsConnections]_vars

\* The program gives up only because a registered descriptor was closed
\* behind the select set, which only a failing setsockopt can do.
ExitsForACause == pc = "exited" => OptFails

\* A queued connection is accepted in the end, unless the server ends.
QueuedServed ==
  \A c \in Conns : c \in Queued ~> c \in Accepted \/ ~Running

\* The player of a client that hung up is let go in the end.
HangUpReleased ==
  \A c \in Conns : c \in hungup ~> c \notin hungup \/ ~Running
=============================================================================
