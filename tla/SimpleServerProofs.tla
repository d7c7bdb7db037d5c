------------------------- MODULE SimpleServerProofs -------------------------
(***************************************************************************)
(* Theorems about SimpleServer, for every number of players, descriptors,  *)
(* connections and packets, crowded or not, setsockopt failing or not; and *)
(* at the end, those that hold when it does not fail, or when the clients  *)
(* keep no more connections than there are slots.                          *)
(***************************************************************************)
EXTENDS SimpleServer, SequenceTheorems, FiniteSetTheorems, TLAPS

\* The slot flag says whether the slot has a player.
SlotsMatch == \A k \in Slots : player_slots[k] <=> players[k] # NoPlayer

\* The descriptor of a player is watched, and select() looks that far.
SlotsWatched ==
  /\ \A k \in Slots : player_slots[k] => players[k].fd \in master
  /\ \A f \in master : f <= fdmax

\* A connection is behind one descriptor or once in the queue, never both.
ConnsApart ==
  /\ fdtable[Listener] = NoConn
  /\ \A f, g \in Fds : fdtable[f] = fdtable[g] /\ fdtable[f] # NoConn => f = g
  /\ \A m, n \in 1 .. Len(queue) : queue[m] = queue[n] => m = n
  /\ \A n \in 1 .. Len(queue), f \in Fds : queue[n] # fdtable[f]

\* A connection that is not accepted has earned nothing.
NothingEarned ==
  \A c \in Conns : (\A f \in Fds : fdtable[f] # c) => earned[c] = Handshaking

\* Once a watched descriptor is closed nothing is accepted any more, so that
\* it is not given to another connection before select() fails.
NoAcceptAfterFailure ==
  /\ pc = "select" => read_fds = {}
  /\ pc = "handle" => i \notin read_fds
  /\ Running /\ (\E f \in master : ClosedFd(f)) => Listener \notin read_fds

IInv ==
  /\ TypeOK
  /\ SlotsMatch
  /\ OneSlotPerFd
  /\ SlotsWatched
  /\ ConnsApart
  /\ NothingEarned
  /\ SnapshotFresh
  /\ NoAcceptAfterFailure
  /\ HandlerOwnsPlayer
  /\ StateEarned

-----------------------------------------------------------------------------
(* Type correctness of the pieces.                                         *)

USE SizesAssumption, ListenerAssumption, ConnsAssumption, PacketsAssumption,
    SwitchesAssumption, NoPlayerAssumption

\* An accepted packet leads from a connection state to a connection state.
LEMMA NextStateType ==
  ASSUME NEW s \in ConnectionStates, NEW p, ~Refused(s, p)
  PROVE  NextState(s, p) \in ConnectionStates
BY DEF Refused, NextState, IsHandshake, Acknowledges, ConnectionStates,
       Handshaking, Login,
       Configuration, Play, LoginIntent

\* A fresh player is in a connection state.
LEMMA HandshakingType == Handshaking \in ConnectionStates
BY DEF Handshaking, ConnectionStates

\* The initial state satisfies the invariant.
LEMMA InitInv == Init => IInv
<1> SUFFICES ASSUME Init PROVE IInv
  OBVIOUS
<1>1. TypeOK
  BY HandshakingType DEF Init, TypeOK, Slots, Fds
<1>2. SlotsMatch /\ OneSlotPerFd /\ SlotsWatched
  BY DEF Init, SlotsMatch, OneSlotPerFd, SlotsWatched, Fds
<1>3. ConnsApart
  <2>1. Len(queue) = 0
    BY DEF Init
  <2> QED
    BY <2>1 DEF Init, ConnsApart
<1>4. NothingEarned /\ SnapshotFresh /\ NoAcceptAfterFailure /\ HandlerOwnsPlayer
  BY DEF Init, NothingEarned, SnapshotFresh, NoAcceptAfterFailure,
         HandlerOwnsPlayer, ClosedFd, Running
<1>5. StateEarned
  BY DEF Init, StateEarned
<1> QED
  BY <1>1, <1>2, <1>3, <1>4, <1>5 DEF IInv

-----------------------------------------------------------------------------
(* The clients' steps.                                                     *)

\* A client connects: only the accept queue changes.
LEMMA ConnectInv ==
  ASSUME IInv, NEW c \in Conns, Connect(c)
  PROVE  IInv'
<1> USE DEF Connect, server, scan
<1>1. TypeOK'
  BY DEF IInv, TypeOK
<1>2. /\ queue \in Seq(Conns)
      /\ queue' \in Seq(Conns)
      /\ Len(queue') = Len(queue) + 1
      /\ \A n \in 1 .. Len(queue) : queue'[n] = queue[n]
      /\ queue'[Len(queue) + 1] = c
  BY DEF IInv, TypeOK
<1>3. ConnsApart'
  <2>1. \A n \in 1 .. Len(queue) : queue[n] # c
    BY DEF Live, Queued
  <2>2. \A f \in Fds : fdtable[f] # c
    BY ConnsAssumption DEF Live, Accepted
  <2>3. \A m, n \in 1 .. Len(queue') : queue'[m] = queue'[n] => m = n
    BY <1>2, <2>1 DEF IInv, ConnsApart
  <2>4. \A n \in 1 .. Len(queue'), f \in Fds : queue'[n] # fdtable'[f]
    BY <1>2, <2>2 DEF IInv, ConnsApart
  <2> QED
    BY <2>3, <2>4 DEF IInv, ConnsApart
<1>4. \A f \in Fds : Readable(f) => Readable(f)'
  BY <1>2 DEF Readable
<1>5. SnapshotFresh'
  BY <1>4 DEF IInv, TypeOK, SnapshotFresh
<1>6. (SlotsMatch /\ OneSlotPerFd /\ SlotsWatched /\ NothingEarned /\ StateEarned)'
  BY DEF IInv, SlotsMatch, OneSlotPerFd, SlotsWatched, NothingEarned, StateEarned
<1>7. (NoAcceptAfterFailure /\ HandlerOwnsPlayer)'
  BY DEF IInv, NoAcceptAfterFailure, HandlerOwnsPlayer, SlotsOf, ClosedFd, Running
<1> QED
  BY <1>1, <1>3, <1>5, <1>6, <1>7 DEF IInv

\* A client sends: what was readable stays readable.
LEMMA SendInv ==
  ASSUME IInv, NEW c \in Conns, NEW p \in Packets, Send(c, p)
  PROVE  IInv'
<1> USE DEF Send, server, scan
<1>1. TypeOK'
  BY DEF IInv, TypeOK
<1>2. \A d \in Conns : inq[d] # <<>> => inq'[d] # <<>>
  BY DEF IInv, TypeOK
<1>3. \A f \in Fds : Readable(f) => Readable(f)'
  BY <1>2 DEF IInv, TypeOK, Readable
<1>4. SnapshotFresh'
  BY <1>3 DEF IInv, TypeOK, SnapshotFresh
<1>5. (SlotsMatch /\ OneSlotPerFd /\ SlotsWatched /\ ConnsApart /\ NothingEarned
        /\ StateEarned)'
  BY DEF IInv, SlotsMatch, OneSlotPerFd, SlotsWatched, ConnsApart,
         NothingEarned, StateEarned
<1>6. (NoAcceptAfterFailure /\ HandlerOwnsPlayer)'
  BY DEF IInv, NoAcceptAfterFailure, HandlerOwnsPlayer, SlotsOf, ClosedFd, Running
<1> QED
  BY <1>1, <1>4, <1>5, <1>6 DEF IInv

\* A client hangs up: its descriptor becomes readable, or stays so.
LEMMA HangUpInv ==
  ASSUME IInv, NEW c \in Conns, HangUp(c)
  PROVE  IInv'
<1> USE DEF HangUp, server, scan
<1>1. TypeOK'
  <2>1. <<>> \in Seq(Packets)
    OBVIOUS
  <2>2. inq' \in [Conns -> Seq(Packets)]
    BY <2>1 DEF IInv, TypeOK
  <2> QED
    BY <2>2 DEF IInv, TypeOK
<1>2. \A d \in Conns : inq[d] # <<>> \/ d \in hungup =>
                        inq'[d] # <<>> \/ d \in hungup'
  BY DEF IInv, TypeOK
<1>3. \A f \in Fds : Readable(f) => Readable(f)'
  BY <1>2 DEF IInv, TypeOK, Readable
<1>4. SnapshotFresh'
  BY <1>3 DEF IInv, TypeOK, SnapshotFresh
<1>5. (SlotsMatch /\ OneSlotPerFd /\ SlotsWatched /\ ConnsApart /\ NothingEarned
        /\ StateEarned)'
  BY DEF IInv, SlotsMatch, OneSlotPerFd, SlotsWatched, ConnsApart,
         NothingEarned, StateEarned
<1>6. (NoAcceptAfterFailure /\ HandlerOwnsPlayer)'
  BY DEF IInv, NoAcceptAfterFailure, HandlerOwnsPlayer, SlotsOf, ClosedFd, Running
<1> QED
  BY <1>1, <1>4, <1>5, <1>6 DEF IInv

-----------------------------------------------------------------------------
(* The server's steps.                                                     *)

\* After a descriptor the scan goes on, or the loop starts over.
LEMMA ResumeType == \A rest : Resume(rest) \in {"select", "scan"}
BY DEF Resume

\* select() fills the ready set with fresh facts only.
LEMMA SelectInv ==
  ASSUME IInv, NEW stop \in BOOLEAN, Select(stop)
  PROVE  IInv'
<1> USE DEF Select, kernel
<1>1. TypeOK'
  BY ResumeType DEF IInv, TypeOK, ReadyFds
<1>2. SnapshotFresh'
  <2>1. CASE SelectFails
    BY <2>1 DEF SnapshotFresh
  <2>2. CASE ~SelectFails
    <3>1. \A f \in read_fds' : f \in master /\ f <= fdmax /\ Readable(f)
      BY <2>2 DEF ReadyFds
    <3> QED
      BY <3>1 DEF SnapshotFresh, Readable
  <2> QED
    BY <2>1, <2>2
<1>3. NoAcceptAfterFailure'
  <2>1. CASE SelectFails
    BY <2>1 DEF NoAcceptAfterFailure, Running
  <2>2. CASE ~SelectFails
    <3>1. ~ \E f \in master : ClosedFd(f)
      BY <2>2 DEF SelectFails, IInv, SlotsWatched
    <3>2. ~ \E f \in master' : ClosedFd(f)'
      BY <3>1 DEF ClosedFd
    <3> QED
      BY <2>2, <3>2 DEF NoAcceptAfterFailure, Resume
  <2> QED
    BY <2>1, <2>2
<1>4. (SlotsMatch /\ OneSlotPerFd /\ SlotsWatched /\ ConnsApart /\ NothingEarned
        /\ StateEarned)'
  BY DEF IInv, SlotsMatch, OneSlotPerFd, SlotsWatched, ConnsApart,
         NothingEarned, StateEarned
<1>5. HandlerOwnsPlayer'
  BY DEF HandlerOwnsPlayer, Resume
<1> QED
  BY <1>1, <1>2, <1>3, <1>4, <1>5 DEF IInv

\* The main loop ends.
LEMMA StopInv ==
  ASSUME IInv, Stop
  PROVE  IInv'
<1> USE DEF Stop, server, kernel
<1>1. TypeOK'
  BY DEF IInv, TypeOK
<1>2. (SlotsMatch /\ OneSlotPerFd /\ SlotsWatched /\ ConnsApart /\ NothingEarned
        /\ StateEarned)'
  BY DEF IInv, SlotsMatch, OneSlotPerFd, SlotsWatched, ConnsApart,
         NothingEarned, StateEarned
<1>3. (SnapshotFresh /\ NoAcceptAfterFailure /\ HandlerOwnsPlayer)'
  BY DEF SnapshotFresh, NoAcceptAfterFailure, HandlerOwnsPlayer, Running
<1> QED
  BY <1>1, <1>2, <1>3 DEF IInv

\* A step that goes on to the next ready descriptor and changes nothing else.
LEMMA AcceptFailsInv ==
  ASSUME IInv, AcceptFails
  PROVE  IInv'
<1> USE DEF AcceptFails, Visited, server, kernel
<1>1. TypeOK'
  BY ResumeType DEF IInv, TypeOK
<1>2. (SlotsMatch /\ OneSlotPerFd /\ SlotsWatched /\ ConnsApart /\ NothingEarned
        /\ StateEarned)'
  BY DEF IInv, SlotsMatch, OneSlotPerFd, SlotsWatched, ConnsApart,
         NothingEarned, StateEarned
<1>3. SnapshotFresh'
  BY DEF IInv, NextFd, SnapshotFresh, Readable
<1>4. NoAcceptAfterFailure'
  BY DEF IInv, NextFd, NoAcceptAfterFailure, Resume, Running, ClosedFd
<1>5. HandlerOwnsPlayer'
  BY DEF HandlerOwnsPlayer, Resume
<1> QED
  BY <1>1, <1>2, <1>3, <1>4, <1>5 DEF IInv

\* deallocate_player keeps the tables consistent: the connection it closes
\* is behind no other descriptor, and the descriptor belongs to no other
\* player and leaves the set that select() watches.
LEMMA DeallocateInv ==
  ASSUME IInv, NEW k \in Slots, player_slots[k], deallocate_player(k),
         UNCHANGED <<fdmax, should_stop>>
  PROVE  /\ player_slots' \in [Slots -> BOOLEAN]
         /\ players' \in [Slots -> Player \cup {NoPlayer}]
         /\ master' \in SUBSET Fds
         /\ fdtable' \in [Fds -> Conns \cup {NoConn}]
         /\ queue' \in Seq(Conns)
         /\ inq' \in [Conns -> Seq(Packets)]
         /\ hungup' \in SUBSET Conns
         /\ earned' \in [Conns -> ConnectionStates]
         /\ (SlotsMatch /\ OneSlotPerFd /\ SlotsWatched /\ ConnsApart
              /\ NothingEarned /\ StateEarned)'
         /\ \A f \in Fds : Readable(f) /\ f # players[k].fd => Readable(f)'
         /\ \A f \in master' : f \in master /\ (ClosedFd(f)' => ClosedFd(f))
<1> DEFINE fd == players[k].fd
           c == fdtable[fd]
<1>1. /\ fd \in Fds /\ fd # Listener
      /\ \A j \in Slots : player_slots[j] /\ j # k => players[j].fd # fd
  BY DEF IInv, TypeOK, SlotsMatch, OneSlotPerFd, Player
<1>2. /\ master' = master \ {fd}
      /\ players' = [players EXCEPT ![k] = NoPlayer]
      /\ player_slots' = [player_slots EXCEPT ![k] = FALSE]
      /\ fdtable' = [fdtable EXCEPT ![fd] = NoConn]
      /\ queue' = queue
      /\ \/ c = NoConn /\ UNCHANGED <<inq, hungup, earned>>
         \/ /\ c \in Conns
            /\ inq' = [inq EXCEPT ![c] = <<>>]
            /\ hungup' = hungup \ {c}
            /\ earned' = [earned EXCEPT ![c] = Handshaking]
  BY <1>1 DEF deallocate_player, Close, Forget, IInv, TypeOK
<1>3. \A f \in Fds : f # fd => fdtable'[f] = fdtable[f]
  BY <1>1, <1>2 DEF IInv, TypeOK
<1>4. \A f \in Fds : f # fd /\ fdtable[f] # NoConn => fdtable[f] # c
  BY <1>1 DEF IInv, ConnsApart
<1>5. \A d \in Conns : d # c => /\ inq'[d] = inq[d]
                                /\ d \in hungup' <=> d \in hungup
                                /\ earned'[d] = earned[d]
  BY <1>2 DEF IInv, TypeOK
<1>6. <<>> \in Seq(Packets)
  OBVIOUS
<1>7. /\ player_slots' \in [Slots -> BOOLEAN]
      /\ players' \in [Slots -> Player \cup {NoPlayer}]
      /\ master' \in SUBSET Fds
      /\ fdtable' \in [Fds -> Conns \cup {NoConn}]
      /\ queue' \in Seq(Conns)
  BY <1>1, <1>2 DEF IInv, TypeOK
<1>8. /\ inq' \in [Conns -> Seq(Packets)]
      /\ hungup' \in SUBSET Conns
      /\ earned' \in [Conns -> ConnectionStates]
  <2>1. CASE c = NoConn /\ UNCHANGED <<inq, hungup, earned>>
    BY <2>1 DEF IInv, TypeOK
  <2>2. CASE /\ c \in Conns
             /\ inq' = [inq EXCEPT ![c] = <<>>]
             /\ hungup' = hungup \ {c}
             /\ earned' = [earned EXCEPT ![c] = Handshaking]
    <3>1. inq' \in [Conns -> Seq(Packets)]
      BY <1>6, <2>2 DEF IInv, TypeOK
    <3>2. hungup' \in SUBSET Conns
      BY <2>2 DEF IInv, TypeOK
    <3>3. earned' \in [Conns -> ConnectionStates]
      BY <2>2, HandshakingType DEF IInv, TypeOK
    <3> QED
      BY <3>1, <3>2, <3>3
  <2> QED
    BY <1>2, <2>1, <2>2
<1>9. \A j \in Slots : /\ player_slots'[j] <=> player_slots[j] /\ j # k
                       /\ j # k => players'[j] = players[j]
                       /\ players'[k] = NoPlayer
  BY <1>2 DEF IInv, TypeOK
<1>10. (SlotsMatch /\ OneSlotPerFd /\ SlotsWatched)'
  BY <1>1, <1>2, <1>9
     DEF IInv, TypeOK, SlotsMatch, OneSlotPerFd, SlotsWatched
<1>11. ConnsApart'
  <2>1. fdtable'[Listener] = NoConn
    BY <1>1, <1>3 DEF IInv, ConnsApart
  <2>2. \A f, g \in Fds : fdtable'[f] = fdtable'[g] /\ fdtable'[f] # NoConn
                            => f = g
    BY <1>1, <1>2, <1>3 DEF IInv, TypeOK, ConnsApart
  <2>3. \A n \in 1 .. Len(queue), f \in Fds : queue[n] # fdtable'[f]
    <3>1. \A n \in 1 .. Len(queue) : queue[n] # NoConn
      BY ElementOfSeq DEF IInv, TypeOK
    <3> QED
      BY <1>1, <1>2, <1>3, <3>1 DEF IInv, TypeOK, ConnsApart
  <2> QED
    BY <1>2, <2>1, <2>2, <2>3 DEF IInv, ConnsApart
<1>12. NothingEarned'
  <2> SUFFICES ASSUME NEW d \in Conns, \A f \in Fds : fdtable'[f] # d
               PROVE  earned'[d] = Handshaking
    BY DEF NothingEarned
  <2>1. CASE d = c
    BY <1>2, <2>1 DEF IInv, TypeOK
  <2>2. CASE d # c
    BY <1>3, <1>5, <2>2 DEF IInv, NothingEarned
  <2> QED
    BY <2>1, <2>2
<1>13. StateEarned'
  <2> SUFFICES ASSUME NEW j \in Slots, player_slots'[j],
                      fdtable'[players'[j].fd] # NoConn
               PROVE  players'[j].connection_state = earned'[fdtable'[players'[j].fd]]
    BY DEF StateEarned
  <2>1. j # k /\ player_slots[j] /\ players'[j] = players[j]
    BY <1>9
  <2>2. players[j].fd \in Fds /\ players[j].fd # fd
    BY <1>1, <2>1 DEF IInv, TypeOK, SlotsMatch, Player
  <2>3. /\ fdtable'[players[j].fd] = fdtable[players[j].fd]
        /\ fdtable[players[j].fd] # c
        /\ fdtable[players[j].fd] \in Conns
    BY <1>3, <1>4, <2>1, <2>2 DEF IInv, TypeOK
  <2> QED
    BY <1>5, <2>1, <2>3 DEF IInv, StateEarned
<1>14. \A f \in Fds : Readable(f) /\ f # fd => Readable(f)'
  <2> SUFFICES ASSUME NEW f \in Fds, Readable(f), f # fd
               PROVE  Readable(f)'
    OBVIOUS
  <2>1. CASE f = Listener
    BY <1>2, <2>1 DEF Readable
  <2>2. CASE f # Listener
    <3>1. fdtable[f] \in Conns /\ fdtable[f] # c /\ fdtable'[f] = fdtable[f]
      BY <1>3, <1>4, <2>2 DEF Readable, IInv, TypeOK
    <3> QED
      BY <1>5, <2>2, <3>1 DEF Readable
  <2> QED
    BY <2>1, <2>2
<1>15. \A f \in master' : f \in master /\ (ClosedFd(f)' => ClosedFd(f))
  BY <1>2, <1>3 DEF ClosedFd, IInv, TypeOK
<1> QED
  BY <1>7, <1>8, <1>10, <1>11, <1>12, <1>13, <1>14, <1>15

\* What deallocate_player and a scan that has left its descriptor behind
\* make of the parts of the invariant that speak of the scan.
LEMMA AfterDeallocate ==
  ASSUME IInv, NEW k \in Slots, player_slots[k], deallocate_player(k),
         UNCHANGED <<fdmax, should_stop>>,
         pc \in {"scan", "handle"}, pc' = Resume(read_fds'),
         read_fds' \subseteq read_fds, players[k].fd \notin read_fds',
         i' \in Fds \cup {-1}, player_num' \in Slots \cup {-1},
         buf' \in Seq(Packets), torn' \in BOOLEAN
  PROVE  IInv'
<1>1. TypeOK'
  BY DeallocateInv, ResumeType DEF IInv, TypeOK
<1>2. (SlotsMatch /\ OneSlotPerFd /\ SlotsWatched /\ ConnsApart
        /\ NothingEarned /\ StateEarned)'
  BY DeallocateInv
<1>3. master' = master \ {players[k].fd}
  BY DEF deallocate_player
<1>4. SnapshotFresh'
  <2>1. \A f \in read_fds' : /\ f \in master /\ f <= fdmax /\ Readable(f)
                            /\ f \in Fds /\ f # players[k].fd
    BY DEF IInv, TypeOK, SnapshotFresh
  <2>2. \A f \in read_fds' : Readable(f)'
    BY <2>1, DeallocateInv
  <2> QED
    BY <1>3, <2>1, <2>2 DEF SnapshotFresh
<1>5. NoAcceptAfterFailure'
  <2>1. pc' = "select" => read_fds' = {}
    BY DEF Resume
  <2>2. pc' # "handle"
    BY DEF Resume
  <2>3. (\E f \in master' : ClosedFd(f)') => \E f \in master : ClosedFd(f)
    BY DeallocateInv
  <2>4. (\E f \in master' : ClosedFd(f)') => Listener \notin read_fds'
    BY <2>3 DEF IInv, NoAcceptAfterFailure, Running
  <2> QED
    BY <2>1, <2>2, <2>4 DEF NoAcceptAfterFailure
<1>6. HandlerOwnsPlayer'
  BY DEF HandlerOwnsPlayer, Resume
<1> QED
  BY <1>1, <1>2, <1>4, <1>5, <1>6 DEF IInv

\* The scan drops a player whose read returned nothing.
LEMMA ReadClosedInv ==
  ASSUME IInv, NEW f \in Fds, ReadClosed(f)
  PROVE  IInv'
<1>1. PICK k \in Slots : PlayerOf(f, k) /\ deallocate_player(k)
  BY DEF ReadClosed
<1>2. player_slots[k] /\ players[k].fd = f
  BY <1>1 DEF PlayerOf, SlotsOf
<1>3. /\ pc = "scan" /\ pc' = Resume(read_fds')
      /\ read_fds' = read_fds \ {f}
      /\ UNCHANGED <<fdmax, should_stop, i, player_num, buf, torn>>
  BY DEF ReadClosed, NextFd, Visited
<1> QED
  BY <1>1, <1>2, <1>3, AfterDeallocate DEF IInv, TypeOK

\* A pass of handle_packet drops the player it serves, or handles a packet.
Dismiss == pc = "handle" /\ (GiveUp \/ Refuse)
Proceed == pc = "handle" /\ Handle

LEMMA Passes ==
  ASSUME IInv, handle_packet
  PROVE  /\ Dismiss \/ Proceed
         /\ player_num \in Slots /\ player_slots[player_num]
         /\ players[player_num].fd = i
<1>1. pc = "handle"
  BY DEF handle_packet
<1>2. /\ player_num \in Slots /\ player_slots[player_num]
      /\ players[player_num].fd = i
  BY <1>1 DEF IInv, HandlerOwnsPlayer, SlotsOf
<1>3. GiveUp \/ Refuse \/ Handle
  BY <1>2 DEF handle_packet
<1> QED
  BY <1>1, <1>2, <1>3, Zenon DEF Dismiss, Proceed

LEMMA DismissIs ==
  ASSUME IInv, Dismiss
  PROVE  /\ pc = "handle"
         /\ player_num \in Slots /\ player_slots[player_num]
         /\ players[player_num].fd = i
         /\ deallocate_player(player_num)
         /\ pc' = Resume(read_fds) /\ i' = -1 /\ player_num' = -1
         /\ buf' = <<>> /\ torn' = FALSE
         /\ UNCHANGED <<fdmax, should_stop, read_fds>>
<1>1. pc = "handle"
  BY DEF Dismiss
<1>2. /\ player_num \in Slots /\ player_slots[player_num]
      /\ players[player_num].fd = i
  BY <1>1 DEF IInv, HandlerOwnsPlayer, SlotsOf
<1>3. /\ deallocate_player(player_num) /\ BackToScan
      /\ UNCHANGED <<fdmax, should_stop, read_fds>>
  <2>1. CASE GiveUp
    BY <2>1, Zenon DEF GiveUp
  <2>2. CASE Refuse
    BY <2>2, Zenon DEF Refuse
  <2> QED
    BY <2>1, <2>2 DEF Dismiss
<1> QED
  BY <1>1, <1>2, <1>3 DEF BackToScan

\* handle_packet drops the player it serves.
LEMMA DismissInv ==
  ASSUME IInv, Dismiss
  PROVE  IInv'
<1>1. i \notin read_fds
  BY DismissIs DEF IInv, NoAcceptAfterFailure
<1>2. <<>> \in Seq(Packets)
  OBVIOUS
<1> QED
  BY <1>1, <1>2, DismissIs, AfterDeallocate

\* The read of a descriptor without a player returned nothing.
LEMMA OrphanClosedInv ==
  ASSUME IInv, NEW f \in Fds, OrphanClosed(f)
  PROVE  IInv'
<1> USE DEF OrphanClosed, kernel
<1>1. pc = "scan" /\ f \in read_fds
  BY DEF NextFd
<1>2. CASE master' = master \ {f} /\ Visited(f)
  <2> USE <1>2 DEF Visited
  <2>1. TypeOK'
    BY ResumeType DEF IInv, TypeOK
  <2>2. (SlotsMatch /\ OneSlotPerFd /\ ConnsApart /\ NothingEarned /\ StateEarned)'
    BY DEF IInv, SlotsMatch, OneSlotPerFd, ConnsApart, NothingEarned, StateEarned
  <2>3. SlotsWatched'
    BY DEF IInv, SlotsWatched, SlotsOf
  <2>4. SnapshotFresh'
    BY <1>1 DEF IInv, SnapshotFresh, Readable
  <2>5. NoAcceptAfterFailure'
    BY <1>1 DEF IInv, NoAcceptAfterFailure, Resume, Running, ClosedFd
  <2>6. HandlerOwnsPlayer'
    BY DEF HandlerOwnsPlayer, Resume
  <2> QED
    BY <2>1, <2>2, <2>3, <2>4, <2>5, <2>6 DEF IInv
<1>3. CASE /\ pc' = "undefined"
           /\ UNCHANGED <<master, read_fds, i, player_num, buf, torn>>
  <2> USE <1>3
  <2>1. TypeOK'
    BY DEF IInv, TypeOK
  <2>2. (SlotsMatch /\ OneSlotPerFd /\ SlotsWatched /\ ConnsApart
          /\ NothingEarned /\ StateEarned)'
    BY DEF IInv, SlotsMatch, OneSlotPerFd, SlotsWatched, ConnsApart,
           NothingEarned, StateEarned
  <2>3. (SnapshotFresh /\ NoAcceptAfterFailure /\ HandlerOwnsPlayer)'
    BY DEF SnapshotFresh, NoAcceptAfterFailure, HandlerOwnsPlayer, Running
  <2> QED
    BY <2>1, <2>2, <2>3 DEF IInv
<1> QED
  BY <1>2, <1>3

\* The read of a descriptor without a player returned bytes.
LEMMA OrphanDataInv ==
  ASSUME IInv, NEW f \in Fds, OrphanData(f)
  PROVE  IInv'
<1> USE DEF OrphanData, server, kernel
<1>1. TypeOK'
  BY DEF IInv, TypeOK
<1>2. (SlotsMatch /\ OneSlotPerFd /\ SlotsWatched /\ ConnsApart
        /\ NothingEarned /\ StateEarned)'
  BY DEF IInv, SlotsMatch, OneSlotPerFd, SlotsWatched, ConnsApart,
         NothingEarned, StateEarned
<1>3. (SnapshotFresh /\ NoAcceptAfterFailure /\ HandlerOwnsPlayer)'
  BY DEF SnapshotFresh, NoAcceptAfterFailure, HandlerOwnsPlayer, Running
<1> QED
  BY <1>1, <1>2, <1>3 DEF IInv

\* The scan hands the bytes of a read to handle_packet.
LEMMA ReadDataInv ==
  ASSUME IInv, NEW f \in Fds, ReadData(f)
  PROVE  IInv'
<1> DEFINE c == fdtable[f]
<1>1. /\ pc = "scan" /\ f \in read_fds /\ f # Listener
      /\ ~NothingRead(f)
      /\ i' = f /\ read_fds' = read_fds \ {f} /\ pc' = "handle"
      /\ UNCHANGED <<server, fdtable, queue, hungup, earned>>
  BY DEF ReadData, NextFd
<1>2. c \in Conns /\ inq[c] \in Seq(Packets)
  BY <1>1 DEF NothingRead, ClosedFd, IInv, TypeOK
<1>3. PICK n \in 0 .. Len(inq[c]) :
        /\ torn' \in BOOLEAN /\ (n > 0 \/ torn')
        /\ buf' = SubSeq(inq[c], 1, n)
        /\ inq' = [inq EXCEPT ![c] = SubSeq(@, n + 1, Len(@))]
  BY DEF ReadData
<1>4. PICK k \in Slots : PlayerOf(f, k) /\ player_num' = k
  BY DEF ReadData
<1>5. buf' \in Seq(Packets) /\ torn' \in BOOLEAN /\ (buf' # <<>> \/ torn')
  <2>1. \A m \in 1 .. n : inq[c][m] \in Packets
    BY <1>2, <1>3, ElementOfSeq, LenProperties
  <2>2. buf' \in Seq(Packets) /\ Len(buf') = n
    BY <1>3, <2>1, SubSeqProperties, LenProperties, <1>2
  <2> QED
    BY <1>2, <1>3, <2>2, LenProperties
<1>6. SubSeq(inq[c], n + 1, Len(inq[c])) \in Seq(Packets)
  <2>1. \A m \in n + 1 .. Len(inq[c]) : inq[c][m] \in Packets
    BY <1>2, <1>3, ElementOfSeq, LenProperties
  <2> QED
    BY <1>2, <1>3, <2>1, SubSeqProperties, LenProperties
<1>7. inq' \in [Conns -> Seq(Packets)]
  BY <1>2, <1>3, <1>6 DEF IInv, TypeOK
<1>8. TypeOK'
  BY <1>1, <1>4, <1>5, <1>7 DEF IInv, TypeOK, server
<1>9. (SlotsMatch /\ OneSlotPerFd /\ SlotsWatched /\ ConnsApart
        /\ NothingEarned /\ StateEarned)'
  BY <1>1 DEF IInv, SlotsMatch, OneSlotPerFd, SlotsWatched, ConnsApart,
              NothingEarned, StateEarned, server
<1>10. SnapshotFresh'
  <2>1. \A g \in Fds : g # f /\ fdtable[g] # NoConn => fdtable[g] # c
    BY <1>2 DEF IInv, ConnsApart
  <2>2. \A d \in Conns : d # c => inq'[d] = inq[d]
    BY <1>3, <1>2 DEF IInv, TypeOK
  <2>3. \A g \in Fds : g # f /\ Readable(g) => Readable(g)'
    BY <1>1, <2>1, <2>2 DEF Readable, IInv, TypeOK
  <2> QED
    BY <1>1, <2>3 DEF IInv, TypeOK, SnapshotFresh, server
<1>11. NoAcceptAfterFailure'
  BY <1>1 DEF IInv, NoAcceptAfterFailure, Running, ClosedFd, server
<1>12. HandlerOwnsPlayer'
  <2>1. SlotsOf(f) = {k}
    BY <1>4 DEF PlayerOf, SlotsOf, IInv, OneSlotPerFd
  <2>2. SlotsOf(i)' = {k}
    BY <1>1, <2>1 DEF SlotsOf, server
  <2> QED
    BY <1>1, <1>2, <1>4, <1>5, <2>2, ConnsAssumption DEF HandlerOwnsPlayer
<1> QED
  BY <1>8, <1>9, <1>10, <1>11, <1>12 DEF IInv

\* handle_packet handles a packet of the player it serves.
LEMMA HandleInv ==
  ASSUME IInv, Proceed
  PROVE  IInv'
<1> DEFINE state == players[player_num].connection_state
           c == fdtable[i]
           p == Head(buf)
<1>1. /\ pc = "handle"
      /\ ~Refused(state, p)
      /\ players' = [players EXCEPT ![player_num].connection_state =
                                      NextState(state, p)]
      /\ earned' = [earned EXCEPT ![c] = NextState(@, p)]
      /\ UNCHANGED <<player_slots, master, fdmax, should_stop, read_fds,
                     fdtable, queue, inq, hungup>>
      /\ buf # <<>>
  BY DEF Proceed, Handle
<1>2. /\ player_num \in Slots /\ player_slots[player_num]
      /\ players[player_num] \in Player /\ players[player_num].fd = i
      /\ i \in Fds /\ c \in Conns /\ buf # <<>> /\ i \notin read_fds
  BY <1>1 DEF IInv, TypeOK, HandlerOwnsPlayer, SlotsOf, SlotsMatch, Player,
              NoAcceptAfterFailure
<1>3. state \in ConnectionStates /\ earned[c] = state
  BY <1>2, ConnsAssumption DEF Player, IInv, StateEarned
<1>4. NextState(state, p) \in ConnectionStates
  BY <1>1, <1>3, NextStateType
<1>5. /\ players'[player_num] =
           [players[player_num] EXCEPT !.connection_state = NextState(state, p)]
      /\ players'[player_num] \in Player
      /\ players'[player_num].fd = i
      /\ players'[player_num].connection_state = NextState(state, p)
      /\ \A j \in Slots : j # player_num => players'[j] = players[j]
  BY <1>1, <1>2, <1>4 DEF IInv, TypeOK, Player
<1>6. players' \in [Slots -> Player \cup {NoPlayer}]
  BY <1>1, <1>5 DEF IInv, TypeOK
<1>7. /\ earned' \in [Conns -> ConnectionStates]
      /\ earned'[c] = NextState(state, p)
      /\ \A d \in Conns : d # c => earned'[d] = earned[d]
  BY <1>1, <1>2, <1>3, <1>4 DEF IInv, TypeOK
<1>8. \/ /\ buf' = Tail(buf) /\ (Len(buf) > 1 \/ torn)
         /\ UNCHANGED <<pc, i, player_num, torn>>
      \/ BackToScan
  BY DEF Proceed, Handle, HandleRest
<1>8a. buf \in Seq(Packets)
  BY DEF IInv, TypeOK
<1>9. TypeOK'
  <2>1. buf' \in Seq(Packets)
    <3>1. Tail(buf) \in Seq(Packets) /\ <<>> \in Seq(Packets)
      BY <1>2, <1>8a, HeadTailProperties, EmptySeq
    <3> QED
      BY <1>8, <3>1 DEF BackToScan
  <2> QED
    BY <1>1, <1>6, <1>7, <1>8, <2>1, ResumeType DEF IInv, TypeOK, BackToScan
<1>10. \A j \in Slots : player_slots[j] => players'[j].fd = players[j].fd
  BY <1>2, <1>5
<1>11. (SlotsMatch /\ OneSlotPerFd /\ SlotsWatched /\ ConnsApart)'
  BY <1>1, <1>2, <1>5, <1>10, NoPlayerAssumption
     DEF IInv, SlotsMatch, OneSlotPerFd, SlotsWatched, ConnsApart
<1>12. NothingEarned'
  BY <1>1, <1>2, <1>7 DEF IInv, NothingEarned
<1>13. StateEarned'
  <2> SUFFICES ASSUME NEW j \in Slots, player_slots[j],
                      fdtable[players'[j].fd] # NoConn
               PROVE  players'[j].connection_state = earned'[fdtable[players'[j].fd]]
    BY <1>1 DEF StateEarned
  <2>1. CASE j = player_num
    BY <1>5, <1>7, <2>1
  <2>2. CASE j # player_num
    <3>1. players[j].fd \in Fds /\ players[j].fd # i
      BY <1>2, <2>2 DEF IInv, TypeOK, SlotsMatch, OneSlotPerFd, Player
    <3>2. fdtable[players[j].fd] \in Conns /\ fdtable[players[j].fd] # c
      BY <1>2, <1>10, <3>1 DEF IInv, TypeOK, ConnsApart
    <3> QED
      BY <1>5, <1>7, <1>10, <2>2, <3>2 DEF IInv, StateEarned
  <2> QED
    BY <2>1, <2>2
<1>14. SnapshotFresh'
  BY <1>1 DEF IInv, SnapshotFresh, Readable
<1>15. NoAcceptAfterFailure'
  BY <1>1, <1>8
     DEF IInv, NoAcceptAfterFailure, Running, ClosedFd, BackToScan, Resume
<1>16. HandlerOwnsPlayer'
  <2>1. CASE /\ buf' = Tail(buf) /\ (Len(buf) > 1 \/ torn)
             /\ UNCHANGED <<pc, i, player_num, torn>>
    <3>1. buf' # <<>> \/ torn'
      <4>1. CASE torn
        BY <2>1, <4>1
      <4>2. CASE Len(buf) > 1
        <5>1. Len(Tail(buf)) = Len(buf) - 1 /\ Len(buf) \in Nat
          BY <1>2, <1>8a, HeadTailProperties, LenProperties
        <5>2. Len(buf') > 0
          BY <2>1, <4>2, <5>1
        <5>3. Len(<<>>) = 0
          BY EmptySeq
        <5> QED
          BY <5>2, <5>3
      <4> QED
        BY <2>1, <4>1, <4>2
    <3>2. SlotsOf(i)' = SlotsOf(i)
      BY <1>1, <1>10, <2>1 DEF SlotsOf
    <3> QED
      BY <1>1, <2>1, <3>1, <3>2 DEF IInv, HandlerOwnsPlayer
  <2>2. CASE BackToScan
    BY <2>2 DEF HandlerOwnsPlayer, BackToScan, Resume
  <2> QED
    BY <1>8, <2>1, <2>2
<1> QED
  BY <1>9, <1>11, <1>12, <1>13, <1>14, <1>15, <1>16 DEF IInv

\* allocate_player fills one slot that was free with the descriptor, or none.
LEMMA AllocateInv ==
  ASSUME IInv, NEW fd \in Fds, allocate_player(fd)
  PROVE  /\ player_slots' \in [Slots -> BOOLEAN]
         /\ players' \in [Slots -> Player \cup {NoPlayer}]
         /\ SlotsMatch'
         /\ \E k \in Slots \cup {-1} :
              \A j \in Slots :
                IF j = k THEN /\ ~player_slots[j] /\ player_slots'[j]
                              /\ players'[j] = create_player(fd)
                ELSE /\ player_slots'[j] = player_slots[j]
                     /\ players'[j] = players[j]
<1>1. create_player(fd) \in Player
  BY HandshakingType DEF create_player, Player
<1>2. CASE /\ \A k \in Slots : player_slots[k]
           /\ UNCHANGED <<players, player_slots>>
  <2>1. \A j \in Slots : j # -1
    BY DEF Slots
  <2> QED
    BY <1>2, <2>1 DEF IInv, TypeOK, SlotsMatch
<1>3. CASE \E k \in Slots :
             /\ FirstFree(k)
             /\ players' = [players EXCEPT ![k] = create_player(fd)]
             /\ player_slots' = [player_slots EXCEPT ![k] = TRUE]
  <2>1. PICK k \in Slots :
             /\ FirstFree(k)
             /\ players' = [players EXCEPT ![k] = create_player(fd)]
             /\ player_slots' = [player_slots EXCEPT ![k] = TRUE]
    BY <1>3
  <2>2. ~player_slots[k]
    BY <2>1 DEF FirstFree
  <2>3. \A j \in Slots :
          IF j = k THEN /\ ~player_slots[j] /\ player_slots'[j]
                        /\ players'[j] = create_player(fd)
          ELSE /\ player_slots'[j] = player_slots[j]
               /\ players'[j] = players[j]
    BY <2>1, <2>2 DEF IInv, TypeOK
  <2>4. /\ player_slots' \in [Slots -> BOOLEAN]
        /\ players' \in [Slots -> Player \cup {NoPlayer}]
    BY <1>1, <2>1 DEF IInv, TypeOK
  <2>5. SlotsMatch'
    BY <1>1, <2>3, NoPlayerAssumption DEF IInv, SlotsMatch
  <2> QED
    BY <2>3, <2>4, <2>5
<1> QED
  BY <1>2, <1>3 DEF allocate_player

\* The scan accepts a connection, whether setsockopt succeeds or not.
LEMMA AcceptInv ==
  ASSUME IInv, NEW ok \in BOOLEAN, Accept(ok)
  PROVE  IInv'
<1> DEFINE c == Head(queue)
<1>1. /\ pc = "scan" /\ Listener \in read_fds
      /\ queue # <<>> /\ queue' = Tail(queue)
      /\ read_fds' = read_fds \ {Listener} /\ pc' = Resume(read_fds')
      /\ UNCHANGED <<i, player_num, buf, torn, should_stop>>
  BY DEF Accept, NextFd, Visited
<1>2. PICK newfd \in FreeFds :
        /\ IF ok THEN /\ fdtable' = [fdtable EXCEPT ![newfd] = c]
                      /\ UNCHANGED <<inq, hungup, earned>>
                 ELSE UNCHANGED fdtable /\ Forget(c)
        /\ master' = master \cup {newfd}
        /\ allocate_player(newfd)
        /\ raise_fdmax(newfd)
  BY DEF Accept
<1>3. newfd \in Fds /\ newfd # Listener /\ fdtable[newfd] = NoConn
  BY DEF FreeFds
<1>4. queue \in Seq(Conns) /\ Len(queue) \in Nat /\ Len(queue) > 0
  <2>1. queue \in Seq(Conns)
    BY DEF IInv, TypeOK
  <2> QED
    BY <1>1, <2>1, EmptySeq
<1>5. /\ c \in Conns /\ c = queue[1] /\ queue' \in Seq(Conns)
      /\ Len(queue') = Len(queue) - 1
      /\ \A n \in 1 .. Len(queue') : queue'[n] = queue[n + 1]
  BY <1>1, <1>4, HeadTailProperties
<1>6. \A f \in Fds : fdtable[f] # c
  BY <1>4, <1>5 DEF IInv, ConnsApart
<1>7. /\ fdtable' \in [Fds -> Conns \cup {NoConn}]
      /\ \A f \in Fds : f # newfd => fdtable'[f] = fdtable[f]
      /\ fdtable'[newfd] = IF ok THEN c ELSE NoConn
  BY <1>2, <1>3, <1>5 DEF IInv, TypeOK
<1>8. /\ inq' \in [Conns -> Seq(Packets)]
      /\ hungup' \in SUBSET Conns
      /\ earned' \in [Conns -> ConnectionStates]
      /\ earned'[c] = Handshaking
      /\ \A d \in Conns : d # c => /\ inq'[d] = inq[d]
                                   /\ d \in hungup' <=> d \in hungup
                                   /\ earned'[d] = earned[d]
  <2>1. earned[c] = Handshaking
    BY <1>5, <1>6 DEF IInv, NothingEarned
  <2>2. CASE ok
    BY <1>2, <2>1, <2>2 DEF IInv, TypeOK
  <2>3. CASE ~ok
    <3>1. <<>> \in Seq(Packets)
      BY EmptySeq
    <3>2. /\ inq' = [inq EXCEPT ![c] = <<>>]
          /\ hungup' = hungup \ {c}
          /\ earned' = [earned EXCEPT ![c] = Handshaking]
      BY <1>2, <2>3 DEF Forget
    <3>3. inq' \in [Conns -> Seq(Packets)]
      BY <1>5, <3>1, <3>2 DEF IInv, TypeOK
    <3>4. hungup' \in SUBSET Conns /\ earned' \in [Conns -> ConnectionStates]
      BY <1>5, <3>2, HandshakingType DEF IInv, TypeOK
    <3> QED
      BY <1>5, <3>2, <3>3, <3>4 DEF IInv, TypeOK
  <2> QED
    BY <2>2, <2>3
<1>9. fdmax' \in Fds /\ fdmax <= fdmax' /\ newfd <= fdmax'
  BY <1>2, <1>3 DEF raise_fdmax, IInv, TypeOK, Fds
<1>10. PICK k \in Slots \cup {-1} :
         \A j \in Slots :
           IF j = k THEN /\ ~player_slots[j] /\ player_slots'[j]
                         /\ players'[j] = create_player(newfd)
           ELSE /\ player_slots'[j] = player_slots[j]
                /\ players'[j] = players[j]
  BY <1>2, <1>3, AllocateInv
<1>11. TypeOK'
  BY <1>1, <1>2, <1>3, <1>5, <1>7, <1>8, <1>9, AllocateInv, ResumeType
     DEF IInv, TypeOK
<1>12. SlotsMatch'
  BY <1>2, <1>3, AllocateInv
\* A player that still held newfd would hold a closed descriptor that is
\* watched, and then the listening socket would not be visited.
<1>13. \A j \in Slots : player_slots[j] => players[j].fd # newfd
  BY <1>1, <1>3 DEF IInv, SlotsWatched, NoAcceptAfterFailure, ClosedFd, Running
<1>14. OneSlotPerFd'
  BY <1>3, <1>10, <1>13 DEF IInv, OneSlotPerFd, create_player
<1>15. SlotsWatched'
  <2>1. \A j \in Slots : player_slots'[j] => players'[j].fd \in master'
    BY <1>2, <1>10 DEF IInv, SlotsWatched, create_player
  <2>2. \A f \in master' : f <= fdmax'
    BY <1>2, <1>9 DEF IInv, TypeOK, SlotsWatched, Fds
  <2> QED
    BY <2>1, <2>2 DEF SlotsWatched
<1>16. ConnsApart'
  <2>1. fdtable'[Listener] = NoConn
    BY <1>3, <1>7 DEF IInv, ConnsApart
  <2>2. \A f, g \in Fds : fdtable'[f] = fdtable'[g] /\ fdtable'[f] # NoConn
                            => f = g
    BY <1>6, <1>7 DEF IInv, ConnsApart
  <2>3. \A m, n \in 1 .. Len(queue') : queue'[m] = queue'[n] => m = n
    <3> SUFFICES ASSUME NEW m \in 1 .. Len(queue'), NEW n \in 1 .. Len(queue'),
                        queue'[m] = queue'[n]
                 PROVE  m = n
      OBVIOUS
    <3>1. m + 1 \in 1 .. Len(queue) /\ n + 1 \in 1 .. Len(queue)
      BY <1>4, <1>5
    <3>2. m + 1 = n + 1
      BY <1>5, <3>1 DEF IInv, ConnsApart
    <3> QED
      BY <3>2
  <2>4. \A n \in 1 .. Len(queue'), f \in Fds : queue'[n] # fdtable'[f]
    <3> SUFFICES ASSUME NEW n \in 1 .. Len(queue'), NEW f \in Fds
                 PROVE  queue'[n] # fdtable'[f]
      OBVIOUS
    <3>1. /\ n + 1 \in 1 .. Len(queue) /\ 1 \in 1 .. Len(queue) /\ n + 1 # 1
          /\ queue'[n] = queue[n + 1]
      BY <1>4, <1>5
    <3>2. queue[n + 1] # c /\ queue[n + 1] \in Conns
      BY <1>4, <1>5, <3>1, ElementOfSeq DEF IInv, ConnsApart
    <3>3. queue[n + 1] # fdtable[f]
      BY <3>1 DEF IInv, ConnsApart
    <3> QED
      BY <1>7, <3>1, <3>2, <3>3, ConnsAssumption
  <2> QED
    BY <2>1, <2>2, <2>3, <2>4 DEF ConnsApart
<1>17. NothingEarned'
  <2> SUFFICES ASSUME NEW d \in Conns, \A f \in Fds : fdtable'[f] # d
               PROVE  earned'[d] = Handshaking
    BY DEF NothingEarned
  <2>1. CASE d = c
    BY <1>8, <2>1
  <2>2. CASE d # c
    <3>1. \A f \in Fds : fdtable[f] # d
      BY <1>3, <1>7, ConnsAssumption
    <3> QED
      BY <1>8, <2>2, <3>1 DEF IInv, NothingEarned
  <2> QED
    BY <2>1, <2>2
<1>18. StateEarned'
  <2> SUFFICES ASSUME NEW j \in Slots, player_slots'[j],
                      fdtable'[players'[j].fd] # NoConn
               PROVE  players'[j].connection_state = earned'[fdtable'[players'[j].fd]]
    BY DEF StateEarned
  <2>1. CASE j = k
    BY <1>7, <1>8, <1>10, <2>1 DEF create_player
  <2>2. CASE j # k
    <3>1. player_slots[j] /\ players'[j] = players[j]
      BY <1>10, <2>2
    <3>2. players[j].fd \in Fds /\ players[j].fd # newfd
      BY <1>13, <3>1 DEF IInv, TypeOK, SlotsMatch, Player
    <3>3. /\ fdtable'[players[j].fd] = fdtable[players[j].fd]
          /\ fdtable[players[j].fd] \in Conns
          /\ fdtable[players[j].fd] # c
      BY <1>6, <1>7, <3>1, <3>2 DEF IInv, TypeOK
    <3> QED
      BY <1>8, <3>1, <3>3 DEF IInv, StateEarned
  <2> QED
    BY <2>1, <2>2
<1>19. SnapshotFresh'
  <2> SUFFICES ASSUME NEW f \in read_fds'
               PROVE  f \in master' /\ f <= fdmax' /\ Readable(f)'
    BY DEF SnapshotFresh
  <2>1. /\ f \in master /\ f <= fdmax /\ Readable(f) /\ f # Listener
        /\ f \in Fds
    BY <1>1 DEF IInv, TypeOK, SnapshotFresh
  <2>2. /\ fdtable[f] \in Conns /\ fdtable[f] # c /\ f # newfd
        /\ fdtable'[f] = fdtable[f]
    BY <1>3, <1>6, <1>7, <2>1 DEF Readable, IInv, TypeOK
  <2>3. Readable(f)'
    BY <1>8, <2>1, <2>2, ConnsAssumption DEF Readable
  <2>4. f <= fdmax'
    BY <1>9, <2>1 DEF IInv, TypeOK, Fds
  <2> QED
    BY <1>2, <2>1, <2>3, <2>4
<1>20. NoAcceptAfterFailure'
  BY <1>1 DEF NoAcceptAfterFailure, Resume
<1>21. HandlerOwnsPlayer'
  BY <1>1 DEF HandlerOwnsPlayer, Resume
<1> QED
  BY <1>11, <1>12, <1>14, <1>15, <1>16, <1>17, <1>18, <1>19, <1>20, <1>21
     DEF IInv

-----------------------------------------------------------------------------
(* The theorems.                                                           *)

\* Every step of the server, its clients and the kernel keeps the invariant.
LEMMA NextInv == IInv /\ [Next]_vars => IInv'
<1> SUFFICES ASSUME IInv, [Next]_vars PROVE IInv'
  OBVIOUS
<1>1. CASE Clients
  BY <1>1, ConnectInv, SendInv, HangUpInv DEF Clients
<1>2. CASE \E stop \in BOOLEAN : Select(stop)
  BY <1>2, SelectInv
<1>3. CASE Stop
  BY <1>3, StopInv
<1>4. CASE \E ok \in BOOLEAN : Accept(ok)
  BY <1>4, AcceptInv
<1>5. CASE AcceptFails
  BY <1>5, AcceptFailsInv
<1>6. CASE \E f \in Fds : Visit(f)
  BY <1>6, ReadClosedInv, OrphanClosedInv, ReadDataInv, OrphanDataInv DEF Visit
<1>7. CASE handle_packet
  BY <1>7, Passes, DismissInv, HandleInv
<1>8. CASE UNCHANGED vars
  <2> USE <1>8 DEF vars, server, scan, kernel
  <2>1. TypeOK'
    BY DEF IInv, TypeOK
  <2>2. (SlotsMatch /\ OneSlotPerFd /\ SlotsWatched /\ ConnsApart
          /\ NothingEarned /\ StateEarned)'
    BY DEF IInv, SlotsMatch, OneSlotPerFd, SlotsWatched, ConnsApart,
           NothingEarned, StateEarned
  <2>3. SnapshotFresh'
    BY DEF IInv, SnapshotFresh, Readable
  <2>4. (NoAcceptAfterFailure /\ HandlerOwnsPlayer)'
    BY DEF IInv, NoAcceptAfterFailure, HandlerOwnsPlayer, SlotsOf, ClosedFd, Running
  <2> QED
    BY <2>1, <2>2, <2>3, <2>4 DEF IInv
<1> QED
  BY <1>1, <1>2, <1>3, <1>4, <1>5, <1>6, <1>7, <1>8
     DEF Next, ServerStep, Ended

\* The inductive invariant holds in every reachable state.
THEOREM Invariant == Spec => []IInv
BY InitInv, NextInv, PTL DEF Spec

\* Every variable of the server keeps to the values of its type.
THEOREM TypeCorrect == Spec => []TypeOK
<1>1. IInv => TypeOK
  BY DEF IInv
<1> QED
  BY <1>1, Invariant, PTL

\* No two players of simple_server ever share a descriptor.
THEOREM OneSlotPerFdHolds == Spec => []OneSlotPerFd
<1>1. IInv => OneSlotPerFd
  BY DEF IInv
<1> QED
  BY <1>1, Invariant, PTL

\* The ready set of select() is never stale when the scan uses it.
THEOREM SnapshotFreshHolds == Spec => []SnapshotFresh
<1>1. IInv => SnapshotFresh
  BY DEF IInv
<1> QED
  BY <1>1, Invariant, PTL

\* handle_packet never works on a freed player or on another's.
THEOREM HandlerOwnsPlayerHolds == Spec => []HandlerOwnsPlayer
<1>1. IInv => HandlerOwnsPlayer
  BY DEF IInv
<1> QED
  BY <1>1, Invariant, PTL

\* A connection state is earned by the connection's own packets.
THEOREM StateEarnedHolds == Spec => []StateEarned
<1>1. IInv => StateEarned
  BY DEF IInv
<1> QED
  BY <1>1, Invariant, PTL

-----------------------------------------------------------------------------
(* What one step may do.                                                   *)

\* What deallocate_player changes, for an occupied slot.
LEMMA DeallocateEffect ==
  ASSUME IInv, NEW k \in Slots, player_slots[k], deallocate_player(k)
  PROVE  /\ \A f \in Fds : f # players[k].fd => fdtable'[f] = fdtable[f]
         /\ ~player_slots'[k]
         /\ \A j \in Slots : j # k => /\ player_slots'[j] = player_slots[j]
                                      /\ players'[j] = players[j]
                                      /\ player_slots[j] =>
                                           players[j].fd # players[k].fd
BY DEF deallocate_player, Close, IInv, TypeOK, OneSlotPerFd

\* The steps that close no descriptor and give up no slot.
QuietStep == UNCHANGED <<player_slots, fdtable>>
             /\ \A k \in Slots : players'[k].fd = players[k].fd

\* Every other step is an accept, a deallocation, or quiet.
LEMMA QuietSteps ==
  ASSUME IInv, [Next]_vars
  PROVE  \/ QuietStep
         \/ \E ok \in BOOLEAN : Accept(ok)
         \/ \E f \in Fds : ReadClosed(f)
         \/ Dismiss
<1> USE DEF QuietStep, server, scan, kernel
<1>1. CASE Clients
  BY <1>1 DEF Clients, Connect, Send, HangUp
<1>2. CASE \E stop \in BOOLEAN : Select(stop)
  BY <1>2 DEF Select
<1>3. CASE Stop \/ AcceptFails
  BY <1>3 DEF Stop, AcceptFails
<1>4. CASE \E f \in Fds : OrphanClosed(f) \/ ReadData(f) \/ OrphanData(f)
  BY <1>4 DEF OrphanClosed, ReadData, OrphanData
<1>5. CASE Proceed
  <2>1. player_num \in Slots /\ players[player_num] \in Player
    BY <1>5
       DEF Proceed, IInv, TypeOK, HandlerOwnsPlayer, SlotsOf, SlotsMatch
  <2>2. \A k \in Slots : players'[k].fd = players[k].fd
    BY <1>5, <2>1 DEF Proceed, Handle, IInv, TypeOK, Player
  <2> QED
    BY <1>5, <2>2 DEF Proceed, Handle
<1>6. CASE UNCHANGED vars
  BY <1>6 DEF vars
<1> QED
  BY <1>1, <1>2, <1>3, <1>4, <1>5, <1>6, Passes
     DEF Next, ServerStep, Visit, Ended

\* The descriptor of a new connection was free, and no player held it.
LEMMA AcceptEffect ==
  ASSUME IInv, NEW ok \in BOOLEAN, Accept(ok)
  PROVE  \E newfd \in Fds :
           /\ fdtable[newfd] = NoConn
           /\ \A f \in Fds : f # newfd => fdtable'[f] = fdtable[f]
           /\ allocate_player(newfd)
           /\ \A k \in Slots : player_slots[k] => players[k].fd # newfd
<1>1. PICK newfd \in FreeFds :
        /\ \A f \in Fds : f # newfd => fdtable'[f] = fdtable[f]
        /\ allocate_player(newfd)
  BY DEF Accept, IInv, TypeOK
<1>2. newfd \in Fds /\ newfd # Listener /\ fdtable[newfd] = NoConn
  BY DEF FreeFds
<1>3. \A k \in Slots : player_slots[k] => players[k].fd # newfd
  BY <1>2 DEF Accept, NextFd, IInv, SlotsWatched, NoAcceptAfterFailure, ClosedFd,
              Running
<1> QED
  BY <1>1, <1>2, <1>3

\* The server drops nobody but who hung up, sent a packet to be refused, or
\* whose read ended inside a length (JustDrop).
THEOREM JustDropHolds == Spec => JustDrop
<1>1. ASSUME IInv, [Next]_vars PROVE DropsJustly
  <2>1. CASE QuietStep
    BY <2>1 DEF QuietStep, DropsJustly
  <2>2. CASE \E ok \in BOOLEAN : Accept(ok)
    BY <1>1, <2>2, AcceptEffect DEF DropsJustly
  <2>3. CASE \E f \in Fds : ReadClosed(f)
    <3>1. PICK f \in Fds : ReadClosed(f)
      BY <2>3
    <3>2. PICK k \in Slots : player_slots[k] /\ players[k].fd = f /\ deallocate_player(k)
      BY <3>1 DEF ReadClosed, PlayerOf, SlotsOf
    <3>3. pc = "scan" /\ f \in read_fds /\ f # Listener /\ NothingRead(f)
      BY <3>1 DEF ReadClosed, NextFd, NothingRead
    <3>4. Readable(f)
      BY <1>1, <3>3 DEF IInv, SnapshotFresh
    <3>5. fdtable[f] \in hungup
      BY <3>3, <3>4 DEF Readable, NothingRead, ClosedFd
    <3> QED
      BY <1>1, <3>2, <3>5, DeallocateEffect DEF DropsJustly
  <2>4. CASE Dismiss
    <3>1. /\ pc = "handle" /\ deallocate_player(player_num)
          /\ player_num \in Slots /\ player_slots[player_num]
          /\ players[player_num].fd = i
      BY <1>1, <2>4, DismissIs
    <3>2. fdtable[i] # NoConn /\ (buf # <<>> \/ torn)
      BY <1>1, <3>1 DEF IInv, HandlerOwnsPlayer
    <3>3. players[player_num].connection_state = earned[fdtable[i]]
      BY <1>1, <3>1, <3>2 DEF IInv, StateEarned
    <3>4. IF buf = <<>> THEN torn ELSE Refused(earned[fdtable[i]], Head(buf))
      <4>1. CASE GiveUp
        BY <3>2, <4>1 DEF GiveUp
      <4>2. CASE Refuse
        BY <3>3, <4>2 DEF Refuse
      <4> QED
        BY <2>4, <4>1, <4>2 DEF Dismiss
    <3> QED
      BY <1>1, <3>1, <3>4, DeallocateEffect DEF DropsJustly
  <2> QED
    BY <1>1, <2>1, <2>2, <2>3, <2>4, QuietSteps
<1> QED
  BY <1>1, Invariant, PTL DEF Spec, JustDrop

\* A slot stands for one connection as long as it is occupied (SlotStable).
THEOREM SlotStableHolds == Spec => SlotStable
<1>1. ASSUME IInv, [Next]_vars PROVE KeepsConnections
  <2>0. \A k \in Slots : player_slots[k] => players[k].fd \in Fds
    BY <1>1 DEF IInv, TypeOK, SlotsMatch, Player
  <2>1. CASE QuietStep
    BY <2>1 DEF QuietStep, KeepsConnections
  <2>2. CASE \E ok \in BOOLEAN : Accept(ok)
    <3>1. PICK newfd \in Fds :
            /\ \A f \in Fds : f # newfd => fdtable'[f] = fdtable[f]
            /\ allocate_player(newfd)
            /\ \A k \in Slots : player_slots[k] => players[k].fd # newfd
      BY <1>1, <2>2, AcceptEffect
    <3>2. \A k \in Slots : player_slots[k] => players'[k] = players[k]
      BY <1>1, <3>1, AllocateInv
    <3> QED
      BY <2>0, <3>1, <3>2 DEF KeepsConnections
  \* The slots other than the one given up keep player and descriptor.
  <2>5. ASSUME NEW k \in Slots, player_slots[k], deallocate_player(k)
        PROVE  KeepsConnections
    <3>1. /\ \A f \in Fds : f # players[k].fd => fdtable'[f] = fdtable[f]
          /\ ~player_slots'[k]
          /\ \A j \in Slots : j # k => /\ player_slots'[j] = player_slots[j]
                                       /\ players'[j] = players[j]
                                       /\ player_slots[j] =>
                                            players[j].fd # players[k].fd
      BY <1>1, <2>5, DeallocateEffect
    <3> SUFFICES ASSUME NEW j \in Slots, player_slots[j], player_slots'[j]
                 PROVE  /\ players'[j].fd = players[j].fd
                        /\ fdtable'[players[j].fd] = fdtable[players[j].fd]
      BY DEF KeepsConnections
    <3>2. j # k
      BY <3>1, Zenon
    <3>3. players'[j] = players[j]
      BY <3>1, <3>2
    <3>4. players[j].fd # players[k].fd
      BY <3>1, <3>2
    <3> QED
      BY <2>0, <3>1, <3>3, <3>4
  <2>3. CASE \E f \in Fds : ReadClosed(f)
    BY <2>3, <2>5 DEF ReadClosed, PlayerOf, SlotsOf
  <2>4. CASE Dismiss
    BY <1>1, <2>4, <2>5, DismissIs
  <2> QED
    BY <1>1, <2>1, <2>2, <2>3, <2>4, QuietSteps
<1> QED
  BY <1>1, Invariant, PTL DEF Spec, SlotStable

-----------------------------------------------------------------------------
(* Without a failing setsockopt, and with a slot for every connection.     *)

\* Without a failing setsockopt no closed descriptor is watched, and select()
\* has no cause to fail.
NoneClosed ==
  ~OptFails => pc # "exited" /\ \A f \in master : ~ClosedFd(f)

\* The clients keep to the number of slots, and to its meaning: a connection
\* counts until the server has closed its end too.
Uncrowded == Polite /\ ~OptFails /\ MaxLive <= MaxPlayers

\* There are no more connections than slots, so none is left without one.
Room == Cardinality(Live) <= MaxLive
Watched == \A f \in Fds : fdtable[f] # NoConn => f \in master
Served == \A f \in master \ {Listener} : SlotsOf(f) # {}
Roomy == NoneClosed /\ Room /\ Watched /\ Served

-----------------------------------------------------------------------------
(* No closed descriptor is watched.                                        *)

\* What deallocate_player leaves behind.
LEMMA DeallocateKeeps ==
  ASSUME IInv, NEW k \in Slots, player_slots[k], deallocate_player(k),
         UNCHANGED <<fdmax, should_stop>>
  PROVE  /\ master' = master \ {players[k].fd}
         /\ queue' = queue
         /\ \A f \in Fds : fdtable'[f] \in {fdtable[f], NoConn}
         /\ fdtable'[players[k].fd] = NoConn
         /\ \A f \in master' : ClosedFd(f)' => ClosedFd(f)
<1>1. players[k].fd \in Fds
  BY DEF IInv, TypeOK, SlotsMatch, Player
<1>2. /\ master' = master \ {players[k].fd}
      /\ queue' = queue
      /\ fdtable' = [fdtable EXCEPT ![players[k].fd] = NoConn]
  BY DEF deallocate_player, Close
<1>3. /\ fdtable'[players[k].fd] = NoConn
      /\ \A f \in Fds : fdtable'[f] \in {fdtable[f], NoConn}
  BY <1>1, <1>2 DEF IInv, TypeOK
<1> QED
  BY <1>2, <1>3, DeallocateInv

\* The steps in which a player is deallocated.
Drop == \E k \in Slots : /\ player_slots[k]
                         /\ deallocate_player(k)
                         /\ pc' \in {"select", "scan"}
                         /\ UNCHANGED <<fdmax, should_stop>>

LEMMA Drops ==
  ASSUME IInv
  PROVE  /\ \A f \in Fds : ReadClosed(f) => Drop
         /\ Dismiss => Drop
<1>1. ASSUME NEW f \in Fds, ReadClosed(f) PROVE Drop
  BY <1>1, ResumeType DEF ReadClosed, Visited, PlayerOf, SlotsOf, Drop
<1>2. ASSUME Dismiss PROVE Drop
  BY <1>2, DismissIs, ResumeType DEF Drop
<1> QED
  BY <1>1, <1>2

\* What an accept that succeeds does to descriptors and queue.
LEMMA AcceptGives ==
  ASSUME IInv, Accept(TRUE)
  PROVE  /\ queue # <<>> /\ queue' = Tail(queue) /\ Head(queue) \in Conns
         /\ pc' \in {"select", "scan"}
         /\ \E newfd \in Fds :
              /\ newfd # Listener /\ fdtable[newfd] = NoConn
              /\ fdtable'[newfd] = Head(queue)
              /\ \A f \in Fds : f # newfd => fdtable'[f] = fdtable[f]
              /\ master' = master \cup {newfd}
              /\ allocate_player(newfd)
<1>1. /\ queue # <<>> /\ queue' = Tail(queue)
      /\ pc' \in {"select", "scan"}
  BY ResumeType DEF Accept, Visited
<1>2. PICK newfd \in FreeFds :
        /\ fdtable' = [fdtable EXCEPT ![newfd] = Head(queue)]
        /\ master' = master \cup {newfd}
        /\ allocate_player(newfd)
  BY DEF Accept
<1>3. newfd \in Fds /\ newfd # Listener /\ fdtable[newfd] = NoConn
  BY DEF FreeFds
<1>4. Head(queue) \in Conns
  BY <1>1, HeadTailProperties DEF IInv, TypeOK
<1> QED
  BY <1>1, <1>2, <1>3, <1>4 DEF IInv, TypeOK

\* The steps that touch neither the descriptors nor what select() watches.
CalmStep == /\ UNCHANGED <<master, fdtable, player_slots, queue>>
            /\ \A k \in Slots : players'[k].fd = players[k].fd
            /\ pc' = "exited" => pc = "exited" \/ SelectFails

LEMMA OtherSteps ==
  ASSUME IInv, [Next]_vars
  PROVE  \/ CalmStep
         \/ \E c \in Conns : Connect(c)
         \/ \E f \in Fds : OrphanClosed(f)
         \/ Accept(TRUE)
         \/ OptFails /\ Accept(FALSE)
         \/ Drop
<1> USE DEF CalmStep, server, scan, kernel
<1>1. CASE \E c \in Conns : (\E p \in Packets : Send(c, p)) \/ HangUp(c)
  BY <1>1 DEF Send, HangUp
<1>2. CASE \E stop \in BOOLEAN : Select(stop)
  BY <1>2, ResumeType DEF Select
<1>3. CASE Stop \/ AcceptFails
  BY <1>3, ResumeType DEF Stop, AcceptFails, Visited
<1>4. CASE \E f \in Fds : ReadData(f) \/ OrphanData(f)
  BY <1>4 DEF ReadData, OrphanData
<1>5. CASE Proceed
  <2>1. player_num \in Slots /\ players[player_num] \in Player
    BY <1>5
       DEF Proceed, IInv, TypeOK, HandlerOwnsPlayer, SlotsOf, SlotsMatch
  <2>2. \A k \in Slots : players'[k].fd = players[k].fd
    BY <1>5, <2>1 DEF Proceed, Handle, IInv, TypeOK, Player
  <2>3. pc' # "exited"
    BY <1>5, ResumeType DEF Proceed, Handle, HandleRest, BackToScan
  <2> QED
    BY <1>5, <2>2, <2>3 DEF Proceed, Handle
<1>6. CASE UNCHANGED vars
  BY <1>6 DEF vars
<1>7. CASE \E f \in Fds : ReadClosed(f)
  BY <1>7, Drops
<1>8. CASE Dismiss
  BY <1>8, Drops
<1> QED
  BY <1>1, <1>2, <1>3, <1>4, <1>5, <1>6, <1>7, <1>8, Passes
     DEF Next, Clients, ServerStep, Visit, Ended

LEMMA NoneClosedStep ==
  ASSUME IInv, NoneClosed, [Next]_vars
  PROVE  NoneClosed'
<1> SUFFICES ASSUME ~OptFails
             PROVE  pc' # "exited" /\ \A f \in master' : ~ClosedFd(f)'
  BY DEF NoneClosed
<1>1. pc # "exited" /\ \A f \in master : ~ClosedFd(f)
  BY DEF NoneClosed
<1>2. CASE CalmStep
  BY <1>1, <1>2 DEF CalmStep, ClosedFd, SelectFails
<1>3. CASE \E c \in Conns : Connect(c)
  BY <1>1, <1>3 DEF Connect, server, scan, ClosedFd
<1>4. CASE \E f \in Fds : OrphanClosed(f)
  BY <1>1, <1>4, ResumeType DEF OrphanClosed, Visited, kernel, ClosedFd
<1>5. CASE Accept(TRUE)
  <2>1. PICK newfd \in Fds :
          /\ fdtable'[newfd] = Head(queue)
          /\ \A f \in Fds : f # newfd => fdtable'[f] = fdtable[f]
          /\ master' = master \cup {newfd}
    BY <1>5, AcceptGives
  <2>2. Head(queue) # NoConn /\ pc' # "exited"
    BY <1>5, AcceptGives, ConnsAssumption
  <2>3. master \in SUBSET Fds
    BY DEF IInv, TypeOK
  <2> QED
    BY <1>1, <2>1, <2>2, <2>3 DEF ClosedFd
<1>6. CASE Drop
  <2>1. PICK k \in Slots : /\ player_slots[k] /\ deallocate_player(k)
                           /\ pc' \in {"select", "scan"}
                           /\ UNCHANGED <<fdmax, should_stop>>
    BY <1>6 DEF Drop
  <2>2. /\ master' = master \ {players[k].fd}
        /\ \A f \in master' : ClosedFd(f)' => ClosedFd(f)
    BY <2>1, DeallocateKeeps
  <2> QED
    BY <1>1, <2>1, <2>2
<1> QED
  BY <1>2, <1>3, <1>4, <1>5, <1>6, OtherSteps

LEMMA NoneClosedInit == Init => NoneClosed
BY DEF Init, NoneClosed, ClosedFd

\* The main loop is left by a failing select() only if setsockopt failed.
THEOREM ExitsForACauseHolds == Spec => []ExitsForACause
<1>1. IInv /\ NoneClosed /\ [Next]_vars => NoneClosed'
  BY NoneClosedStep
<1>2. NoneClosed => ExitsForACause
  BY SwitchesAssumption DEF NoneClosed, ExitsForACause
<1> QED
  BY <1>1, <1>2, NoneClosedInit, Invariant, PTL DEF Spec

-----------------------------------------------------------------------------
(* A slot for everyone.                                                    *)

\* The live connections can be counted.
LEMMA LiveFinite ==
  ASSUME IInv
  PROVE  Live \subseteq Conns /\ IsFiniteSet(Live) /\ Cardinality(Live) \in Nat
<1>1. Queued \subseteq Conns
  BY ElementOfSeq DEF IInv, TypeOK, Queued
<1>2. Accepted \subseteq Conns
  BY DEF IInv, TypeOK, Accepted
<1>3. Live \subseteq Conns
  BY <1>1, <1>2 DEF Live
<1>4. IsFiniteSet(Live)
  BY <1>3, ConnsAssumption, FS_Subset
<1> QED
  BY <1>3, <1>4, FS_CardinalityType

\* The first in the queue is live, and not accepted.
LEMMA HeadQueued ==
  ASSUME IInv, queue # <<>>
  PROVE  Head(queue) \in Live /\ Head(queue) \notin Accepted
<1>1. queue \in Seq(Conns)
  BY DEF IInv, TypeOK
<1>2. Len(queue) \in Nat /\ Len(queue) # 0
  BY <1>1, EmptySeq, LenProperties
<1>3. 1 \in 1 .. Len(queue) /\ Head(queue) = queue[1]
  BY <1>1, <1>2, HeadTailProperties
<1>4. Head(queue) \in Queued
  BY <1>3 DEF Queued
<1>5. \A f \in Fds : queue[1] # fdtable[f]
  BY <1>3 DEF IInv, ConnsApart
<1> QED
  BY <1>3, <1>4, <1>5 DEF Live, Accepted

\* Every occupied slot stands for an accepted connection, each for another:
\* with a connection still in the queue there is a free slot.
LEMMA SlotFree ==
  ASSUME IInv, Uncrowded, NoneClosed, Room, queue # <<>>
  PROVE  \E k \in Slots : ~player_slots[k]
<1> SUFFICES ASSUME \A k \in Slots : player_slots[k]
             PROVE  FALSE
  OBVIOUS
<1> DEFINE g == [k \in Slots |-> fdtable[players[k].fd]]
           Others == Live \ {Head(queue)}
<1>1. \A k \in Slots : /\ players[k].fd \in Fds \ {Listener}
                       /\ players[k].fd \in master
  BY DEF IInv, TypeOK, SlotsMatch, Player, OneSlotPerFd, SlotsWatched
<1>2. \A k \in Slots : fdtable[players[k].fd] # NoConn
  BY <1>1 DEF NoneClosed, Uncrowded, ClosedFd
<1>3. \A k \in Slots : fdtable[players[k].fd] \in Accepted
  BY <1>1, <1>2 DEF Accepted
<1>4. g \in [Slots -> Others]
  BY <1>3, HeadQueued DEF Live
<1>5. \A j, k \in Slots : g[j] = g[k] => j = k
  <2> SUFFICES ASSUME NEW j \in Slots, NEW k \in Slots, g[j] = g[k]
               PROVE  j = k
    OBVIOUS
  <2>1. players[j].fd = players[k].fd
    BY <1>1, <1>2 DEF IInv, ConnsApart
  <2> QED
    BY <2>1 DEF IInv, OneSlotPerFd
<1>6. IsFiniteSet(Others) /\ Cardinality(Others) = Cardinality(Live) - 1
  BY HeadQueued, LiveFinite, FS_RemoveElement
<1>7. IsFiniteSet(Slots) /\ Cardinality(Slots) = MaxPlayers
  <2>1. 0 \in Int /\ MaxPlayers - 1 \in Int /\ ~(0 > MaxPlayers - 1)
        /\ (MaxPlayers - 1) - 0 + 1 = MaxPlayers
    BY SizesAssumption
  <2> QED
    BY <2>1, FS_Interval DEF Slots
<1>8. Cardinality(Others) < Cardinality(Slots)
  BY <1>6, <1>7, LiveFinite, SizesAssumption DEF Room, Uncrowded
<1> HIDE DEF g, Others
<1>9. \E x, y \in Slots : x # y /\ g[x] = g[y]
  BY <1>4, <1>6, <1>7, <1>8, FS_PigeonHole, Zenon
<1> QED
  BY <1>5, <1>9, Zenon

LEMMA RoomStep ==
  ASSUME IInv, IInv', Uncrowded, Room, [Next]_vars
  PROVE  Room'
<1>1. ASSUME Live' \subseteq Live PROVE Room'
  <2>1. Cardinality(Live') <= Cardinality(Live)
    BY <1>1, LiveFinite, FS_Subset
  <2>2. Cardinality(Live') \in Nat
    <3>1. IsFiniteSet(Live')
      BY <1>1, LiveFinite, FS_Subset
    <3> QED
      BY <3>1, FS_CardinalityType
  <2> QED
    BY <2>1, <2>2, LiveFinite, SizesAssumption DEF Room
<1>2. ASSUME Queued' = Queued, \A f \in Fds : fdtable'[f] \in {fdtable[f], NoConn}
      PROVE  Live' \subseteq Live
  BY <1>2 DEF Live, Accepted
<1>3. queue' = queue => Queued' = Queued
  BY DEF Queued
<1>4. CASE CalmStep
  BY <1>1, <1>2, <1>3, <1>4 DEF CalmStep
<1>5. CASE \E c \in Conns : Connect(c)
  <2>1. PICK c \in Conns : Connect(c)
    BY <1>5
  <2>2. /\ c \notin Live /\ Load < MaxLive
        /\ queue' = Append(queue, c) /\ fdtable' = fdtable
    BY <2>1 DEF Connect
  <2>3. Live' = Live \cup {c}
    <3>1. queue \in Seq(Conns) /\ Len(queue) \in Nat
      BY LenProperties DEF IInv, TypeOK
    <3>2. /\ Len(queue') = Len(queue) + 1
          /\ \A n \in 1 .. Len(queue) : queue'[n] = queue[n]
          /\ queue'[Len(queue) + 1] = c
      BY <2>2, <3>1, AppendProperties
    <3>3. 1 .. Len(queue) + 1 = (1 .. Len(queue)) \cup {Len(queue) + 1}
      BY <3>1
    <3>4. Queued' = Queued \cup {c}
      BY <3>2, <3>3 DEF Queued
    <3> QED
      BY <2>2, <3>4 DEF Live, Accepted
  <2>4. Load = Cardinality(Live)
    BY DEF Load, Uncrowded
  <2>5. Cardinality(Live') = Cardinality(Live) + 1
    BY <2>2, <2>3, LiveFinite, FS_AddElement
  <2> QED
    BY <2>2, <2>4, <2>5, LiveFinite, SizesAssumption DEF Room
<1>6. CASE \E f \in Fds : OrphanClosed(f)
  BY <1>1, <1>2, <1>3, <1>6 DEF OrphanClosed, kernel
<1>7. CASE Accept(TRUE)
  <2>1. /\ queue # <<>> /\ queue' = Tail(queue)
        /\ \A f \in Fds : fdtable'[f] \in {fdtable[f], Head(queue)}
    BY <1>7, AcceptGives
  <2>2. Queued' \subseteq Queued
    <3>1. queue \in Seq(Conns)
      BY DEF IInv, TypeOK
    <3>2. /\ Len(queue) \in Nat /\ Len(queue') = Len(queue) - 1
          /\ \A n \in 1 .. Len(queue') : queue'[n] = queue[n + 1]
      BY <2>1, <3>1, HeadTailProperties, LenProperties
    <3>3. \A n \in 1 .. Len(queue') : n + 1 \in 1 .. Len(queue)
      BY <3>2
    <3> QED
      BY <3>2, <3>3 DEF Queued
  <2>3. Live' \subseteq Live
    BY <2>1, <2>2, HeadQueued DEF Live, Accepted
  <2> QED
    BY <1>1, <2>3
<1>8. CASE Drop
  <2>1. queue' = queue /\ \A f \in Fds : fdtable'[f] \in {fdtable[f], NoConn}
    BY <1>8, DeallocateKeeps DEF Drop
  <2> QED
    BY <1>1, <1>2, <1>3, <2>1
<1> QED
  BY <1>4, <1>5, <1>6, <1>7, <1>8, OtherSteps DEF Uncrowded

\* While the watched descriptors are served, the loop meets none without a
\* player.
LEMMA NoOrphanStep ==
  ASSUME IInv, Served, NEW f \in Fds
  PROVE  ~OrphanClosed(f) /\ ~OrphanData(f)
<1>1. ASSUME NextFd(f), f # Listener PROVE SlotsOf(f) # {}
  BY <1>1 DEF NextFd, IInv, SnapshotFresh, Served
<1> QED
  BY <1>1 DEF OrphanClosed, OrphanData, NothingRead

LEMMA ServedStep ==
  ASSUME IInv, Uncrowded, Roomy, [Next]_vars
  PROVE  Watched' /\ Served'
<1>1. Watched /\ Served /\ NoneClosed /\ Room
  BY DEF Roomy
<1>2. CASE CalmStep
  BY <1>1, <1>2 DEF CalmStep, Watched, Served, SlotsOf
<1>3. CASE \E c \in Conns : Connect(c)
  BY <1>1, <1>3 DEF Connect, server, scan, Watched, Served, SlotsOf
<1>4. CASE \E f \in Fds : OrphanClosed(f)
  BY <1>1, <1>4, NoOrphanStep
<1>5. CASE Accept(TRUE)
  <2>1. PICK newfd \in Fds :
          /\ fdtable'[newfd] = Head(queue)
          /\ \A f \in Fds : f # newfd => fdtable'[f] = fdtable[f]
          /\ master' = master \cup {newfd}
          /\ allocate_player(newfd)
    BY <1>5, AcceptGives
  <2>2. \E k \in Slots : ~player_slots[k]
    BY <1>1, <1>5, AcceptGives, SlotFree
  <2>3. PICK k \in Slots : /\ FirstFree(k)
                           /\ players' = [players EXCEPT ![k] = create_player(newfd)]
                           /\ player_slots' = [player_slots EXCEPT ![k] = TRUE]
    BY <2>1, <2>2 DEF allocate_player
  <2>4. player_slots'[k] /\ players'[k].fd = newfd
    BY <2>3 DEF IInv, TypeOK, create_player
  <2>5. \A j \in Slots : player_slots[j] =>
          player_slots'[j] /\ players'[j] = players[j]
    BY <2>3 DEF IInv, TypeOK, FirstFree
  <2>6. k \in SlotsOf(newfd)'
    BY <2>4 DEF SlotsOf
  <2>7. \A f \in Fds : SlotsOf(f) \subseteq SlotsOf(f)'
    BY <2>5 DEF SlotsOf
  <2>8. master \in SUBSET Fds
    BY DEF IInv, TypeOK
  <2> QED
    BY <1>1, <2>1, <2>6, <2>7, <2>8 DEF Watched, Served
<1>6. CASE Drop
  <2>1. PICK k \in Slots : /\ player_slots[k] /\ deallocate_player(k)
                           /\ UNCHANGED <<fdmax, should_stop>>
    BY <1>6 DEF Drop
  <2>2. /\ master' = master \ {players[k].fd}
        /\ \A f \in Fds : fdtable'[f] \in {fdtable[f], NoConn}
        /\ fdtable'[players[k].fd] = NoConn
    BY <2>1, DeallocateKeeps
  <2>3. \A j \in Slots : j # k => /\ player_slots'[j] = player_slots[j]
                                  /\ players'[j] = players[j]
    BY <2>1, DeallocateEffect
  <2>4. \A f \in Fds : f # players[k].fd => SlotsOf(f) \subseteq SlotsOf(f)'
    BY <2>3 DEF SlotsOf
  <2>5. master \in SUBSET Fds
    BY DEF IInv, TypeOK
  <2> QED
    BY <1>1, <2>2, <2>4, <2>5 DEF Watched, Served
<1> QED
  BY <1>2, <1>3, <1>4, <1>5, <1>6, OtherSteps DEF Uncrowded

LEMMA RoomyInit == Uncrowded /\ Init => Roomy
<1> SUFFICES ASSUME Uncrowded, Init PROVE Roomy
  OBVIOUS
<1>1. Live = {}
  <2>1. Queued = {}
    BY DEF Init, Queued
  <2>2. Accepted = {}
    BY DEF Init, Accepted
  <2> QED
    BY <2>1, <2>2 DEF Live
<1>2. Room
  BY <1>1, FS_EmptySet, SizesAssumption DEF Room
<1>3. Watched /\ Served
  BY DEF Init, Watched, Served
<1> QED
  BY <1>2, <1>3, NoneClosedInit DEF Roomy

\* With a slot for every connection the clients keep, everybody has one.
THEOREM RoomyHolds ==
  ASSUME Uncrowded
  PROVE  Spec => []Roomy
<1>1. Init => Roomy
  BY RoomyInit
<1>2. IInv /\ IInv' /\ Roomy /\ [Next]_vars => Roomy'
  BY NoneClosedStep, RoomStep, ServedStep DEF Roomy
<1> QED
  BY <1>1, <1>2, Invariant, PTL DEF Spec

\* The lookup of l.1113-1119 always finds a player (NoOrphan).
THEOREM NoOrphanHolds ==
  ASSUME Uncrowded
  PROVE  Spec => []NoOrphan
<1>1. Roomy => NoOrphan
  BY DEF Roomy, Served, NoOrphan
<1> QED
  BY <1>1, RoomyHolds, PTL

\* Every accepted connection is watched and has a player (NoneForgotten).
THEOREM NoneForgottenHolds ==
  ASSUME Uncrowded
  PROVE  Spec => []NoneForgotten
<1>1. ASSUME IInv, Roomy, NEW f \in Fds, fdtable[f] # NoConn
      PROVE  f \in master /\ f <= fdmax /\ SlotsOf(f) # {}
  <2>1. f \in master /\ f # Listener
    BY <1>1 DEF Roomy, Watched, IInv, ConnsApart
  <2> QED
    BY <1>1, <2>1 DEF Roomy, Served, IInv, SlotsWatched
<1>2. IInv /\ Roomy => NoneForgotten
  BY <1>1 DEF NoneForgotten
<1> QED
  BY <1>2, Invariant, RoomyHolds, PTL
=============================================================================
