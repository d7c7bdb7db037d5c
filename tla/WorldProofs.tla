---------------------------- MODULE WorldProofs -----------------------------
(***************************************************************************)
(* Theorems about World, for every number of slots, and whatever positions *)
(* and packets the clients send.                                           *)
(***************************************************************************)
EXTENDS World, TLAPS

\* Who is in play was sent login_play.
PlayingWelcomed == Playing(state) \subseteq welcomed

IInv == /\ TypeOK
        /\ PlayingWelcomed
        /\ PlayersSeeEachOther
        /\ ListedByName
        /\ OnlyTabListEarly

-----------------------------------------------------------------------------
(* Lemmas about the operators.                                             *)

LEMMA StatesDistinct ==
  /\ Free \notin ConnectionStates
  /\ Play \in ConnectionStates /\ Handshaking \in ConnectionStates
  /\ Handshaking # Play
BY DEF Free, ConnectionStates, Handshaking, Login, Configuration, Play

\* An accepted packet leads to a connection state.
LEMMA NextStateType ==
  ASSUME NEW s \in ConnectionStates, NEW p, ~Refused(s, p)
  PROVE  NextState(s, p) \in ConnectionStates
BY DEF Refused, NextState, IsHandshake, Acknowledges, ConnectionStates,
       Handshaking, Login, Configuration, Play, LoginIntent

\* A packet that leads to play is answered by login_play.
LEMMA PlayIsWelcomed ==
  ASSUME NEW s \in ConnectionStates, NEW p, ~Refused(s, p),
         s # Play, NextState(s, p) = Play
  PROVE  "login_play" \in ToSet(Replies(s, p))
<1>1. Acknowledges(s, p)
  BY DEF Refused, NextState, IsHandshake, ConnectionStates, Handshaking, Login,
         Configuration, Play, LoginIntent, Acknowledges
<1>2. Replies(s, p) = <<"login_play">>
  BY <1>1 DEF Replies, Welcome, Acknowledges, Configuration, Login,
     ACKGNOWLEDGE_SERVER_CONFIGURATION_ID,
     SERVERBOUND_KNOWN_PACKS_CONFIGURATION_ID
<1>3. 1 \in DOMAIN <<"login_play">> /\ <<"login_play">>[1] = "login_play"
  OBVIOUS
<1> QED BY <1>2, <1>3 DEF ToSet

\* What a division leaves, of whatever number of turns.
LEMMA Remainder ==
  ASSUME NEW t \in Nat \ {0}, NEW x \in Int, NEW y \in Int
  PROVE  /\ (x * t + y) % t \in 0 .. t - 1
         /\ y \in 0 .. t - 1 => (x * t + y) % t = y
<1> DEFINE n == x * t + y
           q == n \div t
           r == n % t
<1>1. n \in Int
  OBVIOUS
<1> HIDE DEF n
<1>2. q \in Int /\ r \in 0 .. t - 1 /\ n = t * q + r
  BY <1>1
<1> HIDE DEF q, r
<1>3. ASSUME y \in 0 .. t - 1 PROVE r = y
  <2>1. x * t + y = t * q + r
    BY <1>2 DEF n
  <2>2. CASE q >= x + 1
    <3>1. t * q >= t * x + t
      BY <1>2, <2>2
    <3> QED BY <1>2, <1>3, <2>1, <3>1
  <2>3. CASE q <= x - 1
    <3>1. t * q <= t * x - t
      BY <1>2, <2>3
    <3> QED BY <1>2, <1>3, <2>1, <3>1
  <2>4. CASE q = x
    BY <1>2, <1>3, <2>1, <2>4
  <2> QED BY <1>2, <2>2, <2>3, <2>4
<1> QED BY <1>2, <1>3 DEF n, r

\* A short is off by a number of turns of its bits, by none if it fits.
LEMMA ShortTurns ==
  ASSUME NEW n \in Int
  PROVE  /\ \E x \in Int : Short(n) = n - x * (2 * (ShortMax + 1))
         /\ Fits(n, ShortMax) => Short(n) = n
         /\ Short(n) \in -ShortMax - 1 .. ShortMax
<1> DEFINE h == ShortMax + 1
           t == 2 * h
           m == n + h
           q == m \div t
           r == m % t
<1>1. h \in Nat \ {0} /\ t \in Nat \ {0} /\ m \in Int
  BY WorldAssumption
<1>2. Short(n) = r - h
  BY WorldAssumption DEF Short
<1>3. Fits(n, ShortMax) => m \in 0 .. t - 1
  BY WorldAssumption DEF Fits
<1>4. m - h = n /\ h = ShortMax + 1 /\ t = 2 * h
  BY WorldAssumption
<1> HIDE DEF h, t, m
<1>5. q \in Int /\ r \in 0 .. t - 1 /\ m = q * t + r
  BY <1>1
<1>6. m \in 0 .. t - 1 => r = m
  <2>1. 0 * t + m = m
    BY <1>1
  <2> QED BY <1>1, <2>1, Remainder
<1> HIDE DEF q, r
<1>7. r - h = n - q * t
  BY <1>1, <1>4, <1>5
<1>8. r - h \in -ShortMax - 1 .. ShortMax
  BY <1>1, <1>4, <1>5, WorldAssumption
<1> QED BY <1>1, <1>2, <1>3, <1>4, <1>5, <1>6, <1>7, <1>8

\* The difference in units is the move, but for a part of a unit.
LEMMA UnitsNear ==
  ASSUME NEW from \in Int, NEW to \in Int
  PROVE  /\ Units(from, to) \in Int
         /\ Parts * Units(from, to) - (to - from) <= Parts - 1
         /\ (to - from) - Parts * Units(from, to) <= Parts - 1
<1>1. Parts \in Nat \ {0}
  BY WorldAssumption
<1>2. ASSUME NEW n \in Int
      PROVE  /\ n \div Parts \in Int
             /\ n - Parts * (n \div Parts) \in 0 .. Parts - 1
  <2> DEFINE q == n \div Parts
             r == n % Parts
  <2>1. q \in Int /\ r \in 0 .. Parts - 1 /\ n = Parts * q + r
    BY <1>1
  <2> HIDE DEF q, r
  <2> QED BY <1>1, <2>1 DEF q
<1>3. CASE to >= from
  <2> DEFINE q == (to - from) \div Parts
  <2>1. q \in Int /\ (to - from) - Parts * q \in 0 .. Parts - 1
    BY <1>2
  <2>2. Units(from, to) = q
    BY <1>3 DEF Units
  <2> HIDE DEF q
  <2> QED BY <1>1, <2>1, <2>2
<1>4. CASE ~(to >= from)
  <2> DEFINE q == (from - to) \div Parts
  <2>1. q \in Int /\ (from - to) - Parts * q \in 0 .. Parts - 1
    BY <1>2
  <2>2. Units(from, to) = -q
    BY <1>4 DEF Units
  <2> HIDE DEF q
  <2>3. Parts * (-q) = -(Parts * q)
    BY <1>1, <2>1
  <2> QED BY <1>1, <2>1, <2>2, <2>3
<1> QED BY <1>3, <1>4

\* The differences that may be sent are numbers.
LEMMA DeltasType ==
  ASSUME NEW from \in Int, NEW to \in Int
  PROVE  Deltas(from, to) \subseteq Int
<1>1. Units(from, to) \in Int
  BY UnitsNear
<1>2. Short(Units(from, to)) \in -ShortMax - 1 .. ShortMax
  BY <1>1, ShortTurns
<1>3. -ShortMax - 1 .. ShortMax \subseteq Int
  BY WorldAssumption
<1> QED BY <1>2, <1>3 DEF Deltas

\* Nobody who was welcomed gets anything early.
LEMMA SentInPlay ==
  ASSUME NEW kind, NEW js, NEW in, js \subseteq in,
         NEW log, log = [j \in Slots |-> log[j]]
  PROVE  Sent(kind, js, in, log) = log
BY DEF Sent

\* Packets are noted under their kinds.
LEMMA SentType ==
  ASSUME NEW kind \in Kinds, NEW js, NEW in,
         NEW log \in [Slots -> SUBSET Kinds]
  PROVE  Sent(kind, js, in, log) \in [Slots -> SUBSET Kinds]
BY DEF Sent

-----------------------------------------------------------------------------
(* Initially, and the steps that keep to one slot.                         *)

LEMMA InitIInv == Init => IInv
<1> SUFFICES ASSUME Init PROVE IInv
  OBVIOUS
<1>1. Playing(state) = {}
  BY StatesDistinct DEF Init, Playing
<1>2. TypeOK
  <2>1. [k \in Slots |-> 0] \in [Slots -> 0 .. MaxMoves]
    BY WorldAssumption
  <2> QED BY <2>1 DEF Init, TypeOK, Nothing
<1>3. OnlyTabListEarly
  BY DEF Init, OnlyTabListEarly
<1> QED BY <1>1, <1>2, <1>3
        DEF IInv, PlayingWelcomed, PlayersSeeEachOther, ListedByName

LEMMA JoinIInv ==
  ASSUME IInv, Join
  PROVE  IInv'
<1>1. PICK k \in Slots :
        /\ state[k] = Free
        /\ state' = [state EXCEPT ![k] = Handshaking]
        /\ loc' = [loc EXCEPT ![k] = 0]
        /\ moves' = [moves EXCEPT ![k] = 0]
        /\ jumps' = [jumps EXCEPT ![k] = {}]
        /\ UNCHANGED <<welcomed, early, seen, ghosts, names>>
  BY DEF Join
<1>2. Playing(state)' = Playing(state)
  BY <1>1, StatesDistinct DEF IInv, TypeOK, Playing
<1>3. Occupied(state) \subseteq Occupied(state)'
  BY <1>1, StatesDistinct DEF IInv, TypeOK, Occupied
<1>4. TypeOK'
  <2>1. /\ state' \in [Slots -> ConnectionStates \cup {Free}]
        /\ loc' \in [Slots -> Int]
        /\ moves' \in [Slots -> 0 .. MaxMoves]
        /\ jumps' \in [Slots -> SUBSET {"wrapped", "undefined"}]
    BY <1>1, StatesDistinct, WorldAssumption DEF IInv, TypeOK
  <2>2. welcomed' \subseteq Occupied(state)' /\ named' \subseteq Occupied(state)'
    BY <1>1, <1>3 DEF IInv, TypeOK, names
  <2> QED BY <1>1, <2>1, <2>2 DEF IInv, TypeOK, names
<1> QED BY <1>1, <1>2, <1>4
        DEF IInv, names, PlayingWelcomed, PlayersSeeEachOther, ListedByName,
            OnlyTabListEarly

\* A player that leaves takes with it what was known of it and to it.
LEMMA LeaveIInv ==
  ASSUME IInv, NEW k \in Slots, Leave(k)
  PROVE  IInv'
<1>1. /\ Playing(state)' = Playing(state) \ {k}
      /\ Occupied(state)' = Occupied(state) \ {k}
  BY StatesDistinct DEF IInv, TypeOK, Leave, Playing, Occupied
<1>2. TypeOK'
  <2>1. listed' \subseteq (welcomed' \X named')
    BY DEF IInv, TypeOK, Leave, Unlisted
  <2>2. ghosts' \subseteq Slots \X Slots
    BY DEF IInv, TypeOK, Leave
  <2> QED BY <1>1, <2>1, <2>2 DEF IInv, TypeOK, Leave, Nothing, history
<1>3. PlayingWelcomed'
  BY <1>1 DEF IInv, PlayingWelcomed, Leave
<1>4. PlayersSeeEachOther'
  <2> SUFFICES ASSUME NEW j \in Playing(state) \ {k},
                      NEW i \in Playing(state) \ {k}, j # i
               PROVE  seen'[j][i] # Unknown /\ <<j, i>> \notin ghosts'
    BY <1>1 DEF PlayersSeeEachOther
  <2>1. seen[j][i] # Unknown /\ <<j, i>> \notin ghosts
    BY DEF IInv, PlayersSeeEachOther
  <2>2. seen'[j] = seen[j]
    BY DEF IInv, TypeOK, Leave, Playing
  <2>3. <<j, i>> \notin {<<h, k>> : h \in {h \in Slots \ {k} : seen[h][k] # Unknown}}
    OBVIOUS
  <2> QED BY <2>1, <2>2, <2>3 DEF Leave
<1>5. ListedByName'
  BY <1>1 DEF IInv, ListedByName, Leave, Unlisted
<1>6. OnlyTabListEarly'
  BY DEF IInv, TypeOK, OnlyTabListEarly, Leave
<1> QED BY <1>2, <1>3, <1>4, <1>5, <1>6 DEF IInv

\* Steps that send packets to players in play, and do nothing else.
LEMMA SendingIInv ==
  ASSUME IInv, NEW kind \in Kinds, NEW js, js \subseteq Playing(state),
         early' = Sent(kind, js, welcomed, early),
         UNCHANGED <<state, loc, welcomed, seen, ghosts, history, names>>
  PROVE  IInv'
<1>1. early' = early
  <2>1. js \subseteq welcomed /\ early = [j \in Slots |-> early[j]]
    BY DEF IInv, TypeOK, PlayingWelcomed
  <2> QED BY <2>1, SentInPlay
<1> QED BY <1>1 DEF IInv, TypeOK, PlayingWelcomed, PlayersSeeEachOther,
        ListedByName, OnlyTabListEarly, Playing, Occupied, names, history

LEMMA TickIInv ==
  ASSUME IInv, Tick
  PROVE  IInv'
<1>1. "keep_alive" \in Kinds
  BY DEF Kinds
<1> QED BY <1>1, SendingIInv DEF Tick

LEMMA ChatIInv ==
  ASSUME IInv, NEW k \in Slots, Chat(k)
  PROVE  IInv'
<1>1. "system_chat" \in Kinds
  BY DEF Kinds
<1>2. {k} \subseteq Playing(state)
  BY DEF Chat, Playing
<1> QED BY <1>1, <1>2, SendingIInv DEF Chat

LEMMA MoveIInv ==
  ASSUME IInv, NEW k \in Slots, NEW to \in Positions, Move(k, to)
  PROVE  IInv'
<1> DEFINE js == Playing(state) \ {k}
<1>0. PICK d \in Deltas(loc[k], to) :
        seen' = [j \in Slots |-> IF j \in js /\ seen[j][k] # Unknown
                  THEN [seen[j] EXCEPT ![k] = @ + Parts * d] ELSE seen[j]]
  BY DEF Move, on_move_cb
<1>1. /\ to \in Int /\ loc[k] \in Int /\ Parts \in Int
      /\ d \in Int
  BY DeltasType, WorldAssumption DEF IInv, TypeOK
<1>2. early' = early
  <2>1. js \subseteq welcomed /\ early = [j \in Slots |-> early[j]]
    BY DEF IInv, TypeOK, PlayingWelcomed
  <2> QED BY <2>1, SentInPlay DEF Move, on_move_cb
<1>4. Parts * d \in Int
  BY <1>1
<1>5. seen' \in [Slots -> [Slots -> Int \cup {Unknown}]]
  BY <1>0, <1>4 DEF IInv, TypeOK
<1>6. \A j, i \in Slots : seen[j][i] # Unknown => seen'[j][i] # Unknown
  <2> SUFFICES ASSUME NEW j \in Slots, NEW i \in Slots, seen[j][i] # Unknown
               PROVE  seen'[j][i] # Unknown
    OBVIOUS
  <2>1. seen[j][i] \in Int /\ seen[j] \in [Slots -> Int \cup {Unknown}]
    BY DEF IInv, TypeOK
  <2>2. seen[j][i] + Parts * d \in Int
    BY <2>1, <1>4
  <2>3. seen'[j][i] \in {seen[j][i], seen[j][i] + Parts * d}
    BY <1>0, <2>1
  <2> QED BY <2>1, <2>2, <2>3, WorldAssumption
<1>7. TypeOK'
  <2>1. loc' \in [Slots -> Int]
    BY <1>1 DEF IInv, TypeOK, Move
  <2>2. moves' \in [Slots -> 0 .. MaxMoves]
    BY WorldAssumption DEF IInv, TypeOK, Move
  <2>3. jumps' \in [Slots -> SUBSET {"wrapped", "undefined"}]
    BY DEF IInv, TypeOK, Move, Jump
  <2> QED BY <1>2, <1>5, <2>1, <2>2, <2>3
          DEF IInv, TypeOK, Move, names, Occupied
<1> QED BY <1>2, <1>6, <1>7
        DEF IInv, Move, names, PlayingWelcomed, PlayersSeeEachOther,
            ListedByName, OnlyTabListEarly, Playing

-----------------------------------------------------------------------------
(* The packets of a session.                                               *)

\* The player that comes into play is welcomed, named to everybody in play
\* and shown to them, and they to it.
LEMMA FinishIInv ==
  ASSUME IInv, NEW k \in Slots, state[k] # Free, state[k] # Play,
         state' = [state EXCEPT ![k] = Play],
         welcomed' = welcomed \cup {k},
         finish_configuration_cb(k, state', welcomed')
  PROVE  IInv'
<1> DEFINE pairs == Told(state', k)
           here == [loc EXCEPT ![k] = SpawnAt]
<1>1. /\ Playing(state)' = Playing(state) \cup {k}
      /\ Occupied(state)' = Occupied(state)
  BY StatesDistinct DEF IInv, TypeOK, Playing, Occupied
<1>2. /\ Playing(state)' \subseteq welcomed'
      /\ Playing(state)' \subseteq Occupied(state)'
  BY <1>1, StatesDistinct
     DEF IInv, PlayingWelcomed, Playing, Occupied, TypeOK
<1>3. pairs = {p \in Playing(state)' \X Occupied(state)' : p[1] # p[2]}
  BY DEF Told, Playing, Occupied
<1>4. /\ loc' = here
      /\ seen' = [j \in Slots |-> [i \in Slots |->
                    IF <<j, i>> \in pairs THEN here[i] ELSE seen[j][i]]]
      /\ ghosts' = ghosts \ pairs
      /\ moves' = [i \in Slots |-> 0]
      /\ jumps' = [i \in Slots |-> {}]
      /\ named' = named
      /\ listed' = listed \cup (Named(state', k) \cap (welcomed' \X named))
      /\ early' = Sent("spawn_entity", {p[1] : p \in pairs}, welcomed',
                    Sent("player_info_update", Occupied(state)', welcomed',
                      Sent("game_event", {k}, welcomed', early)))
  BY DEF finish_configuration_cb, Occupied
<1>5. here \in [Slots -> Int]
  BY WorldAssumption DEF IInv, TypeOK
<1> HIDE DEF pairs, here
<1>6. early' = Sent("player_info_update", Occupied(state)', welcomed', early)
  <2>1. Sent("game_event", {k}, welcomed', early) = early
    BY SentInPlay DEF IInv, TypeOK
  <2> DEFINE log == Sent("player_info_update", Occupied(state)', welcomed', early)
  <2>2. log = [j \in Slots |-> log[j]]
    BY DEF Sent
  <2>3. {p[1] : p \in pairs} \subseteq welcomed'
    BY <1>2, <1>3
  <2> HIDE DEF log
  <2>4. Sent("spawn_entity", {p[1] : p \in pairs}, welcomed', log) = log
    BY <2>2, <2>3, SentInPlay
  <2> QED BY <1>4, <2>1, <2>4 DEF log
<1>7. TypeOK'
  <2>1. state' \in [Slots -> ConnectionStates \cup {Free}]
    BY StatesDistinct DEF IInv, TypeOK
  <2>2. welcomed' \subseteq Occupied(state)' /\ named' \subseteq Occupied(state)'
    BY <1>1, <1>4 DEF IInv, TypeOK, Occupied
  <2>3. early' \in [Slots -> SUBSET Kinds]
    BY <1>6, SentType DEF IInv, TypeOK, Kinds
  <2>4. seen' \in [Slots -> [Slots -> Int \cup {Unknown}]]
    BY <1>4, <1>5 DEF IInv, TypeOK
  <2>5. /\ moves' \in [Slots -> 0 .. MaxMoves]
        /\ jumps' \in [Slots -> SUBSET {"wrapped", "undefined"}]
    BY <1>4, WorldAssumption
  <2>6. listed' \subseteq (welcomed' \X named')
    BY <1>4 DEF IInv, TypeOK
  <2>7. ghosts' \subseteq Slots \X Slots
    BY <1>4 DEF IInv, TypeOK
  <2> QED BY <1>4, <1>5, <2>1, <2>2, <2>3, <2>4, <2>5, <2>6, <2>7 DEF TypeOK
<1>8. PlayersSeeEachOther'
  <2> SUFFICES ASSUME NEW j \in Playing(state)', NEW i \in Playing(state)', j # i
               PROVE  seen'[j][i] # Unknown /\ <<j, i>> \notin ghosts'
    BY DEF PlayersSeeEachOther
  <2>1. <<j, i>> \in pairs
    BY <1>2, <1>3
  <2>2. j \in Slots /\ i \in Slots
    BY DEF Playing
  <2>3. seen'[j][i] = here[i]
    BY <1>4, <2>1, <2>2
  <2>4. here[i] \in Int
    BY <1>5, <2>2
  <2> QED BY <1>4, <2>1, <2>3, <2>4, WorldAssumption
<1>9. ListedByName'
  <2> SUFFICES ASSUME NEW j \in Playing(state)', NEW i \in Playing(state)',
                      i \in named'
               PROVE  <<j, i>> \in listed'
    BY DEF ListedByName
  <2>1. <<j, i>> \in Named(state', k)
    BY <1>2 DEF Named, Occupied
  <2>2. <<j, i>> \in welcomed' \X named
    BY <1>2, <1>4
  <2> QED BY <1>4, <2>1, <2>2
<1>10. OnlyTabListEarly'
  BY <1>6 DEF IInv, OnlyTabListEarly, Sent
<1> QED BY <1>2, <1>7, <1>8, <1>9, <1>10 DEF IInv, PlayingWelcomed

\* Any other accepted packet: nobody comes into play or leaves it; a login
\* that starts, and takes the old name off the lists, is not of a player in
\* play.
LEMMA ProceedIInv ==
  ASSUME IInv, NEW k \in Slots, NEW p, Handle(k, p),
         ~(NextState(state[k], p) = Play /\ state[k] # Play)
  PROVE  IInv'
<1>1. /\ state[k] \in ConnectionStates
      /\ NextState(state[k], p) \in ConnectionStates
  BY NextStateType DEF IInv, TypeOK, Handle
<1>2. state' = [state EXCEPT ![k] = NextState(state[k], p)]
  BY DEF Handle
<1>3. Playing(state)' \subseteq Playing(state)
  BY <1>1, <1>2 DEF IInv, TypeOK, Playing
<1>4. Occupied(state)' = Occupied(state)
  BY <1>1, <1>2, StatesDistinct DEF IInv, TypeOK, Occupied
<1>5. k \in Occupied(state)
  BY <1>1, StatesDistinct DEF Occupied
<1>6. /\ welcomed' \in {welcomed, welcomed \cup {k}}
      /\ UNCHANGED <<loc, early, seen, ghosts, history>>
      /\ \/ UNCHANGED names
         \/ /\ "login_success" \in ToSet(Replies(state[k], p))
            /\ named' = named \cup {k} /\ listed' = Unlisted(k)
  BY <1>2 DEF Handle, IInv, TypeOK
<1>7. ASSUME "login_success" \in ToSet(Replies(state[k], p))
      PROVE  k \notin Playing(state)'
  <2>1. state[k] = Login /\ p.id = LOGIN_START_ID
    <3> SUFFICES ASSUME ~(state[k] = Login /\ p.id = LOGIN_START_ID)
                 PROVE  FALSE
      OBVIOUS
    <3>1. Replies(state[k], p) \in
            {<<"clientbound_known_packs">>, <<"login_play">>, <<>>,
             <<"registry_data", "finish_configuration">>}
      BY DEF Replies, Registries, Welcome
    <3> QED BY <1>7, <3>1 DEF ToSet
  <2>2. NextState(state[k], p) = Login
    BY <2>1 DEF NextState, IsHandshake, Acknowledges, Login, Handshaking,
       Configuration,
       LOGIN_START_ID, LOGIN_ACKNOWLEDGED_ID
  <2> QED BY <1>2, <2>2 DEF IInv, TypeOK, Playing, Login, Play
<1>8. TypeOK'
  <2>1. state' \in [Slots -> ConnectionStates \cup {Free}]
    BY <1>1, <1>2 DEF IInv, TypeOK
  <2>2. welcomed' \subseteq Occupied(state)' /\ named' \subseteq Occupied(state)'
    BY <1>4, <1>5, <1>6 DEF IInv, TypeOK, names
  <2>3. listed' \subseteq (welcomed' \X named')
    BY <1>6 DEF IInv, TypeOK, names, Unlisted
  <2> QED BY <1>6, <2>1, <2>2, <2>3 DEF IInv, TypeOK, history
<1>9. ListedByName'
  <2> SUFFICES ASSUME NEW j \in Playing(state)', NEW i \in Playing(state)',
                      i \in named'
               PROVE  <<j, i>> \in listed'
    BY DEF ListedByName
  <2>1. CASE UNCHANGED names
    BY <1>3, <2>1 DEF IInv, ListedByName, names
  <2>2. CASE /\ "login_success" \in ToSet(Replies(state[k], p))
             /\ named' = named \cup {k} /\ listed' = Unlisted(k)
    <3>1. j # k /\ i # k
      BY <1>7, <2>2
    <3>2. <<j, i>> \in listed
      BY <1>3, <2>2, <3>1 DEF IInv, ListedByName
    <3> QED BY <2>2, <3>1, <3>2 DEF Unlisted
  <2> QED BY <1>6, <2>1, <2>2
<1> QED BY <1>3, <1>6, <1>8, <1>9
        DEF IInv, PlayingWelcomed, PlayersSeeEachOther, OnlyTabListEarly

LEMMA HandleIInv ==
  ASSUME IInv, NEW k \in Slots, NEW p, Handle(k, p)
  PROVE  IInv'
<1>1. CASE NextState(state[k], p) = Play /\ state[k] # Play
  <2>1. state[k] \in ConnectionStates /\ state[k] # Free
    BY StatesDistinct DEF IInv, TypeOK, Handle
  <2>2. "login_play" \in ToSet(Replies(state[k], p))
    BY <1>1, <2>1, PlayIsWelcomed DEF Handle
  <2>3. /\ state' = [state EXCEPT ![k] = Play]
        /\ welcomed' = welcomed \cup {k}
    BY <1>1, <2>2 DEF Handle
  <2>4. state'[k] = Play
    BY <2>3 DEF IInv, TypeOK
  <2>5. finish_configuration_cb(k, state', welcomed')
    BY <1>1, <2>3, <2>4 DEF Handle
  <2> QED BY <1>1, <2>1, <2>3, <2>5, FinishIInv
<1>2. CASE ~(NextState(state[k], p) = Play /\ state[k] # Play)
  BY <1>2, ProceedIInv
<1> QED BY <1>1, <1>2

-----------------------------------------------------------------------------
(* The theorems.                                                           *)

LEMMA NextIInv ==
  ASSUME IInv, [Next]_vars
  PROVE  IInv'
<1>1. CASE Join
  BY <1>1, JoinIInv
<1>2. ASSUME NEW k \in Slots, HangUp(k)
      PROVE  IInv'
  BY <1>2, LeaveIInv DEF HangUp
<1>3. ASSUME NEW k \in Slots, NEW p \in Packets, Handle(k, p)
      PROVE  IInv'
  BY <1>3, HandleIInv
<1>4. ASSUME NEW k \in Slots, NEW p \in Packets, Refuse(k, p)
      PROVE  IInv'
  BY <1>4, LeaveIInv DEF Refuse
<1>5. ASSUME NEW k \in Slots, NEW to \in Positions, Move(k, to)
      PROVE  IInv'
  BY <1>5, MoveIInv
<1>6. ASSUME NEW k \in Slots, Chat(k)
      PROVE  IInv'
  BY <1>6, ChatIInv
<1>7. CASE Tick
  BY <1>7, TickIInv
<1>8. CASE UNCHANGED vars
  BY <1>8 DEF vars, names, history, IInv, TypeOK, PlayingWelcomed,
     PlayersSeeEachOther, ListedByName, OnlyTabListEarly, Playing, Occupied
<1> QED BY <1>1, <1>2, <1>3, <1>4, <1>5, <1>6, <1>7, <1>8 DEF Next

\* The inductive invariant: types, who is in play was welcomed, and the three
\* properties, each of which the steps keep with the others' help.
THEOREM Invariant == Spec => []IInv
<1>1. Init => IInv
  BY InitIInv
<1>2. IInv /\ [Next]_vars => IInv'
  BY NextIInv
<1> QED BY <1>1, <1>2, PTL DEF Spec

\* Every variable keeps its type; a tab list is kept only for clients that
\* were sent login_play and names only players with a name.
THEOREM TypeCorrect == Spec => []TypeOK
<1>1. IInv => TypeOK
  BY DEF IInv
<1> QED BY <1>1, Invariant, PTL

\* In whatever order players join, log in, leave and take over slots, any two
\* in play have been told about each other (finish_configuration_cb).
THEOREM PlayersSeeEachOtherHolds == Spec => []PlayersSeeEachOther
<1>1. IInv => PlayersSeeEachOther
  BY DEF IInv
<1> QED BY <1>1, Invariant, PTL

\* However their logins overlap, players in play have each other in their tab
\* lists under the name they logged in with (update_tab_list).
THEOREM ListedByNameHolds == Spec => []ListedByName
<1>1. IInv => ListedByName
  BY DEF IInv
<1> QED BY <1>1, Invariant, PTL

\* No callback but update_tab_list sends a packet of the play state to a
\* client before its login_play.
THEOREM OnlyTabListEarlyHolds == Spec => []OnlyTabListEarly
<1>1. IInv => OnlyTabListEarly
  BY DEF IInv
<1> QED BY <1>1, Invariant, PTL

-----------------------------------------------------------------------------
(* Where players see each other.                                           *)

\* A number and its opposite are within a bound.
Within(n, bound) == n <= bound /\ -n <= bound

\* The difference that is sent is the move, but for a part of a unit and for
\* turns of the bits of a short, of which there are none if it fits.
LEMMA DeltaNear ==
  ASSUME NEW from \in Int, NEW to \in Int, NEW d \in Deltas(from, to)
  PROVE  /\ Jump(from, to) = {} => Within(Parts * d - (to - from), Parts - 1)
         /\ "undefined" \notin Jump(from, to) =>
              \E x \in Int : Within(Parts * d - (to - from) - x * Turn, Parts - 1)
<1> DEFINE n == Units(from, to)
           s == 2 * (ShortMax + 1)
<1>1. Parts \in Nat \ {0} /\ s \in Int /\ Turn = Parts * s
  BY WorldAssumption DEF Turn
<1>2. /\ n \in Int
      /\ Within(Parts * n - (to - from), Parts - 1)
  <2>1. /\ n \in Int
        /\ Parts * n - (to - from) <= Parts - 1
        /\ (to - from) - Parts * n <= Parts - 1
    BY UnitsNear
  <2> HIDE DEF n
  <2>2. Parts * n \in Int
    BY <1>1, <2>1
  <2>3. (to - from) - Parts * n = -(Parts * n - (to - from))
    BY <2>2
  <2> QED BY <2>1, <2>3 DEF Within
<1>3. /\ Jump(from, to) = {} => Fits(n, ShortMax)
      /\ "undefined" \notin Jump(from, to) => d = Short(n)
      /\ Fits(n, ShortMax) => "undefined" \notin Jump(from, to)
  <2>1. Fits(n, ShortMax) => Fits(n, IntMax)
    BY <1>2, WorldAssumption DEF Fits
  <2>2. Jump(from, to) =
          IF Fits(n, ShortMax) THEN {}
          ELSE {IF Fits(n, IntMax) THEN "wrapped" ELSE "undefined"}
    BY DEF Jump
  <2>3. Fits(n, IntMax) => d = Short(n)
    BY DEF Deltas
  <2> HIDE DEF n
  <2> QED BY <2>1, <2>2, <2>3
<1> HIDE DEF n
<1>4. ASSUME Jump(from, to) = {}
      PROVE  Within(Parts * d - (to - from), Parts - 1)
  <2>1. d = n
    BY <1>2, <1>3, <1>4, ShortTurns
  <2> QED BY <1>2, <2>1
<1>5. ASSUME "undefined" \notin Jump(from, to)
      PROVE  \E x \in Int : Within(Parts * d - (to - from) - x * Turn, Parts - 1)
  <2>1. PICK x \in Int : d = n - x * s
    BY <1>2, <1>3, <1>5, ShortTurns
  <2> HIDE DEF s
  <2>2. Parts * d - (to - from) - (-x) * Turn = Parts * n - (to - from)
    <3>1. Parts * (n - x * s) = Parts * n - x * (Parts * s)
      BY <1>1, <1>2, <2>1
    <3>2. x * (Parts * s) \in Int /\ (-x) * (Parts * s) = -(x * (Parts * s))
      BY <1>1, <2>1
    <3>3. Parts * n \in Int
      BY <1>1, <1>2
    <3> QED BY <1>1, <2>1, <3>1, <3>2, <3>3
  <2>3. -x \in Int
    BY <2>1
  <2> QED BY <1>2, <2>2, <2>3
<1> QED BY <1>4, <1>5

\* Another move, another part of a unit.
LEMMA OneMoreMove ==
  ASSUME NEW off \in Int, NEW r \in Int, NEW m \in Nat,
         Within(off, m * (Parts - 1)), Within(r, Parts - 1)
  PROVE  Within(off + r, (m + 1) * (Parts - 1))
<1> DEFINE P == Parts - 1
           B == m * P
<1>1. P \in Int /\ B \in Int /\ (m + 1) * P = B + P
  BY WorldAssumption
<1> HIDE DEF P, B
<1>2. off + r <= B + P /\ -(off + r) <= B + P
  BY <1>1 DEF P, B, Within
<1> QED BY <1>1, <1>2 DEF P, Within

\* SeenWhereTheyAre for two players: the turns are counted.
SeenWithin(j, k) ==
  LET off == seen[j][k] - loc[k]
      lost == moves[k] * (Parts - 1)
  IN /\ jumps[k] = {} => Within(off, lost)
     /\ "undefined" \notin jumps[k] =>
          \E x \in Int : Within(off - x * Turn, lost)

SeenAll == \A j, k \in Playing(state) : j # k => SeenWithin(j, k)

\* In play positions are known, and numbers.
LEMMA SeenType ==
  ASSUME IInv, NEW j \in Playing(state), NEW k \in Playing(state), j # k
  PROVE  /\ j \in Slots /\ k \in Slots
         /\ seen[j][k] \in Int /\ loc[k] \in Int /\ moves[k] \in Nat
<1>1. j \in Slots /\ k \in Slots
  BY DEF Playing
<1>2. /\ seen[j][k] \in Int \cup {Unknown} /\ loc[k] \in Int
      /\ moves[k] \in 0 .. MaxMoves
  BY <1>1 DEF IInv, TypeOK
<1>3. seen[j][k] # Unknown
  BY DEF IInv, PlayersSeeEachOther
<1>4. moves[k] \in Nat
  BY <1>2, WorldAssumption
<1> QED BY <1>1, <1>2, <1>3, <1>4

\* A turn is a number.
LEMMA TurnType == Turn \in Nat \ {0}
<1>1. Parts \in Nat \ {0} /\ 2 * (ShortMax + 1) \in Nat \ {0}
  BY WorldAssumption
<1>2. \A a, b \in Nat \ {0} : a * b \in Nat \ {0}
  OBVIOUS
<1>3. Turn = Parts * (2 * (ShortMax + 1))
  BY <1>1, WorldAssumption DEF Turn
<1> QED BY <1>1, <1>2, <1>3

\* Steps that leave those in play, their positions and moves alone.
LEMMA SeenSame ==
  ASSUME SeenAll, Playing(state)' \subseteq Playing(state),
         \A j, k \in Playing(state)' :
           /\ seen'[j][k] = seen[j][k]
           /\ loc'[k] = loc[k] /\ moves'[k] = moves[k] /\ jumps'[k] = jumps[k]
  PROVE  SeenAll'
BY DEF SeenAll, SeenWithin, Turn

LEMMA MoveSeen ==
  ASSUME IInv, IInv', SeenAll, NEW k \in Slots, NEW to \in Positions, Move(k, to)
  PROVE  SeenAll'
<1>0. PICK d \in Deltas(loc[k], to) :
        seen' = [j \in Slots |->
           IF j \in Playing(state) \ {k} /\ seen[j][k] # Unknown
           THEN [seen[j] EXCEPT ![k] = @ + Parts * d] ELSE seen[j]]
  BY DEF Move, on_move_cb
<1> DEFINE r == Parts * d - (to - loc[k])
<1>1. /\ to \in Int /\ loc[k] \in Int /\ moves[k] \in Nat
      /\ d \in Int /\ Parts * d \in Int /\ r \in Int
  <2>1. to \in Int /\ loc[k] \in Int /\ moves[k] \in Nat /\ Parts \in Int
    BY WorldAssumption DEF IInv, TypeOK
  <2>2. d \in Int
    BY <2>1, DeltasType
  <2> QED BY <2>1, <2>2
<1>2. /\ Jump(loc[k], to) = {} => Within(r, Parts - 1)
      /\ "undefined" \notin Jump(loc[k], to) =>
           \E x \in Int : Within(r - x * Turn, Parts - 1)
  BY <1>1, DeltaNear
<1>3. /\ state' = state
      /\ loc' = [loc EXCEPT ![k] = to]
      /\ moves' = [moves EXCEPT ![k] = @ + 1]
      /\ jumps' = [jumps EXCEPT ![k] = @ \cup Jump(loc[k], to)]
  BY DEF Move
<1>4. Playing(state)' = Playing(state) /\ Playing(state) \subseteq Slots
  BY <1>3 DEF Playing
<1> SUFFICES ASSUME NEW j \in Playing(state), NEW i \in Playing(state), j # i
             PROVE  SeenWithin(j, i)'
  BY <1>4 DEF SeenAll
<1>5. /\ j \in Slots /\ i \in Slots
      /\ seen[j][i] \in Int /\ loc[i] \in Int /\ moves[i] \in Nat
      /\ SeenWithin(j, i)
  BY SeenType DEF SeenAll
<1>6. CASE i # k
  <2>1. seen'[j][i] = seen[j][i]
    BY <1>0, <1>5, <1>6 DEF IInv, TypeOK
  <2>2. loc'[i] = loc[i] /\ moves'[i] = moves[i] /\ jumps'[i] = jumps[i]
    BY <1>3, <1>5, <1>6 DEF IInv, TypeOK
  <2> QED BY <1>5, <2>1, <2>2 DEF SeenWithin, Turn
<1>7. CASE i = k
  <2> DEFINE off == seen[j][k] - loc[k]
             lost == moves[k] * (Parts - 1)
             more == (moves[k] + 1) * (Parts - 1)
  <2>1. /\ seen[j][k] \in Int /\ seen[j][k] # Unknown
        /\ off \in Int
    BY <1>1, <1>5, <1>7, WorldAssumption
  <2>2. seen'[j][k] = seen[j][k] + Parts * d
    BY <1>0, <1>5, <1>7, <2>1 DEF IInv, TypeOK
  <2>3. /\ loc'[k] = to /\ moves'[k] = moves[k] + 1
        /\ jumps'[k] = jumps[k] \cup Jump(loc[k], to)
    BY <1>3 DEF IInv, TypeOK
  <2>4. seen'[j][k] - loc'[k] = off + r
    BY <1>1, <2>1, <2>2, <2>3
  <2>5. /\ jumps[k] = {} => Within(off, lost)
        /\ "undefined" \notin jumps[k] => \E x \in Int : Within(off - x * Turn, lost)
    BY <1>5, <1>7 DEF SeenWithin
  <2> HIDE DEF off, r
  <2>6. ASSUME jumps'[k] = {}
        PROVE  Within(off + r, more)
    <3>1. Within(off, lost) /\ Within(r, Parts - 1)
      BY <1>2, <2>3, <2>5, <2>6
    <3> QED BY <1>1, <2>1, <3>1, OneMoreMove
  <2>7. ASSUME "undefined" \notin jumps'[k]
        PROVE  \E x \in Int : Within((off + r) - x * Turn, more)
    <3>1. PICK x \in Int : Within(off - x * Turn, lost)
      BY <2>3, <2>5, <2>7
    <3>2. PICK y \in Int : Within(r - y * Turn, Parts - 1)
      BY <1>2, <2>3, <2>7
    <3>3. /\ off - x * Turn \in Int /\ r - y * Turn \in Int
          /\ (off - x * Turn) + (r - y * Turn) = (off + r) - (x + y) * Turn
      <4>1. x * Turn \in Int /\ y * Turn \in Int
            /\ (x + y) * Turn = x * Turn + y * Turn
        BY TurnType, <3>1, <3>2
      <4> QED BY <1>1, <2>1, <4>1
    <3>4. Within((off - x * Turn) + (r - y * Turn), more)
      BY <1>1, <3>1, <3>2, <3>3, OneMoreMove
    <3>5. x + y \in Int
      BY <3>1, <3>2
    <3> QED BY <3>3, <3>4, <3>5
  <2>8. Turn' = Turn /\ moves'[k] * (Parts - 1) = more
    BY <2>3 DEF Turn
  <2> HIDE DEF more
  <2>9. jumps'[k] = {} =>
          Within(seen'[j][k] - loc'[k], moves'[k] * (Parts - 1))
    BY <2>4, <2>6, <2>8
  <2>10. ASSUME "undefined" \notin jumps'[k]
         PROVE  \E x \in Int : Within(seen'[j][k] - loc'[k] - x * Turn',
                                      moves'[k] * (Parts - 1))
    <3>1. PICK x \in Int : Within((off + r) - x * Turn, more)
      BY <2>7, <2>10
    <3>2. Within(seen'[j][k] - loc'[k] - x * Turn', moves'[k] * (Parts - 1))
      BY <2>4, <2>8, <3>1
    <3> QED BY <3>2
  <2> QED BY <1>7, <2>9, <2>10, Zenon DEF SeenWithin, Within
<1> QED BY <1>6, <1>7

\* Who comes into play is shown to the others where it is, and they to it.
LEMMA FinishSeen ==
  ASSUME IInv, IInv', NEW k \in Slots, finish_configuration_cb(k, state', welcomed')
  PROVE  SeenAll'
<1> DEFINE here == [loc EXCEPT ![k] = SpawnAt]
<1>1. /\ loc' = here
      /\ seen' = [j \in Slots |-> [i \in Slots |->
                    IF <<j, i>> \in Told(state', k) THEN here[i] ELSE seen[j][i]]]
      /\ moves' = [i \in Slots |-> 0]
  BY DEF finish_configuration_cb
<1> HIDE DEF here
<1> SUFFICES ASSUME NEW j \in Playing(state)', NEW i \in Playing(state)', j # i
             PROVE  SeenWithin(j, i)'
  BY DEF SeenAll
<1>2. j \in Slots /\ i \in Slots /\ <<j, i>> \in Told(state', k)
  BY StatesDistinct DEF Told, Playing, Occupied
<1>3. seen'[j][i] = loc'[i] /\ moves'[i] = 0
  BY <1>1, <1>2
<1>4. loc'[i] \in Int /\ Parts \in Nat \ {0}
  BY <1>2, WorldAssumption DEF IInv, TypeOK
<1>5. seen'[j][i] - loc'[i] = 0 /\ moves'[i] * (Parts - 1) = 0
  BY <1>3, <1>4
<1>6. Turn' \in Int /\ 0 - 0 * Turn' = 0
  BY TurnType DEF Turn
<1> QED BY <1>5, <1>6 DEF SeenWithin, Within

LEMMA SeenStep ==
  ASSUME IInv, IInv', SeenAll, [Next]_vars
  PROVE  SeenAll'
<1>1. CASE Join
  <2>1. PICK k \in Slots : /\ state[k] = Free
                           /\ state' = [state EXCEPT ![k] = Handshaking]
                           /\ loc' = [loc EXCEPT ![k] = 0]
                           /\ moves' = [moves EXCEPT ![k] = 0]
                           /\ jumps' = [jumps EXCEPT ![k] = {}]
                           /\ seen' = seen
    BY <1>1 DEF Join
  <2>2. Playing(state)' \subseteq Playing(state) \ {k}
    BY <2>1, StatesDistinct DEF IInv, TypeOK, Playing
  <2>3. \A i \in Playing(state)' :
          loc'[i] = loc[i] /\ moves'[i] = moves[i] /\ jumps'[i] = jumps[i]
    BY <2>1, <2>2 DEF IInv, TypeOK, Playing
  <2> QED BY <2>1, <2>2, <2>3, SeenSame
<1>2. ASSUME NEW k \in Slots, Leave(k)
      PROVE  SeenAll'
  <2>1. Playing(state)' \subseteq Playing(state) \ {k}
    BY <1>2, StatesDistinct DEF IInv, TypeOK, Leave, Playing
  <2>2. \A j \in Playing(state)' : seen'[j] = seen[j]
    BY <1>2, <2>1 DEF IInv, TypeOK, Leave, Playing
  <2>3. loc' = loc /\ moves' = moves /\ jumps' = jumps
    BY <1>2 DEF Leave, history
  <2> QED BY <2>1, <2>2, <2>3, SeenSame
<1>3. ASSUME NEW k \in Slots, NEW p \in Packets, Handle(k, p)
      PROVE  SeenAll'
  <2>1. /\ state' = [state EXCEPT ![k] = NextState(state[k], p)]
        /\ state[k] \in ConnectionStates
    BY <1>3 DEF Handle, IInv, TypeOK
  <2>2. state'[k] = NextState(state[k], p)
    BY <2>1 DEF IInv, TypeOK
  <2>3. CASE state'[k] = Play /\ state[k] # Play
    <3>1. finish_configuration_cb(k, state', welcomed')
      BY <1>3, <2>1, <2>2, <2>3 DEF Handle
    <3> QED BY <3>1, FinishSeen
  <2>4. CASE ~(state'[k] = Play /\ state[k] # Play)
    <3>1. UNCHANGED <<loc, seen, moves, jumps>>
      BY <1>3, <2>1, <2>2, <2>4 DEF Handle, history
    <3>2. Playing(state)' \subseteq Playing(state)
      BY <2>1, <2>4 DEF IInv, TypeOK, Playing
    <3> QED BY <3>1, <3>2, SeenSame
  <2> QED BY <2>3, <2>4
<1>4. ASSUME NEW k \in Slots, NEW to \in Positions, Move(k, to)
      PROVE  SeenAll'
  BY <1>4, MoveSeen
<1>5. CASE Tick \/ (\E k \in Slots : Chat(k)) \/ UNCHANGED vars
  <2>1. UNCHANGED <<state, loc, seen, moves, jumps>>
    BY <1>5 DEF Tick, Chat, vars, history
  <2>2. Playing(state)' = Playing(state)
    BY <2>1 DEF Playing
  <2> QED BY <2>1, <2>2, SeenSame
<1> QED BY <1>1, <1>2, <1>3, <1>4, <1>5 DEF Next, HangUp, Refuse

\* Whatever positions players report, any distance apart, each is seen where
\* it is, but for the parts of a unit its moves may have lost and, after moves
\* too long for a short, for whole turns of its bits (on_move_cb).  What a
\* conversion that C leaves undefined makes of it is the one exception.
THEOREM SeenWhereTheyAreHolds == Spec => []SeenWhereTheyAre
<1>1. Init => SeenAll
  BY StatesDistinct DEF Init, SeenAll, Playing
<1>2. IInv /\ IInv' /\ SeenAll /\ [Next]_vars => SeenAll'
  BY SeenStep
<1>3. ASSUME IInv, SeenAll PROVE SeenWhereTheyAre
  <2> DEFINE off(j, k) == seen[j][k] - loc[k]
             lost(k) == moves[k] * (Parts - 1)
  <2> SUFFICES ASSUME NEW j \in Playing(state), NEW k \in Playing(state), j # k
               PROVE  /\ jumps[k] = {} =>
                           -lost(k) <= off(j, k) /\ off(j, k) <= lost(k)
                      /\ "undefined" \notin jumps[k] =>
                           (off(j, k) + lost(k)) % Turn <= 2 * lost(k)
    BY DEF SeenWhereTheyAre
  <2>1. /\ off(j, k) \in Int /\ lost(k) \in Int
        /\ jumps[k] = {} => Within(off(j, k), lost(k))
        /\ "undefined" \notin jumps[k] =>
             \E x \in Int : Within(off(j, k) - x * Turn, lost(k))
    BY <1>3, SeenType, WorldAssumption DEF SeenAll, SeenWithin
  <2> HIDE DEF off, lost
  <2>2. ASSUME "undefined" \notin jumps[k]
        PROVE  (off(j, k) + lost(k)) % Turn <= 2 * lost(k)
    <3>1. PICK x \in Int : Within(off(j, k) - x * Turn, lost(k))
      BY <2>1, <2>2
    <3> DEFINE y == off(j, k) - x * Turn + lost(k)
    <3>2. Turn \in Nat \ {0} /\ x * Turn \in Int
      BY TurnType
    <3>3. /\ y \in Int /\ 0 <= y /\ y <= 2 * lost(k)
          /\ off(j, k) + lost(k) = x * Turn + y
      BY <2>1, <3>1, <3>2 DEF Within
    <3> HIDE DEF y
    <3>4. /\ (x * Turn + y) % Turn \in 0 .. Turn - 1
          /\ y \in 0 .. Turn - 1 => (x * Turn + y) % Turn = y
      BY <3>2, <3>3, Remainder
    <3> QED BY <2>1, <3>2, <3>3, <3>4
  <2> QED BY <2>1, <2>2 DEF Within
<1> QED BY <1>1, <1>2, <1>3, Invariant, PTL DEF Spec
=============================================================================
