------------------------------ MODULE MCCodec -------------------------------
(* Codec with bytes of three bits, and the packets of the tables in        *)
(* protocol/packets that between them have a field of every kind.          *)
EXTENDS Codec

F(kind) == [kind |-> kind, items |-> <<>>]
Fields(kinds) == [k \in DOMAIN kinds |-> F(kinds[k])]
Of(layout, vs, callback) ==
  [layout |-> <<F("var_int")>> \o layout, values |-> vs,
   callback |-> callback]

Plain == {
  <<<<"var_int", "var_str", "ushort", "var_int">>,            \* handshake
    <<<<0>>, <<9>>, <<1, 7, 0, 2, 5>>, <<41>>, <<2>>>>>>,
  <<<<"var_str", "long", "long">>,                            \* login_start
    <<<<0>>, <<6, 1>>, <<3000000>>, <<-5>>>>>>,
  <<<<"var_str", "byte", "var_int", "bool", "ubyte",          \* client_infor-
      "var_int", "bool", "bool", "var_int">>,                 \* mation
    <<<<0>>, <<>>, <<-4>>, <<1>>, <<0>>, <<7>>, <<4>>, <<1>>, <<1>>, <<0>>>>>>,
  <<<<"long", "long", "long", "byte">>,                       \* set_player_
    <<<<29>>, <<-1>>, <<8388607>>, <<-8388608>>, <<1>>>>>>,   \* position
  <<<<"int", "int", "byte">>,                                 \* _rotation
    <<<<31>>, <<-2048>>, <<2047>>, <<0>>>>>>,
  <<<<"var_int", "var_long", "short">>, <<<<2>>, <<127>>, <<511>>, <<-32>>>>>>,
  <<<<"var_long">>, <<<<2>>, <<300>>>>>>,
  <<<<"network_nbt", "bool">>, <<<<114>>, <<5, 0, 3>>, <<0>>>>>>, \* system_chat
  <<<<"var_str", "network_nbt">>, <<<<7>>, <<2>>, <<4, 4>>>>>>
  } \cup {<<<<"var_int">>, <<<<3>>, <<n>>>>>> : n \in Word}
  \cup {<<<<"position">>, <<<<91>>, <<x, y, z>>>>>> :
          x \in {-512, 0, 511}, y \in {-8, 7}, z \in {-512, -1, 300}}

Callback == {
  <<<<"var_str", "long", "long", "bool", "var_int">>,         \* chat_message
    <<<<8>>, <<1, 2, 3, 4>>, <<77>>, <<0>>, <<0>>, <<5>>>>>>,
  <<<<"ubyte">>, <<<<42>>, <<6>>>>>>}                         \* player_input

KnownPacks ==
  [kind |-> "list", items |-> <<"var_str", "var_str", "var_str">>]

MCPackets ==
  {Of(Fields(p[1]), p[2], FALSE) : p \in Plain}
  \cup {Of(Fields(p[1]), p[2], TRUE) : p \in Callback}
  \cup {Of(<<KnownPacks>>, <<<<7>>, <<n>>>>, FALSE) : n \in {0, 127}}
  \cup {Of(<<KnownPacks>>, <<<<7>>, <<2>>, <<1>>, <<2, 2>>, <<3>>,
                             <<>>, <<1, 2, 3, 4, 5>>, <<0>>>>, FALSE)}

\* In the last there is the length -8 of a string.
MCTails == {<<>>, <<0, 0, 1, 0, 0, 0, 0, 0>>, <<7, 6, 5, 4, 3>>,
            <<0, 0, 0, 0, 0, 4, 6, 7, 1>>}
=============================================================================
