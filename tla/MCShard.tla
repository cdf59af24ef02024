------------------------------- MODULE MCShard -------------------------------
EXTENDS Shard

RootChannel == RootKey :> Channel(RootKey, Root, 0)
World(chans, users, private, see, actions, audio) ==
  [channels |-> RootChannel @@ chans, users |-> users, private |-> private,
   see |-> see, actions |-> actions, audio |-> audio]

Everywhere == 1 :> {<<1>>} @@ 2 :> {<<1>>}
Apart == 1 :> {<<1>>} @@ 2 :> {<<2>>}
Domain(members) == [domains |-> 1 :> (members \cap Conns), listeners |-> {}, edges |-> {}]

Empty == World(EmptyMap, EmptyMap, EmptyMap, Apart, EmptyMap, NoAudio)

Lobby == World(1 :> Channel(RootKey, Root, 0), 1 :> User(1, Root, {}) @@ 2 :> User(RootKey, Root, {}),
               EmptyMap, Apart, EmptyMap, Domain({1, 2}))

Team == World(1 :> Channel(RootKey, <<1>>, 0), 1 :> User(1, <<1>>, {"mute"}),
              EmptyMap, Apart, 1 :> (1 :> "join"), NoAudio)

Vanished == World(1 :> Channel(RootKey, Root, 0), 2 :> User(1, Root, {}),
                  1 :> Elements(EmptyMap, 1 :> User(1, Root, {})), Everywhere,
                  1 :> (1 :> "leave") @@ 2 :> (1 :> "join"), Domain({2}))

\* A channel inside a channel, each in its own scope, and a deafened user.
Nested == World(1 :> Channel(RootKey, Root, 1) @@ 2 :> Channel(1, <<1>>, 0),
                1 :> User(2, <<1>>, {}) @@ 2 :> User(1, Root, {"deaf"}),
                EmptyMap, Apart, 2 :> (1 :> "leave"), NoAudio)

\* Refused: connection 2 would hear somebody in a scope it does not observe.
Refused == World(1 :> Channel(RootKey, <<1>>, 0), 1 :> User(1, <<1>>, {}) @@ 2 :> User(RootKey, Root, {}),
                 EmptyMap, Apart, EmptyMap, Domain({1, 2}))

MigrationWorlds == {Lobby, Team, Vanished}
\* Only the audio relation differs.
AudioWorlds == {Lobby, [Lobby EXCEPT !.audio = NoAudio]}
CongestionWorlds == {Empty, Lobby, Team, Vanished}
CalmWorlds == CongestionWorlds \cup {Nested, Refused}
=============================================================================
