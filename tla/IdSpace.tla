------------------------------ MODULE IdSpace ------------------------------
(***************************************************************************)
(* The allocator on its own, behind the lock every shard takes once per    *)
(* allocation: renders of several shards, the withdrawals their turns      *)
(* report and the sessions of new occupants come in any order.             *)
(***************************************************************************)
EXTENDS Ids

CONSTANTS Shards, Keys, Occupants

VARIABLES ids,        \* channels, by (shard, key)
          sessions,   \* sessions, by occupant
          issued      \* history: every channel id handed out so far

vars == <<ids, sessions, issued>>

Init == ids = NewIds /\ sessions = NewIds /\ issued = {}

\* A render asks for the id of a key.
AskChannel(s, k) ==
  /\ ids' = channel(ids, <<s, k>>)
  /\ issued' = issued \cup {ids'.map[o] : o \in DOMAIN ids'.map}
  /\ UNCHANGED sessions

AskSession(o) == sessions' = session(sessions, o) /\ UNCHANGED <<ids, issued>>

\* A turn reports the keys its render still has.
Retain(s, keys) == ids' = retain_channels(ids, s, keys) /\ UNCHANGED <<sessions, issued>>

\* A turn or a retry reports the ids a client was told to remove.
Retire(s, retired) == ids' = retire_channel_ids(ids, s, retired) /\ UNCHANGED <<sessions, issued>>

Next ==
  \/ \E s \in Shards, k \in Keys : AskChannel(s, k)
  \/ \E o \in Occupants : AskSession(o)
  \/ \E s \in Shards, keys \in SUBSET Keys : Retain(s, keys)
  \/ \E s \in Shards, retired \in SUBSET issued : Retire(s, retired)

Spec == Init /\ [][Next]_vars

-----------------------------------------------------------------------------
Space(owners) == [map : UNION {[D -> 1..MaxId] : D \in SUBSET owners}, next : 0..MaxId]

\* Both spaces, and everything ever handed out, are numbers the wire can carry.
TypeOK ==
  /\ ids \in Space(Shards \X Keys)
  /\ sessions \in Space(Occupants)
  /\ issued \subseteq 1..MaxId

\* No two channels and no two occupants have the same number at the same time,
\* across all shards.
Distinct ==
  /\ \A a, b \in DOMAIN ids.map : ids.map[a] = ids.map[b] => a = b
  /\ \A a, b \in DOMAIN sessions.map : sessions.map[a] = sessions.map[b] => a = b

\* The space is spent only once every number has been handed out, the last one
\* included, and until then exactly the numbers below the next one have been.
IssuedInOrder == issued = IF ids.next = Spent THEN 1..MaxId ELSE 1..(ids.next - 1)

\* A channel that enters the map gets a number nobody has ever had, also when
\* the same key had one before.
NewNumbers == \A o \in DOMAIN ids'.map \ DOMAIN ids.map : ids'.map[o] \notin issued
NeverReissued == [][NewNumbers]_vars

\* A channel that stays in the map keeps its number; an occupant always does.
SameNumbers ==
  /\ \A o \in DOMAIN ids.map \cap DOMAIN ids'.map : ids'.map[o] = ids.map[o]
  /\ \A o \in DOMAIN sessions.map : o \in DOMAIN sessions'.map /\ sessions'.map[o] = sessions.map[o]
Stable == [][SameNumbers]_vars

=============================================================================
