--------------------------------- MODULE Ids ---------------------------------
(***************************************************************************)
(* The wire identifier allocator every shard of a runtime shares.  A       *)
(* mapping from (shard, key) to a channel id is made on first use and      *)
(* forgotten when the channel is withdrawn; the number is never recycled.  *)
(***************************************************************************)
EXTENDS Naturals, Sequences, FiniteSets, SequencesExt

CONSTANT MaxId      \* the last identifier, u32::MAX in the code

ASSUME MaxIdIsId == MaxId \in Nat \ {0}

Spent == 0          \* next_channel = None: the last number has been handed out

\* One space of identifiers, of channels or of sessions: the mapping and the
\* next number to hand out.
NewIds == [map |-> [k \in {} |-> 0], next |-> 1]

\* The owner gets the number n.
Numbered(ids, owner, n, next) ==
  [map |-> [k \in DOMAIN ids.map \cup {owner} |-> IF k = owner THEN n ELSE ids.map[k]], next |-> next]

\* Slips: the last number is followed by another one, or lost; the counter does
\* not advance; a number is whatever the map's size says; a known owner asks
\* and gets a new one.
Allocate_PastLast(ids, owner) ==
  IF owner \in DOMAIN ids.map THEN ids ELSE Numbered(ids, owner, ids.next, ids.next + 1)
Allocate_LosesLast(ids, owner) ==
  IF owner \in DOMAIN ids.map \/ ids.next = Spent THEN ids
  ELSE Numbered(ids, owner, ids.next, IF ids.next + 1 = MaxId THEN Spent ELSE ids.next + 1)
Allocate_Stuck(ids, owner) ==
  IF owner \in DOMAIN ids.map THEN ids ELSE Numbered(ids, owner, ids.next, ids.next)
Allocate_BySize(ids, owner) ==
  IF owner \in DOMAIN ids.map \/ ids.next = Spent THEN ids
  ELSE Numbered(ids, owner, Cardinality(DOMAIN ids.map) + 1, IF ids.next = MaxId THEN Spent ELSE ids.next + 1)
Allocate_Again(ids, owner) ==
  IF ids.next = Spent THEN ids
  ELSE Numbered(ids, owner, ids.next, IF ids.next = MaxId THEN Spent ELSE ids.next + 1)

\* An owner that is refused stays out of the map; the last number is used.
Allocate(ids, owner) ==
  IF owner \in DOMAIN ids.map \/ ids.next = Spent
  THEN ids
  ELSE Numbered(ids, owner, ids.next, IF ids.next = MaxId THEN Spent ELSE ids.next + 1)

channel(ids, owner) == Allocate(ids, owner)
session(ids, occupant) == Allocate(ids, occupant)
channels(ids, owners) == FoldLeft(channel, ids, owners)

\* Slip: a number belongs to its owner for good.
Forget_Nothing(ids, owners) == ids

Forget(ids, owners) ==
  [ids EXCEPT !.map = [k \in DOMAIN ids.map \ owners |-> ids.map[k]]]

retain_channels(ids, s, keys) ==
  Forget(ids, {k \in DOMAIN ids.map : k[1] = s /\ k[2] \notin keys})

\* Slip: a withdrawn identifier stays with its key.
retire_channel_ids_Kept(ids, s, retired) == ids

retire_channel_ids(ids, s, retired) ==
  Forget(ids, {k \in DOMAIN ids.map : k[1] = s /\ ids.map[k] \in retired})

=============================================================================
