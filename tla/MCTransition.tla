---------------------------- MODULE MCTransition ----------------------------
(* Two shared channels in every shape and scope, linked or not, the          *)
(* connection's own user shared, vanished or absent, and a private channel   *)
(* that may be one of the two.  Observing <<1>> it sees everything here,     *)
(* observing <<2>> only what is in the root scope.                           *)
EXTENDS Transition

Segment1 == {Root, <<1>>}

\* The builder's trees over these wire ids: every shape, scopes only narrowing.
Trees(ids) ==
  {t \in UNION {[S \cup {RootId} -> {Channel(p, s, 0) : p \in ids \cup {RootId}, s \in Segment1}]
                  : S \in SUBSET ids} :
     WellFormed([channels |-> t, users |-> EmptyMap])}

\* Patches of one field are independent of the shape: one tree per label.
Relabelled == {[t EXCEPT ![1].label = 1] : t \in {x \in Trees({1}) : 1 \in DOMAIN x}}

\* One more link, between any two channels the builder lets be linked.
Linked(trees) ==
  {channel_link(t, a, b) : <<t, a, b>> \in
     {x \in trees \X {0, 1} \X {1, 2} :
        /\ {x[2], x[3]} \subseteq DOMAIN x[1] /\ x[2] # x[3]
        /\ Comparable(x[1][x[2]].scope, x[1][x[3]].scope)}}

Users(t, s) ==
  {EmptyMap} \cup
  {s :> u : u \in {x \in {User(c, sc, t[c].label) : c \in DOMAIN t, sc \in Segment1} :
                     IsPrefixOf(t[x.channel].scope, x.scope)}}

MCViews ==
  UNION {{[channels |-> t, users |-> u] : u \in Users(t, Self)}
           : t \in Trees({1, 2}) \cup Relabelled}

MCOverlays ==
  LET private(id, p, s) == id :> Channel(p, s, 0)
      vanished(c, s) == Self :> User(c, s, 0)
  IN  {EmptyView}
      \cup {[channels |-> EmptyMap, users |-> vanished(x[1], x[2])] : x \in {<<0, Root>>, <<1, Root>>, <<1, <<1>>>>}}
      \cup {[channels |-> private(2, x[1], x[2]), users |-> EmptyMap] : x \in {<<0, Root>>, <<1, Root>>, <<1, <<1>>>>}}
      \cup {[channels |-> private(3, 1, s), users |-> EmptyMap] : s \in Segment1}
      \cup {[channels |-> private(3, 0, Root), users |-> vanished(3, Root)]}

\* Links concern channels only: no users here, and no channel that is always private.
MCLinkedViews ==
  LET none == Trees({1, 2})
      one == Linked(none)
  IN  {[channels |-> t, users |-> EmptyMap] : t \in none \cup one \cup Linked(one)}

MCLinkedOverlays == {o \in MCOverlays : o.users = EmptyMap /\ 3 \notin DOMAIN o.channels}

MCObserved == {{<<1>>}, {<<2>>}}

=============================================================================
