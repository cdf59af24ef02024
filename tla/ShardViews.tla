----------------------------- MODULE ShardViews -----------------------------
(***************************************************************************)
(* What a shard renders: channels by wire id and users by session, each    *)
(* with the scope it occupies.  "label" stands for the fields a message    *)
(* gives as one value (name, position, can_enter; name and flags of a      *)
(* user).  Links are a set, and travel differently.  An overlay has the    *)
(* same shape and belongs to one connection.                               *)
(***************************************************************************)
EXTENDS Scopes, Functions

RootId == 0

Channel(parent, scope, label) ==
  [parent |-> parent, scope |-> scope, label |-> label, links |-> {}]

\* Linked in both directions.
channel_link(channels, a, b) ==
  [channels EXCEPT ![a].links = @ \cup {b}, ![b].links = @ \cup {a}]

User(channel, scope, label) == [channel |-> channel, scope |-> scope, label |-> label]

EmptyMap == [x \in {} |-> x]

EmptyView == [channels |-> EmptyMap, users |-> EmptyMap]

\* f where it is defined, g elsewhere: BTreeMap::extend of g by f.
Override(f, g) == [x \in DOMAIN f \cup DOMAIN g |-> IF x \in DOMAIN f THEN f[x] ELSE g[x]]

restrict(view, see) ==
  LET visible(e) == Sees(see, e.scope)
  IN  [channels |-> RestrictValues(view.channels, visible),
       users    |-> RestrictValues(view.users, visible)]

compose(view, overlay) ==
  [channels |-> Override(overlay.channels, view.channels),
   users    |-> Override(overlay.users, view.users)]

-----------------------------------------------------------------------------
(* The rules the builder imposes by construction: a child narrows its       *)
(* parent, a user narrows its channel, and a link joins comparable scopes.  *)

\* Channels reachable from c by parent links, c included.
Lineage(channels, c) ==
  LET n == Cardinality(DOMAIN channels)
      up[k \in 0..n] == IF k = 0 THEN c
                        ELSE IF up[k-1] \in DOMAIN channels THEN channels[up[k-1]].parent
                             ELSE up[k-1]
  IN  {up[k] : k \in 0..n}

WellFormed(view) ==
  /\ RootId \in DOMAIN view.channels
  /\ view.channels[RootId].parent = RootId /\ view.channels[RootId].scope = Root
  /\ \A c \in DOMAIN view.channels :
        LET p == view.channels[c].parent
        IN  /\ p \in DOMAIN view.channels
            /\ IsPrefixOf(view.channels[p].scope, view.channels[c].scope)
            /\ RootId \in Lineage(view.channels, c)
            /\ \A l \in view.channels[c].links :
                  /\ l \in DOMAIN view.channels /\ c \in view.channels[l].links
                  /\ Comparable(view.channels[c].scope, view.channels[l].scope)
  /\ \A u \in DOMAIN view.users :
        LET c == view.users[u].channel
        IN  /\ c \in DOMAIN view.channels
            /\ IsPrefixOf(view.channels[c].scope, view.users[u].scope)

\* Every element's place and parent is there too.
Closed(view) ==
  /\ \A c \in DOMAIN view.channels : view.channels[c].parent \in DOMAIN view.channels
  /\ \A u \in DOMAIN view.users : view.users[u].channel \in DOMAIN view.channels

\* Its scopes are paths over these segments.
Scoped(view, Segments) ==
  /\ \A c \in DOMAIN view.channels : view.channels[c].scope \in Scope(Segments)
  /\ \A u \in DOMAIN view.users : view.users[u].scope \in Scope(Segments)

=============================================================================
