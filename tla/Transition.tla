----------------------------- MODULE Transition -----------------------------
(***************************************************************************)
(* One connection whose queue always has room: every turn publishes some   *)
(* render and the connection is sent the transition to it, by the fast     *)
(* path when its observation stays and by the slow path when it moves.     *)
(* Channel ids are given, and any render may follow any other: a channel   *)
(* that is new here may have a lower id than the others, when it was       *)
(* private to somebody before.                                             *)
(***************************************************************************)
EXTENDS Client, Render

CONSTANTS Views,       \* shared views the flavor may render
          Overlays,    \* private parts it may render for this connection
          Observed,    \* observations it may answer
          Segments,    \* segments of scopes
          Self         \* the connection's own session

\* What the builder and the observation answer can be.
ASSUME Inputs ==
  /\ \A v \in Views : WellFormed(v) /\ Scoped(v, Segments)
  /\ Observed \subseteq ScopeSet(Scope(Segments))

VARIABLES view, overlay, see, client

vars == <<view, overlay, see, client>>

Alone(x) == [c \in {Self} |-> x]

\* A private element has the scope of the channel it is put in, which the
\* closing checks want in the same overlay or in the shared view.
Inherits(v, o) ==
  LET c == Override(o.channels, v.channels)
  IN  /\ \A id \in DOMAIN o.channels :
            o.channels[id].parent \in DOMAIN c => o.channels[id].scope = c[o.channels[id].parent].scope
      /\ \A s \in DOMAIN o.users :
            o.users[s].channel \in DOMAIN c => o.users[s].scope = c[o.users[s].channel].scope

Legal(v, o, obs) ==
  /\ check_shared_xor_private(v, Alone(o))
  /\ Inherits(v, o)
  /\ check_overlay_references(v, Alone(o), Alone(obs))

\* The shard keeps the last render it accepted for this connection, or none.
TypeOK ==
  /\ view \in Views \cup {EmptyView}
  /\ overlay \in Overlays \cup {EmptyView}
  /\ see \in Observed \cup {{}}

Init == view = EmptyView /\ overlay = EmptyView /\ see = {} /\ client = NewClient

\* Each turn is judged on its own messages.
Judged(c) == [c EXCEPT !.sound = TRUE, !.dead = {}, !.revived = FALSE]

\* Slip: the composed view is kept as the shared one.
Push_KeepsComposed(v, o) ==
  /\ Legal(v, o, see)
  /\ client' = deliver(Judged(client), pushed(plan(view, v), see, overlay, o, Self))
  /\ view' = compose(v, o) /\ overlay' = o /\ UNCHANGED see

Push(v, o) ==
  /\ Legal(v, o, see)
  /\ client' = deliver(Judged(client), pushed(plan(view, v), see, overlay, o, Self))
  /\ view' = v /\ overlay' = o /\ UNCHANGED see

Replan(v, o, obs) ==
  /\ obs # see
  /\ Legal(v, o, obs)
  /\ client' = deliver(Judged(client), replanned(compose(restrict(view, see), overlay),
                                                 compose(restrict(v, obs), o), Self))
  /\ view' = v /\ overlay' = o /\ see' = obs

Next == \E v \in Views, o \in Overlays : \/ Push(v, o)
                                         \/ \E obs \in Observed : Replan(v, o, obs)

Spec == Init /\ [][Next]_vars

-----------------------------------------------------------------------------
\* What the connection is to hold: its part of the shared view under its overlay.
Held == compose(restrict(view, see), overlay)

\* After every turn the client holds exactly that, links aside (LinksFollow has
\* them): the same tree, names and users, whatever moved between scopes, into an
\* overlay or out of it.  This is the equation of the repository's oracle.
TreeOracle == HoldsTree(client, Held)

\* The channel is sent as if it were new and has no link left to send, the one
\* message that cannot take the old links away: it changes scope, or push()
\* takes it out of the overlay or puts it there.
Unlinking(id) ==
  /\ id \in DOMAIN Held.channels
  /\ Held.channels[id].links # {} /\ Held'.channels[id].links = {}
  /\ \/ Held'.channels[id].scope # Held.channels[id].scope
     \/ see' = see /\ (id \in DOMAIN overlay.channels) # (id \in DOMAIN overlay'.channels)

\* A turn leaves the client with other links than the view's only on a channel
\* that had others before, or that it sends whole as it loses its last link:
\* links added and removed by patches and by whole messages add up.
LinksFollow ==
  [][\A id \in DOMAIN Held'.channels :
       \/ HoldsLinks(client', Held', id)
       \/ Unlinking(id)
       \/ id \in DOMAIN Held.channels /\ ~HoldsLinks(client, Held, id)]_vars

\* What it holds never names a channel it does not hold: the scopes only narrow
\* and the closing checks cover what the overlay refers to.
HeldClosed == Closed(Held)

\* A private channel is withdrawn while something private that stays was in it.
Evicts(o, p) ==
  \E id \in DOMAIN o.channels \ DOMAIN p.channels :
     \/ \E s \in DOMAIN o.users \cap DOMAIN p.users : o.users[s].channel = id
     \/ \E c \in DOMAIN o.channels \cap DOMAIN p.channels : o.channels[c].parent = id

\* A channel moves below one of its own former descendants.
Inverts(v, w) ==
  \E id \in (DOMAIN v \cap DOMAIN w) \ {RootId} :
     w[id].parent # v[id].parent /\ w[id].parent \in DOMAIN v /\ id \in Lineage(v, w[id].parent)

\* A channel arrives below one that was in another scope, hidden from us.
Uncovers(v, w, seen) ==
  \E id \in DOMAIN w :
     LET p == w[id].parent
     IN  /\ p # id /\ p \in DOMAIN v /\ ~Sees(seen, v[p].scope) /\ v[p].scope # w[p].scope
         /\ id \in DOMAIN v => v[id].scope # w[id].scope

Evicting == Evicts(overlay, overlay')
Inverting == Inverts(compose(view, overlay).channels, compose(view', overlay').channels)
Uncovering == see' = see /\ Uncovers(view.channels, view'.channels, see)

\* No message push() or replan() sends leaves the client with a dangling
\* channel or parent, or removes a channel somebody is in, unless the turn
\* moves a channel below its own descendant, uncovers a parent together with
\* its child, or withdraws a private channel from under what stays.
SoundTurns == [][client'.sound \/ Evicting \/ Inverting \/ Uncovering]_vars

=============================================================================
