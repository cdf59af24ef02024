------------------------------- MODULE Render -------------------------------
(***************************************************************************)
(* What the builder checks when a render is closed.  Scopes only narrow by *)
(* construction; these are the checks that are left.                       *)
(***************************************************************************)
EXTENDS ShardViews, Routing

\* Nothing is both shared and private.
check_shared_xor_private(view, overlays) ==
  \A c \in DOMAIN overlays :
     /\ DOMAIN overlays[c].users \cap DOMAIN view.users = {}
     /\ DOMAIN overlays[c].channels \cap DOMAIN view.channels = {}

\* Slip: a shared channel is enough, observed or not.
check_overlay_references_Unseen(view, overlays, observations) ==
  \A c \in DOMAIN overlays :
     LET o == overlays[c]
         known == DOMAIN o.channels \cup DOMAIN view.channels
     IN  /\ \A s \in DOMAIN o.users : o.users[s].channel \in known
         /\ \A id \in DOMAIN o.channels : o.channels[id].parent \in known

\* An overlay only refers to itself or to what its connection observes.
check_overlay_references(view, overlays, observations) ==
  \A c \in DOMAIN overlays :
     LET o == overlays[c]
         see == IF c \in DOMAIN observations THEN observations[c] ELSE {}
         refers(to) == \/ to \in DOMAIN o.channels
                       \/ /\ to \in DOMAIN view.channels
                          /\ Sees(see, view.channels[to].scope)
     IN  /\ \A s \in DOMAIN o.users : refers(o.users[s].channel)
         /\ \A id \in DOMAIN o.channels : refers(o.channels[id].parent)

-----------------------------------------------------------------------------
(* Every audio edge lands on a receiver that can see the sender.  A session *)
(* is the connection's own number, and one outside Conns is synthetic.      *)

\* Scopes of the connections the shared view carries.
shared_scope(view, Conns) == [c \in DOMAIN view.users \cap Conns |-> view.users[c].scope]

Observes(observations, c) == IF c \in DOMAIN observations THEN observations[c] ELSE {}

Privately(overlays, c) == IF c \in DOMAIN overlays THEN DOMAIN overlays[c].users ELSE {}

can_see(receiver, sender, scopes, overlays, observations) ==
  \/ sender \in Privately(overlays, receiver)
  \/ sender \in DOMAIN scopes /\ Sees(Observes(observations, receiver), scopes[sender])

\* Slips: the receiver is taken off every scope's count, or off none.
check_group_Lenient(receivers, senders, scopes, overlays, observations) ==
  LET rendered == senders \cap DOMAIN scopes
      per_scope(sc) == Cardinality({a \in rendered : scopes[a] = sc})
  IN  \A r \in receivers :
        /\ \A sc \in {scopes[a] : a \in rendered} : per_scope(sc) > 1 => Sees(Observes(observations, r), sc)
        /\ \A a \in senders \ rendered : a # r => a \in Privately(overlays, r)
check_group_Strict(receivers, senders, scopes, overlays, observations) ==
  LET rendered == senders \cap DOMAIN scopes
  IN  \A r \in receivers :
        /\ \A a \in rendered : Sees(Observes(observations, r), scopes[a])
        /\ \A a \in senders \ rendered : a # r => a \in Privately(overlays, r)

\* Senders are counted per scope, less one at the receiver's own scope.
check_group(receivers, senders, scopes, overlays, observations) ==
  LET rendered == senders \cap DOMAIN scopes
      per_scope(sc) == Cardinality({a \in rendered : scopes[a] = sc})
      own(r, sc) == IF r \in DOMAIN scopes THEN scopes[r] = sc ELSE FALSE
      others(r, sc) == IF own(r, sc) THEN per_scope(sc) - 1 ELSE per_scope(sc)
  IN  \A r \in receivers :
        /\ \A sc \in {scopes[a] : a \in rendered} :
              others(r, sc) > 0 => Sees(Observes(observations, r), sc)
        /\ \A a \in senders \ rendered : a # r => a \in Privately(overlays, r)

check_receivers_see_senders(view, overlays, audio, observations, Conns) ==
  LET scopes == shared_scope(view, Conns)
      group(receivers, d) == check_group(receivers, audio.domains[d], scopes, overlays, observations)
  IN  /\ \A d \in DOMAIN audio.domains : group(audio.domains[d], d)
      /\ \A l \in audio.listeners : l[2] \in DOMAIN audio.domains => group({l[1]}, l[2])
      /\ \A e \in audio.edges : can_see(e[2], e[1], scopes, overlays, observations)

=============================================================================
