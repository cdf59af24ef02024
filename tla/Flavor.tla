------------------------------- MODULE Flavor -------------------------------
(***************************************************************************)
(* What application code renders, in its own vocabulary of channel keys,   *)
(* and the pass of the builder that turns it into wire identifiers.        *)
(*                                                                         *)
(* A world is a record with the fields                                     *)
(*   channels   key -> Channel, its parent a key; the root is key 0        *)
(*   users      session -> User, its channel a key, its label its flags    *)
(*   private    connection -> channels and users only it sees              *)
(*   see        connection -> what it observes                             *)
(*   actions    connection -> the buttons it is offered (key -> text)      *)
(*   audio      the audio relation                                         *)
(***************************************************************************)
EXTENDS Plan, Render, Ids

RootKey == 0

Elements(chans, users) == [channels |-> chans, users |-> users]

PrivateOf(w, c) == IF c \in DOMAIN w.private THEN w.private[c] ELSE EmptyView
SeeOf(w, c) == IF c \in DOMAIN w.see THEN w.see[c] ELSE {}
ActionsOf(w, c) == IF c \in DOMAIN w.actions THEN w.actions[c] ELSE EmptyMap

\* The keys in the order the builder asks for them: parents first, then the
\* private channels connection by connection.
KeysOf(e, present) == order_creations(DOMAIN e.channels \ present, e.channels, present)
Keys(w) == KeysOf(w, {RootKey})
           \o FlattenSeq(Each(DOMAIN w.private, LAMBDA c : KeysOf(w.private[c], DOMAIN w.channels)))

allocated(ids, s, w) == channels(ids, [i \in DOMAIN Keys(w) |-> <<s, Keys(w)[i]>>])

\* Elements under their wire identifiers.
wired(e, ids, s) ==
  LET id(k) == IF k = RootKey THEN RootId ELSE ids.map[<<s, k>>]
      key(i) == CHOOSE k \in DOMAIN e.channels : id(k) = i
  IN  Elements([i \in {id(k) : k \in DOMAIN e.channels} |->
                  [e.channels[key(i)] EXCEPT !.parent = id(@), !.links = {id(l) : l \in @}]],
               [u \in DOMAIN e.users |-> [e.users[u] EXCEPT !.channel = id(@)]])

\* Slip: the audio relation is not checked.
finish_Unheard(view, overlays, observations, audio, Conns) ==
  check_shared_xor_private(view, overlays) /\ check_overlay_references(view, overlays, observations)

\* finish(): the render stands, or it is refused whole.
finish(view, overlays, observations, audio, Conns) ==
  /\ check_shared_xor_private(view, overlays)
  /\ check_overlay_references(view, overlays, observations)
  /\ check_receivers_see_senders(view, overlays, audio, observations, Conns)

\* Channel keys the accepted render still contains, shared or private.
retained(w) ==
  (DOMAIN w.channels \cup UNION {DOMAIN w.private[c].channels : c \in DOMAIN w.private}) \ {RootKey}

\* The connections the audio plane can name: rendered in the shared view, or
\* by their own overlay when they have vanished from it.
session_of(w, Conns) ==
  [c \in {c \in Conns : c \in DOMAIN w.users \/ c \in DOMAIN PrivateOf(w, c).users} |-> c]

flags(w, c) == IF c \in DOMAIN w.users THEN w.users[c].label ELSE PrivateOf(w, c).users[c].label

\* Silence: flagged users, read from the presence audio names them by.
Silenced(w, Conns, flag) ==
  {u \in DOMAIN w.users \cup DOMAIN session_of(w, Conns) : flag \in flags(w, u)}

=============================================================================
