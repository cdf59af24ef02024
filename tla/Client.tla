------------------------------- MODULE Client -------------------------------
(***************************************************************************)
(* The strict client the repository's oracle is written against.  It holds *)
(* the root from the start, merges what it is told, and judges the state   *)
(* every single message leaves behind.  Like the official one it remembers *)
(* every channel id it has removed.                                        *)
(***************************************************************************)
EXTENDS Compose

NoParent == -1

NewClient == [channels |-> (RootId :> [parent |-> NoParent, label |-> 0, links |-> {}]),
              users    |-> EmptyMap,
              sound    |-> TRUE,    \* no message so far broke a rule
              dead     |-> {},      \* channel ids it has removed
              revived  |-> FALSE]   \* one of them came back

\* The structural rules that hold after every message.
check(channels, users) ==
  /\ \A s \in DOMAIN users : users[s].channel \in DOMAIN channels
  /\ \A id \in DOMAIN channels \ {RootId} :
        /\ channels[id].parent \in DOMAIN channels
        /\ RootId \in Lineage(channels, id)

\* The value a field is left with: the one in the message, if there is one.
given(field, was) == IF field = {} THEN was ELSE CHOOSE x \in field : TRUE

\* An unknown channel is created only by a message with a parent and a label.
\* The root has no parent and keeps none.  A list of links replaces those the
\* channel had unless it is empty; then come the removals and the additions.
apply_channel(channels, m) ==
  IF m.id \notin DOMAIN channels /\ (m.parent = {} \/ m.label = {})
  THEN channels
  ELSE LET old == IF m.id \in DOMAIN channels THEN channels[m.id]
                  ELSE [parent |-> NoParent, label |-> 0, links |-> {}]
           links == IF m.links = {} THEN old.links ELSE m.links
       IN  (m.id :> [parent |-> IF m.id = RootId THEN NoParent ELSE given(m.parent, old.parent),
                     label  |-> given(m.label, old.label),
                     links  |-> (links \ m.links_remove) \cup m.links_add]) @@ channels

\* An unknown user is created only by a message with a channel and a label.
apply_user(users, m) ==
  IF m.id \notin DOMAIN users
  THEN IF m.channel = {} \/ m.label = {} THEN users
       ELSE (m.id :> [channel |-> given(m.channel, NoParent), label |-> given(m.label, 0)]) @@ users
  ELSE (m.id :> [channel |-> given(m.channel, users[m.id].channel),
                 label   |-> given(m.label, users[m.id].label)]) @@ users

Without(f, x) == Restrict(f, DOMAIN f \ {x})

apply(client, m) ==
  LET channels ==
        CASE m.type = "ChannelState" -> apply_channel(client.channels, m)
          [] m.type = "ChannelRemove" /\ m.id # RootId -> Without(client.channels, m.id)
          [] OTHER -> client.channels
      users ==
        CASE m.type = "UserState" -> apply_user(client.users, m)
          [] m.type = "UserRemove" -> Without(client.users, m.id)
          [] OTHER -> client.users
      occupied == /\ m.type = "ChannelRemove" /\ m.id # RootId
                  /\ \E s \in DOMAIN client.users : client.users[s].channel = m.id
  IN  [channels |-> channels,
       users    |-> users,
       sound    |-> client.sound /\ ~occupied /\ check(channels, users),
       dead     |-> client.dead \cup (DOMAIN client.channels \ DOMAIN channels),
       revived  |-> client.revived \/ (DOMAIN channels \cap client.dead) \ DOMAIN client.channels # {}]

deliver(client, messages) == FoldLeft(apply, client, messages)

-----------------------------------------------------------------------------
\* The oracle's equation: the client holds exactly this view.  The root is
\* always there, under the last name it was given.
HoldsTree(client, view) ==
  /\ DOMAIN client.channels = DOMAIN view.channels \cup {RootId}
  /\ \A id \in DOMAIN view.channels :
        /\ client.channels[id].parent = IF id = RootId THEN NoParent ELSE view.channels[id].parent
        /\ client.channels[id].label = view.channels[id].label
  /\ client.users = [s \in DOMAIN view.users |->
                       [channel |-> view.users[s].channel, label |-> view.users[s].label]]

HoldsLinks(client, view, id) == client.channels[id].links = view.channels[id].links

Holds(client, view) ==
  HoldsTree(client, view) /\ \A id \in DOMAIN view.channels : HoldsLinks(client, view, id)

=============================================================================
