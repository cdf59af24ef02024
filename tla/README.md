# A TLA+ model of the Mumble server runtime

The repository is a declarative Mumble server. Application code (a *flavor*)
renders what the world should look like; the runtime works out what every
client must be sent, and never sends a client something that would break it.
This directory models that machinery, checks it with TLC on small instances
and proves part of it with TLAPS.

## The system

**Runtime** (`src/runtime`)

* *Views and scopes* (`crates/shard/src/scope.rs`, `view.rs`). A shard has one
  shared view: channels and users, each in a scope. A connection observes a few
  scopes and sees what is comparable to them. On top of that it has an overlay,
  channels and users only it sees, and a set of buttons.
* *Planner and composition* (`plan.rs`, `compose.rs`, `emit.rs`). The shared
  delta is planned once per turn. Each connection's transition is that delta
  filtered by what it sees, with its own overlay delta spliced in, contradictory
  pairs collapsed, in the order put on the wire.
* *Shard* (`shard.rs`, `journal.rs`, `queue.rs`, `ids.rs`, `routing.rs`,
  `build.rs`). Each turn renders, checks the render, plans, records the delta in
  a bounded journal, publishes the audio table and offers every connection one
  transition. A connection's bounded queue admits it whole or refuses it; a
  refused connection is behind and catches up by replaying the journal.
* *Gateway* (`crates/gateway`). One task per connection writes its queue out and
  tells the shard when room appears; a supervisor moves connections between
  shards; the voice plane reads the audio table and a connection's cursor.
* *Crypto and protocol* (`crates/crypto`, `crates/protocol`): OCB2 and framing.

**Control** (`src/control`). Controller sessions with leases and resume tokens,
ownership with fencing tokens, reliable commands, host bindings, a latest-wins
snapshot, and a Java SDK with the client side of a session.

**Implementations** (`src/implementations/spaces`). A controller host whose actor
composes the control registries, and the flavor it drives.

## Modules

| module | models | source |
| --- | --- | --- |
| `Scopes` | paths, comparability, observation | `scope.rs` |
| `ShardViews` | views with their channel links, overlays, `restrict`, `compose` | `view.rs`, `build.rs` |
| `Plan` | `plan`, `plan_elements` and their orders | `plan.rs` |
| `Compose` | `filter`, `splice`, `collapse`, `emit` and the fields of its messages | `compose.rs`, `emit.rs` |
| `Client` | the strict client of the repository's oracle | `tests/support/model.rs` |
| `Routing` | the audio relation, `resolve`, `compile` | `routing.rs` |
| `Render` | the closing checks of a render | `build.rs` |
| `Flavor` | renders in the application's vocabulary and their wire ids | `build.rs`, `shard.rs` |
| `Ids`, `IdSpace` | the allocator, and its use by several shards | `ids.rs` |
| `Journal`, `Queue` | bounded history; bounded output queue | `journal.rs`, `queue.rs` |
| `Transition` | one connection whose queue has room, any render after any other | `shard.rs` push and replan |
| `AudioRules` | a render's audio declarations, call by call | `routing.rs`, `build.rs` |
| `Shard` | shards, connections, queues and clients together | `shard.rs`, `gateway/connection.rs`, `gateway/runtime.rs`, `gateway/voice.rs` |
| `IdSpaceProofs`, `TransitionProofs`, `ShardProofs` | theorems | |
| `MCTransition`, `MCAudioRules`, `MCShard` | instances for TLC | |

`Scopes` to `Queue` are operators only. They are shared by the three state
machines, so what one run shows about `splice` or `collapse` is about the
operator the others use.

### State and actions of `Shard`

| variable | code |
| --- | --- |
| `ids` | `SharedIds`, shared by all shards |
| `flavor`, `dirty` | what application code would render; a command was handled since the last turn (`run_with_reports`) |
| `view`, `version`, `journal`, `since` | the fields of `Shard` |
| `routing` | the table behind the `watch` channel |
| `conn` | `AttachedConnection`: `cursor`, `see`, `overlay_sent`, `actions_sent`, `held`; `at` is the shard it is in and `to` the one it is on its way to |
| `queue` | `OutboundQueue` and whether its receiving half lives |
| `drained` | a `Drained` command is in the shard's mailbox |
| `stage` | where the connection task is: `joining` (waiting for `ready`), `draining` (the handshake's `drain`), `service`, or `dropped` (its record was removed before a first view) |
| `client`, `menu` | the client after everything accepted so far has been written |
| `doubt` | history, see below |

| action | code |
| --- | --- |
| `Attach`, `Detach`, `Handover` | `Shard::attach`; `Shard::detach` without and with a handover |
| `Drained` | `Shard::retry`, the answer to a `Drained` command |
| `Reconcile` | `Shard::reconcile`: `Keep` is its two early returns (a refused render, an unchanged one), `Publish` the rest |
| `Write`, `Serve`, `Hangup` | the connection task's writer, in `drain` and in `service`; the end of the handshake; the end of the task |
| `Voice`, `Answer` | `speak` with its cursor gate (`Gate`), through the tunnel and `push_voice`; the shard's answers to queries |

A client is kept as it will be once its queue is written out. The queue is
first-in first-out and loses no control message, so the order in which messages
reach the client is the order in which they are accepted.

An attach cannot fail in the model: the gateway reserves the session before it
attaches, so the path in `Shard::attach` that finds no session left is not
reached from there.

Identifiers are drawn in one step per turn in `Shard`. The lock of `SharedIds` is
taken per allocation, and `IdSpace` has the finer interleaving.

`doubt` marks a connection that was behind and was then sent more than the one
delta it had been refused: a replay over several versions, a replan from a view
it did not hold yet, a handover or a teardown computed from such a view, a
refusal that left a private change out. `Oracle`, `Sound`
and `RoutesSeen` are claimed outside it; run `shard_replay` shows why.

## What the runs show

| run | result |
| --- | --- |
| `transition` | 1,607 states. `TreeOracle`: after every turn the client holds exactly its restriction of the shared view with its overlay on top, links aside. `HeldClosed`: that view never dangles. `SoundTurns`: no single message breaks a strict client, three kinds of turn excepted. |
| `transition_links` | 1,381 states. `LinksFollow`: the links the client holds follow the view's through scope changes, patches and overlays, `Unlinking` excepted. |
| `audio_rules` | 363,338 states. `CompileIsResolve`: the table compiled domain by domain is the relation defined pair by pair, less the muted and deafened. `CheckedRoutesSeen`, `SeenRoutesAccepted`: the per-scope count accepts exactly the relations whose receivers see their senders, outside listeners excepted. |
| `id_space` | 1,545 states. Numbers are distinct, handed out in order to the last one, never twice, and stable. |
| `shard_congestion` | 110,128 states. One connection against a queue of five that fills, drains, carries voice and answers, and closes. `Committed`, `Oracle`, `Sound`, `ButtonsShown`, `NeverRevived`. |
| `shard_two` | 58,532 states. Two connections with room, renders that move, hide, vanish and refuse. Adds `RoutesSeen`: whoever an up-to-date connection can hear, its client knows. |
| `shard_crossing` | 84,672 states. One connection with a queue of five moved back and forth between two shards: it moves while the old shard's messages are still waiting, the writer drains at any moment, and the withdrawal of its buttons or the first transition of the new shard may be refused. `Oracle`, `Sound`, and `ButtonsOffered`: every button a shard counts as sent is on the menu. |
| `shard_live` | 17,309 states. `ServiceCatchesUp`: once application code settles, a connection whose service loop has a control message to write is eventually told everything, and stays so. |

Four runs show a place where the code departs from what the repository says of
it; PROJECT.json quotes the lines.

| run | what happens |
| --- | --- |
| `shard_replay` | `collapse` over a replay of several versions drops the removal of an element that one version added and a later one removed |
| `shard_first` | a transition refused before the handshake has drained the first view is not retried, because `drain` sends no `Drained` |
| `shard_return` | after a round trip through another shard a client gets channels under ids it has removed |
| `shard_audio` | a render in which only the audio relation changes is taken for unchanged and its table is not published |

### Exceptions in the properties

`SoundTurns` names three kinds of turn in which a message does break the strict
client: `Evicting` (a private channel is withdrawn in the turn that moves its
private occupant or child elsewhere, since private removals come first),
`Inverting` (a channel moves below its own former descendant and passes through a
cycle) and `Uncovering` (a parent and a child change scope together, and the
child is ordered as if the parent were already on the client). Without its
disjunct each of the three is violated. `Unlinking` is the like exception of
`LinksFollow`: the channel changes scope, or enters or leaves the overlay, in the
turn that takes its last link.

In those turns the client keeps the link: a channel sent whole carries its links
as a list, and the client ignores an empty one. `compose.rs:83` has it that
re-sending an element whole "simply updates it".

The other limits of what is claimed, each of them a behaviour the model has:

* `CheckedRoutesSeen` leaves out listeners outside the domain: the check takes
  the receiver off the count at its own scope, where such a listener was never
  counted, so one sender there goes unchecked.
* `ServiceCatchesUp` is checked without voice. With it, a transition refused while
  only voice is waiting is not retried either, as writing voice sends no
  `Drained`.
* `RoutesSeen` is about connections that are up to date. The gate compares a
  receiver's cursor with the version a sender appeared in, not the one its route
  was granted in, so a sender who has long been there and moves into view passes
  the gate of a receiver that was refused that transition.
* `ButtonsOffered` is one half of `ButtonsShown`. The other half fails at a
  handover: it goes on when the queue refuses the withdrawal, and the client keeps
  buttons its new shard knows nothing of.
* A connection that moves while it is behind takes along the shard's newest view,
  which it has not been sent, and is in doubt from then on.
* Nothing is claimed about the far end of a link: the scopes of two linked
  channels are comparable, but a viewer of one may not see the other, and is sent
  the link all the same.

### Bounds

* `transition`: channels 1, 2 and 3 below the root, of which 2 may be shared or
  private and 3 is private, one user, scopes of one segment. Order and splice
  only compare two elements at a time, and any render may follow any other, so
  that a channel may arrive below one with a higher id.
* `transition_links`: the same trees with up to two links, enough for a patch that
  removes one of two, and no users.
* `audio_rules`: three connections (a speaker, a listener and one more to be
  counted), two declarations, two scopes; connections are interchangeable.
* `Shard`: journal `Depth` 2, `Capacity` 5, `VoiceDepth` 2, so that eviction,
  refusal and the voice threshold all happen within `MaxVersion` turns. Flavors
  stop changing at `MaxVersion`; turns on handled commands do not. `MaxId` is
  low enough in `shard_two` for the identifiers to run out.
  The worlds in `MCShard` are chosen so that between them a channel appears,
  disappears, changes scope and nests; a user moves, is muted, is deafened,
  vanishes into an overlay; a button appears and is relabelled; a render is
  refused.
* The worlds of `MCShard` have no links: `transition_links` has them, through the
  same operators.
* In `shard_crossing` flavors settle at version 1 (`MaxVersion`) and nobody speaks;
  the commands of a move still make each shard turn again. What a connection is
  refused before it moves is the subject of `shard_congestion`.
* Deadlock is not checked for `Shard` and `AudioRules`: every connection may have
  left, and a render's declarations end.

### Fairness

`shard_live` and `shard_first` assume that the connection task
keeps going (weak fairness of `Write` and of `Serve`), that a `Drained` in a mailbox is eventually read, and
that the run loop renders after each batch of commands. The last two are stated
as `[]<>~drained` and `[]<>~dirty`, which weak fairness of `Drained` and of
`Reconcile` in the current world implies, both being enabled as long as their
flag is set. Nothing is assumed of application code, of clients or of voice. `shard_live` has
no answers to queries: a client that asks without end can keep its own queue full
and its transition refused for as long as it does.

## Proofs

TLAPS checks the following for all values of the constants.

* `ShardProofs`: `TypeCorrect` and `CommittedHolds` (`Spec => []TypeOK`,
  `Spec => []Committed`) for any number of shards, connections and worlds, any
  journal depth and queue capacity. `Committed` is not inductive by itself: that
  a turn or a retry leaves every cursor at or below the version uses that
  cursors, versions and journals are typed, and that the journal's head is the
  version. `IInv` is their
  conjunction; `Parts` splits it by the state it is about, and there is one lemma
  per action. `RecordKeeps`, `SendBounded` and `VoiceBounded` carry the argument
  about the journal and the queue.
* `TransitionProofs`: `HeldViewsClosed` (`Spec => []HeldClosed`), for any views,
  overlays and observations the builder accepts. The inductive invariant adds
  that the view is one the builder can make and that the overlay passed the
  checks against the current observation; the argument is that scopes only
  narrow, so a visible element's parent is comparable to the same observation.
* `IdSpaceProofs`: `Distinct`, `IssuedInOrder`, `NeverReissued` and `Stable`, for
  any number of shards, keys and identifiers. The invariant adds that every
  number in the map has been issued, and that in both spaces the map is one to
  one and below the next number.

Assumptions: `DepthIsPositive`, `QueueBounds`, `MaxIdIsId`, `ScopeBounds` and
`Inputs` (what the builder can produce), each in the module that declares the
constants and evaluated by TLC in the runs.

Left to TLC: liveness; what the folds over messages compute (`Oracle`,
`TreeOracle`, `LinksFollow`, `Sound`, `SoundTurns`), which needs induction over sequences; and `NeverRevived`, whose
argument goes through the same folds.

## Not modelled, and the plan

| part | plan |
| --- | --- |
| supervisor, concurrent moves, destroyed shards, full mailboxes, disconnection during a migration | module `Migration`, over an abstract shard: a connection is in at most one shard, and is detached once its task has ended |
| the rest of the handshake and the first-view timeout, the fatal flag and who wakes the loop | with `Migration` |
| address indexes, cold path, transport switch | module `Peers` |
| token buckets | module `Budgets` |
| OCB2 nonce window and replay history | module `PacketWindow`, against a reference definition |
| sessions, ownership, reliable commands | modules `Sessions`, `Ownership` (an abstract register of owners, refined by the fencing tokens), `Reliable` |
| bindings and snapshot | modules `Bindings`, `Snapshot` |
| controller actor and Spaces flavor | module `Spaces`, composing the registries |
| Java core session | module `CoreSession` |
| text relay and requests to application code | actions of `Shard` |

Theorems planned for those modules: at most one owner per participant and
monotone fencing tokens; no accepted packet twice; a connection in at most one
shard. Not planned: TLS, configuration, metrics, encoding and framing (stateless,
and fuzzed in the repository), load and protocol tools, example flavors, the
cipher.
