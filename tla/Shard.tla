-------------------------------- MODULE Shard --------------------------------
(***************************************************************************)
(* Shards of one runtime, their attached connections and the clients at    *)
(* the far end.  Every turn a shard renders its flavor's state, plans the  *)
(* shared delta once, journals it, publishes the audio table and offers    *)
(* each connection one transition, which its bounded queue admits whole or *)
(* refuses.  A client is kept as it will be once its queue is written out: *)
(* the queue is first-in first-out and drops no control message.           *)
(***************************************************************************)
EXTENDS Client, Flavor, Journal, Queue

CONSTANTS Shards,       \* natural numbers, 0 excluded
          Conns,        \* natural numbers; a connection's session is its number
          Worlds,       \* states application code may be in
          Env,          \* which of "write", "voice", "answer", "hangup" happen
          MaxVersion    \* bound: the version up to which flavors keep changing

VARIABLES ids,       \* the runtime's identifier allocator
          flavor,    \* per shard, what its application code would render
          dirty,     \* per shard, a command was handled since the last turn
          view,      \* per shard, the shared view of the last accepted render
          version,   \* per shard, the version it has
          journal,   \* per shard, recent deltas
          since,     \* per shard, the version a session appeared at
          routing,   \* per shard, the audio table the voice plane reads
          conn,      \* per connection, what its shard keeps about it
          queue,     \* per connection, its output queue
          drained,   \* per connection, a Drained command is in a mailbox
          client,    \* per connection, the client
          stage,     \* per connection, how far its task is: "joining" until its
                     \* first transition is accepted, "draining" what is queued,
                     \* "service", or "dropped" when it will not get one
          menu,      \* per connection, the buttons its client shows
          doubt      \* per connection, history: while behind, it was sent more
                     \* than the one delta it had been refused

shardVars == <<flavor, dirty, view, version, journal, since, routing>>
connVars == <<conn, queue, client, menu, stage>>
vars == <<ids, shardVars, connVars, drained, doubt>>

Nowhere == 0         \* not attached: on its way in, between shards, or gone

\* held is empty, or holds the one view this shard cannot derive by itself;
\* to is the shard a migrating connection is headed for.
Blank(at, to, cursor, held) ==
  [at |-> at, to |-> to, cursor |-> cursor, see |-> {}, overlay |-> EmptyView, actions |-> EmptyMap, held |-> held]
Unattached(held, to) == Blank(Nowhere, to, 0, held)

Init ==
  /\ ids = NewIds
  /\ flavor \in [Shards -> Worlds]
  /\ dirty = [s \in Shards |-> FALSE]
  /\ view = [s \in Shards |-> EmptyView]
  /\ version = [s \in Shards |-> 0]
  /\ journal = [s \in Shards |-> NewJournal]
  /\ since = [s \in Shards |-> EmptyMap]
  /\ routing = [s \in Shards |-> EmptyMap]
  /\ conn = [c \in Conns |-> Unattached({EmptyView}, Nowhere)]
  /\ queue = [c \in Conns |-> NewQueue]
  /\ drained = [c \in Conns |-> FALSE]
  /\ client = [c \in Conns |-> NewClient]
  /\ menu = [c \in Conns |-> {}]
  /\ stage = [c \in Conns |-> "joining"]
  /\ doubt = [c \in Conns |-> FALSE]

Attached(s) == {c \in Conns : conn[c].at = s}

\* The view this connection's client is believed to hold.
composed(c) ==
  IF conn[c].held # {} THEN CHOOSE v \in conn[c].held : TRUE
  ELSE compose(restrict(view[conn[c].at], conn[c].see), conn[c].overlay)

\* Its client holds an older view than the one composed() starts from.
Behind(c, s) == conn[c].held = {} /\ conn[c].cursor < version[s]

-----------------------------------------------------------------------------
(* A transition offered to one connection: the operations, and the state it *)
(* is committed to when the queue admits them and the button changes.       *)

Offer(ops, see, overlay, actions) ==
  [ops |-> ops, see |-> see, overlay |-> overlay, actions |-> actions]

\* Fast path, for a connection whose observation has not moved.
push(c, j, overlay, actions) ==
  Offer(collapse(splice(filter(replay(j, conn[c].cursor), conn[c].see),
                        plan_elements(conn[c].overlay, overlay))),
        conn[c].see, overlay, actions)

\* Slow path: plan between what it holds and the whole of what it is to hold.
replan(c, after, see, overlay, actions) ==
  Offer(collapse(Ops(plan(composed(c), compose(restrict(after, see), overlay)))),
        see, overlay, actions)

Buttons(actions) == {<<k, actions[k]>> : k \in DOMAIN actions}

\* Withdrawals and offers: a relabelled button is both.
ActionMessages(sent, fresh) ==
  Cardinality(Buttons(sent) \ Buttons(fresh)) + Cardinality(Buttons(fresh) \ Buttons(sent))

Messages(c, offer) == Len(offer.ops) + ActionMessages(conn[c].actions, offer.actions)

Admitted(c, offer) == Admission(queue[c], Messages(c, offer)) = "Accepted"

\* Slip: the buttons are not part of what is committed.
commit_KeepsActions(c, head, offer) ==
  [conn[c] EXCEPT !.cursor = head, !.see = offer.see, !.overlay = offer.overlay, !.held = {}]

\* The committed quadruplet moves as one, and drops the transient copy.
commit(c, head, offer) ==
  [conn[c] EXCEPT !.cursor = head, !.see = offer.see, !.overlay = offer.overlay,
                  !.actions = offer.actions, !.held = {}]

\* The client drops every entry of a withdrawn key and adds the offered ones.
Shown(c, offer) ==
  LET sent == Buttons(conn[c].actions)
      fresh == Buttons(offer.actions)
      withdrawn == {b[1] : b \in sent \ fresh}
  IN  {b \in menu[c] : b[1] \notin withdrawn} \cup (fresh \ sent)

\* ready is there once, for the first commit; it goes with a record that is removed.
Joined(st) == IF st = "joining" THEN "draining" ELSE st
Removed(st) == IF st = "joining" THEN "dropped" ELSE st

\* Slip: the offer is committed before the queue has answered.
Send_Unanswered(offers, head) ==
  LET taken == {c \in DOMAIN offers : Admitted(c, offers[c])}
  IN  /\ conn' = [c \in Conns |-> IF c \in DOMAIN offers THEN commit(c, head, offers[c]) ELSE conn[c]]
      /\ client' = [c \in Conns |-> IF c \in taken
                                     THEN deliver(client[c], emit(offers[c].ops, c)) ELSE client[c]]
      /\ menu' = [c \in Conns |-> IF c \in taken THEN Shown(c, offers[c]) ELSE menu[c]]
      /\ stage' = [c \in Conns |-> IF c \in DOMAIN offers THEN Joined(stage[c]) ELSE stage[c]]

\* Everything an offer to each of these connections changes.  The first one
\* that is committed lets the handshake go on.
Send(offers, head) ==
  LET taken == {c \in DOMAIN offers : Admitted(c, offers[c])}
  IN  /\ conn' = [c \in Conns |-> IF c \in taken THEN commit(c, head, offers[c]) ELSE conn[c]]
      /\ client' = [c \in Conns |-> IF c \in taken
                                     THEN deliver(client[c], emit(offers[c].ops, c)) ELSE client[c]]
      /\ menu' = [c \in Conns |-> IF c \in taken THEN Shown(c, offers[c]) ELSE menu[c]]
      /\ stage' = [c \in Conns |-> IF c \in taken THEN Joined(stage[c]) ELSE stage[c]]

\* Channel ids withdrawn by the offers that were taken.
Withdrawn(offers) ==
  UNION {{op.id : op \in {x \in Range(offers[c].ops) : x.op = "RemoveChannel"}}
           : c \in {c \in DOMAIN offers : Admitted(c, offers[c])}}

-----------------------------------------------------------------------------
(* Commands a shard handles between turns.                                  *)

Handled(s) == dirty' = [dirty EXCEPT ![s] = TRUE]

\* Slip: one version back, so as to replay the current one.
Attach_OneBack(c, s) ==
  /\ conn[c].at = Nowhere /\ conn[c].held # {} /\ conn[c].to \in {s, Nowhere}
  /\ conn' = [conn EXCEPT ![c] = Blank(s, Nowhere, version[s] - 1, conn[c].held)]
  /\ Handled(s)
  /\ UNCHANGED <<ids, flavor, view, version, journal, since, routing, queue, drained, client, menu, stage, doubt>>

\* Observing nothing and holding what it arrived with, so that the next turn
\* replans it like any other connection whose observation moves.  The gateway
\* has reserved the session before, so asking for it here always succeeds.
Attach(c, s) ==
  /\ conn[c].at = Nowhere /\ conn[c].held # {} /\ conn[c].to \in {s, Nowhere}
  /\ conn' = [conn EXCEPT ![c] = Blank(s, Nowhere, version[s], conn[c].held)]
  /\ Handled(s)
  /\ UNCHANGED <<ids, flavor, view, version, journal, since, routing, queue, drained, client, menu, stage, doubt>>

\* Leaving for good: the view is torn down, or the queue is given up.
Detach(c, s) ==
  LET offer == Offer(collapse(Ops(plan(composed(c), EmptyView))), {}, EmptyView, conn[c].actions)
  IN  /\ conn[c].at = s
      /\ queue' = [queue EXCEPT ![c] = IF Admitted(c, offer) THEN try_send_all(@, Messages(c, offer))
                                       ELSE mark_fatal(@)]
      /\ client' = [client EXCEPT ![c] = IF Admitted(c, offer) THEN deliver(@, emit(offer.ops, c)) ELSE @]
      /\ conn' = [conn EXCEPT ![c] = Unattached({}, Nowhere)]
      /\ stage' = [stage EXCEPT ![c] = Removed(@)]
      /\ drained' = [drained EXCEPT ![c] = FALSE]
      /\ Handled(s)
      /\ doubt' = [doubt EXCEPT ![c] = @ \/ Behind(c, s)]
      /\ UNCHANGED <<ids, flavor, view, version, journal, since, routing, menu>>

\* Slip: the destination is to start from an empty view.
Handover_Forgets(c, s, to) ==
  LET offer == Offer(<< >>, {}, EmptyView, EmptyMap)
  IN  /\ conn[c].at = s /\ to # s
      /\ queue' = [queue EXCEPT ![c] = try_send_all(@, Messages(c, offer))]
      /\ menu' = [menu EXCEPT ![c] = IF Admitted(c, offer) THEN Shown(c, offer) ELSE @]
      /\ conn' = [conn EXCEPT ![c] = Unattached({EmptyView}, to)]
      /\ stage' = [stage EXCEPT ![c] = Removed(@)]
      /\ doubt' = [doubt EXCEPT ![c] = @ \/ Behind(c, s)]
      /\ drained' = [drained EXCEPT ![c] = FALSE]
      /\ Handled(s)
      /\ UNCHANGED <<ids, flavor, view, version, journal, since, routing, client>>

\* Leaving for another shard: the buttons are withdrawn, as far as the queue
\* allows, and the view goes along.
Handover(c, s, to) ==
  LET offer == Offer(<< >>, {}, EmptyView, EmptyMap)
  IN  /\ conn[c].at = s /\ to # s
      /\ queue' = [queue EXCEPT ![c] = try_send_all(@, Messages(c, offer))]
      /\ menu' = [menu EXCEPT ![c] = IF Admitted(c, offer) THEN Shown(c, offer) ELSE @]
      /\ conn' = [conn EXCEPT ![c] = Unattached({composed(c)}, to)]
      /\ stage' = [stage EXCEPT ![c] = Removed(@)]
      /\ doubt' = [doubt EXCEPT ![c] = @ \/ Behind(c, s)]
      /\ drained' = [drained EXCEPT ![c] = FALSE]
      /\ Handled(s)
      /\ UNCHANGED <<ids, flavor, view, version, journal, since, routing, client>>

\* retry(): the fast path alone, with the private parts last accepted.  What
\* it concludes is not acted on: a connection below the tail is left alone.
Drained(c, s) ==
  LET offer == push(c, journal[s], conn[c].overlay, conn[c].actions)
      skipped == conn[c].held # {} \/ TooFarBehind(journal[s], conn[c].cursor)
      offers == [x \in IF skipped THEN {} ELSE {c} |-> offer]
  IN  /\ drained[c] /\ conn[c].at = s
      /\ drained' = [drained EXCEPT ![c] = FALSE]
      /\ Send(offers, journal[s].head)
      /\ queue' = [queue EXCEPT ![c] = IF skipped THEN @ ELSE try_send_all(@, Messages(c, offer))]
      /\ ids' = retire_channel_ids(ids, s, Withdrawn(offers))
      /\ doubt' = [doubt EXCEPT ![c] = @ \/ (~skipped /\ Admitted(c, offer)
                                              /\ version[s] > conn[c].cursor + 1)]
      /\ Handled(s)
      /\ UNCHANGED <<flavor, view, version, journal, since, routing>>

-----------------------------------------------------------------------------
(* The connection's own task, the voice plane and the answers to queries    *)
(* only touch the queue.                                                    *)

\* Slip: nobody is told.
Write_Silently(c) ==
  /\ "write" \in Env
  /\ stage[c] \in {"draining", "service"}
  /\ queue[c].open /\ queue[c].waiting # << >>
  /\ queue' = [queue EXCEPT ![c].waiting = Tail(@)]
  /\ UNCHANGED <<ids, shardVars, conn, drained, client, menu, stage, doubt>>

\* In service, writing a control message tells the shard, writing voice does
\* not; the handshake's drain() tells it nothing.
Write(c) ==
  /\ "write" \in Env
  /\ stage[c] \in {"draining", "service"}
  /\ queue[c].open /\ queue[c].waiting # << >>
  /\ queue' = [queue EXCEPT ![c].waiting = Tail(@)]
  /\ drained' = [drained EXCEPT ![c] = @ \/ /\ stage[c] = "service" /\ conn[c].at # Nowhere
                                             /\ Head(queue[c].waiting) = "control"]
  /\ UNCHANGED <<ids, shardVars, conn, client, menu, stage, doubt>>

\* drain() finds the queue empty: the handshake is completed and service begins.
Serve(c) ==
  /\ "write" \in Env
  /\ stage[c] = "draining"
  /\ queue[c].open /\ queue[c].waiting = << >>
  /\ stage' = [stage EXCEPT ![c] = "service"]
  /\ UNCHANGED <<ids, shardVars, conn, queue, drained, client, menu, doubt>>

\* The gate: the receiver's cursor has reached the sender's date.
Gate(s, sender, receiver) ==
  sender \in DOMAIN since[s] => conn[receiver].cursor >= since[s][sender]

\* Somebody speaks to it.  Sessions outside Conns are connections the model
\* does not follow.
Voice(c, s) ==
  /\ "voice" \in Env
  /\ conn[c].at = s /\ c \in DOMAIN view[s].users
  /\ \E u \in DOMAIN view[s].users \ {c} :
        /\ u \in Conns => u \in DOMAIN routing[s] /\ c \in routing[s][u]
        /\ Gate(s, u, c)
  /\ queue' = [queue EXCEPT ![c] = push_voice(@)]
  /\ UNCHANGED <<ids, shardVars, conn, drained, client, menu, stage, doubt>>

\* An answer the shard gives to a query is dropped when it does not fit.  Only
\* the service loop reads queries.
Answer(c, s) ==
  /\ "answer" \in Env
  /\ conn[c].at = s /\ stage[c] = "service"
  /\ queue' = [queue EXCEPT ![c] = try_send_all(@, 1)]
  /\ Handled(s)
  /\ UNCHANGED <<ids, flavor, view, version, journal, since, routing, conn, drained, client, menu, stage, doubt>>

\* The writer ends; the shard only finds out when it next sends.
Hangup(c) ==
  /\ "hangup" \in Env
  /\ queue[c].open
  /\ queue' = [queue EXCEPT ![c].open = FALSE]
  /\ UNCHANGED <<ids, shardVars, conn, drained, client, menu, stage, doubt>>

-----------------------------------------------------------------------------
(* A turn.                                                                  *)

\* What w renders to with the identifiers it draws; ok is finish()'s answer.
Rendered(s, w) ==
  LET fresh == allocated(ids, s, w)
      complete == \A i \in DOMAIN Keys(w) : <<s, Keys(w)[i]>> \in DOMAIN fresh.map
      wire(e) == IF complete THEN wired(e, fresh, s) ELSE EmptyView
      shared == wire(w)
      private == [c \in DOMAIN w.private |-> wire(w.private[c])]
  IN  [ids |-> fresh, view |-> shared, ops |-> plan(view[s], shared),
       overlay |-> [c \in Attached(s) |-> wire(PrivateOf(w, c))],
       ok |-> complete /\ finish(shared, private, [c \in Attached(s) |-> SeeOf(w, c)], w.audio, Conns)]

\* Connections whose observation moved, or that hold a view of another shard.
Moved(s, w) == {c \in Attached(s) : conn[c].held # {} \/ conn[c].see # SeeOf(w, c)}

\* The terms of the early return.  The audio relation is not one of them.
Unchanged(s, w, r) ==
  /\ r.ops = << >>
  /\ Moved(s, w) = {}
  /\ \A c \in Attached(s) : r.overlay[c] = conn[c].overlay /\ ActionsOf(w, c) = conn[c].actions

\* An invalid render replaces nothing, and neither does one that changes
\* nothing; the identifiers they drew stay drawn.
Keep(s, w, r) ==
  /\ ~r.ok \/ Unchanged(s, w, r)
  /\ ids' = r.ids
  /\ UNCHANGED <<view, version, journal, since, routing, connVars, drained, doubt>>

\* What each attached connection is offered.
Offers(s, w, r, j, lost) ==
  [c \in Attached(s) \ lost |->
     IF c \in Moved(s, w)
     THEN replan(c, r.view, SeeOf(w, c), r.overlay[c], ActionsOf(w, c))
     ELSE push(c, j, r.overlay[c], ActionsOf(w, c))]

\* The offer leaves a connection that is behind with something it cannot tell.
Inexact(c, s, w, offer, head) ==
  CASE c \in Moved(s, w) -> Behind(c, s) /\ Admitted(c, offer)
    [] c \notin Moved(s, w) /\ Admitted(c, offer) -> conn[c].cursor + 1 < head
    [] OTHER -> conn[c].cursor < head /\ conn[c].overlay # offer.overlay

Publish(s, w, r) ==
  LET head == IF r.ops = << >> THEN version[s] ELSE version[s] + 1
      j == IF r.ops = << >> THEN journal[s] ELSE Record(journal[s], r.ops)
      lost == {c \in Attached(s) \ Moved(s, w) : TooFarBehind(j, conn[c].cursor)}
  IN  /\ r.ok /\ ~Unchanged(s, w, r)
      /\ view' = [view EXCEPT ![s] = r.view]
      /\ version' = [version EXCEPT ![s] = head]
      /\ journal' = [journal EXCEPT ![s] = j]
      /\ since' = [since EXCEPT ![s] = @ @@ [u \in DOMAIN w.users |-> head]]
      /\ routing' = [routing EXCEPT ![s] = compile(w.audio, session_of(w, Conns),
                                                   Silenced(w, Conns, "mute"), Silenced(w, Conns, "deaf"))]
      /\ \E offers \in {Offers(s, w, r, j, lost)} :
            /\ Send(offers, head)
            /\ queue' = [c \in Conns |->
                           IF c \in lost THEN mark_fatal(queue[c])
                           ELSE IF c \in DOMAIN offers THEN try_send_all(queue[c], Messages(c, offers[c]))
                           ELSE queue[c]]
            /\ ids' = retire_channel_ids(retain_channels(r.ids, s, retained(w)), s, Withdrawn(offers))
            /\ doubt' = [c \in Conns |-> doubt[c] \/ (c \in DOMAIN offers /\ Inexact(c, s, w, offers[c], head))]
      /\ UNCHANGED drained

\* reconcile(), of a state of the flavor that woke the shard or of the one it
\* was in when a command was handled.
Reconcile(s, w) ==
  /\ dirty[s] \/ (w # flavor[s] /\ version[s] < MaxVersion)
  /\ w = flavor[s] \/ version[s] < MaxVersion
  /\ flavor' = [flavor EXCEPT ![s] = w]
  /\ dirty' = [dirty EXCEPT ![s] = FALSE]
  /\ \E r \in {Rendered(s, w)} : Keep(s, w, r) \/ Publish(s, w, r)

Next ==
  \/ \E c \in Conns, s \in Shards : Attach(c, s) \/ Detach(c, s) \/ Drained(c, s) \/ Voice(c, s) \/ Answer(c, s)
  \/ \E c \in Conns, s, to \in Shards : Handover(c, s, to)
  \/ \E c \in Conns : Write(c) \/ Serve(c) \/ Hangup(c)
  \/ \E s \in Shards, w \in Worlds : Reconcile(s, w)

Spec == Init /\ [][Next]_vars

\* Handshakes end, writers keep writing, a Drained in a mailbox is read, and the run loop
\* renders after every batch of commands: the second and third are the weak
\* fairness of Drained and of Reconcile(s, flavor[s]), which are enabled as
\* long as the flag is set and reset it.  Nothing makes application code or
\* clients act.
Fairness ==
  /\ \A c \in Conns : WF_vars(Write(c)) /\ WF_vars(Serve(c)) /\ []<>~drained[c]
  /\ \A s \in Shards : []<>~dirty[s]

FairSpec == Spec /\ Fairness

-----------------------------------------------------------------------------
Places == Shards \cup {Nowhere}
Stages == {"joining", "draining", "service", "dropped"}

\* What the shard, its connections and their queues are made of.
TypeOK ==
  /\ flavor \in [Shards -> Worlds]
  /\ dirty \in [Shards -> BOOLEAN]
  /\ version \in [Shards -> Nat]
  /\ journal \in [Shards -> Range(journal)] /\ \A s \in Shards : IsJournal(journal[s])
  /\ conn \in [Conns -> Range(conn)]
  /\ \A c \in Conns :
        conn[c] \in [at : Places, to : Places, cursor : Nat, see : {conn[c].see},
                     overlay : {conn[c].overlay}, actions : {conn[c].actions}, held : {conn[c].held}]
  /\ queue \in [Conns -> Queues]
  /\ drained \in [Conns -> BOOLEAN]
  /\ stage \in [Conns -> Stages]
  /\ doubt \in [Conns -> BOOLEAN]

\* The journal holds exactly the versions between its tail and the shard's
\* version, no more than its depth; no cursor is ahead of it, and no queue
\* over its capacity, whatever order sends, retries and turns come in.
Committed ==
  /\ \A s \in Shards : /\ journal[s].head = version[s]
                       /\ Len(journal[s].entries) = journal[s].head - journal[s].tail
                       /\ Len(journal[s].entries) <= Depth
  /\ \A c \in Conns : /\ Len(queue[c].waiting) <= Capacity
                      /\ conn[c].at # Nowhere => conn[c].cursor <= version[conn[c].at]

CaughtUp(c) == conn[c].at # Nowhere /\ conn[c].held = {} /\ conn[c].cursor = version[conn[c].at]

\* A connection that is up to date holds exactly its restriction of the shared
\* view with its overlay on top, provided it never caught up over several
\* versions at once or with a private change left out.
Oracle == \A c \in Conns : CaughtUp(c) /\ ~doubt[c] => Holds(client[c], composed(c))

\* The oracle as the repository states it, for every connection up to date.
OracleAlways == \A c \in Conns : CaughtUp(c) => Holds(client[c], composed(c))

\* No message a client was sent left it with a dangling reference or removed a
\* channel somebody was in, with the same proviso.
Sound == \A c \in Conns : client[c].sound \/ doubt[c]

\* A client shows the buttons its shard has on record for it.
ButtonsShown ==
  \A c \in Conns : conn[c].at # Nowhere /\ conn[c].held = {} => menu[c] = Buttons(conn[c].actions)

\* Every button a shard counts as sent is on its client's menu, also after a
\* move whose withdrawal of the old shard's buttons was refused by the queue.
ButtonsOffered == \A c \in Conns : Buttons(conn[c].actions) \subseteq menu[c]

\* No client is given a channel under an identifier it has already removed.
NeverRevived == \A c \in Conns : ~client[c].revived

\* Whoever the table lets an up-to-date connection hear, its client knows.
RoutesSeen ==
  \A s \in Shards : \A a \in DOMAIN routing[s] : \A b \in routing[s][a] :
     conn[b].at = s /\ CaughtUp(b) /\ ~doubt[b] => a \in DOMAIN client[b].users

\* The table the voice plane reads after an accepted render is that render's
\* audio relation, also when nothing else has changed.
AudioFollows ==
  [][\A s \in Shards, w \in Worlds : Reconcile(s, w) /\ Rendered(s, w).ok =>
       routing'[s] = compile(w.audio, session_of(w, Conns),
                             Silenced(w, Conns, "mute"), Silenced(w, Conns, "deaf"))]_vars

Told(c) ==
  LET s == conn[c].at IN
  s # Nowhere /\ ~queue[c].must_close =>
    /\ CaughtUp(c)
    /\ conn[c].see = SeeOf(flavor[s], c)
    /\ conn[c].actions = ActionsOf(flavor[s], c)

\* Once application code has stopped changing its mind, every connection still
\* there is closing or has been told everything: a refused transition is
\* eventually retried, whatever was waiting when it was refused.
CatchesUp == <>[][FALSE]_flavor => \A c \in Conns : <>[]Told(c)

ControlWaiting(c) == \E i \in DOMAIN queue[c].waiting : queue[c].waiting[i] = "control"

\* The same from any moment on at which the service loop has a control message
\* to write: writing it makes the shard retry, and so on until nothing is missing.
ServiceCatchesUp ==
  <>[][FALSE]_flavor =>
    \A c \in Conns : (stage[c] = "service" /\ ControlWaiting(c)) ~> []Told(c)

=============================================================================
