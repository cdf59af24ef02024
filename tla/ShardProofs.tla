---------------------------- MODULE ShardProofs ----------------------------
(***************************************************************************)
(* For every set of shards, connections and worlds, every capacity and     *)
(* every journal depth: the journal, the cursors and the queues stay in    *)
(* step, in whatever order turns, retries, writes and migrations come.     *)
(***************************************************************************)
EXTENDS Shard, SequenceTheorems, TLAPS

\* The invariant is inductive once the two are taken together: a cursor stays
\* behind its shard's version because what is committed is the journal's head,
\* and the head is the version.
IInv == TypeOK /\ Committed

\* The same, by the part of the state each conjunct is about.
InStep(j, v) ==
  IsJournal(j) /\ j.head = v /\ Len(j.entries) = j.head - j.tail /\ Len(j.entries) <= Depth
ShardPart ==
  /\ flavor \in [Shards -> Worlds] /\ dirty \in [Shards -> BOOLEAN] /\ version \in [Shards -> Nat]
  /\ journal \in [Shards -> Range(journal)]
  /\ \A s \in Shards : InStep(journal[s], version[s])

IsConn(c) == c \in [at : Places, to : Places, cursor : Nat, see : {c.see},
                    overlay : {c.overlay}, actions : {c.actions}, held : {c.held}]
Follows(c, v) == c.at # Nowhere => c.cursor <= v[c.at]
ConnPart ==
  /\ conn \in [Conns -> Range(conn)]
  /\ \A c \in Conns : IsConn(conn[c]) /\ Follows(conn[c], version)

Bounded(q) == q \in Queues /\ Len(q.waiting) <= Capacity
QueuePart == queue \in [Conns -> Queues] /\ \A c \in Conns : Bounded(queue[c])

FlagPart ==
  drained \in [Conns -> BOOLEAN] /\ stage \in [Conns -> Stages] /\ doubt \in [Conns -> BOOLEAN]

LEMMA Parts ==
  /\ IInv <=> ShardPart /\ ConnPart /\ QueuePart /\ FlagPart
  /\ IInv' <=> ShardPart' /\ ConnPart' /\ QueuePart' /\ FlagPart'
BY DEF IInv, TypeOK, Committed, ShardPart, InStep, ConnPart, IsConn, Follows, QueuePart, Bounded, FlagPart

\* The three flags of a connection, each on its own.
LEMMA Flags ==
  ASSUME drained' \in [Conns -> BOOLEAN], stage' \in [Conns -> Stages], doubt' \in [Conns -> BOOLEAN]
  PROVE  FlagPart'
BY DEF FlagPart

\* A task goes from stage to stage, whatever record comes or goes.
LEMMA StageKept ==
  ASSUME NEW st \in Stages
  PROVE  Joined(st) \in Stages /\ Removed(st) \in Stages
BY DEF Joined, Removed, Stages

LEMMA StageReplaced ==
  ASSUME stage \in [Conns -> Stages], NEW c \in Conns, stage' = [stage EXCEPT ![c] = Removed(stage[c])]
  PROVE  stage' \in [Conns -> Stages]
BY StageKept

LEMMA SendStage ==
  ASSUME stage \in [Conns -> Stages], NEW offers, NEW head, Send(offers, head)
  PROVE  stage' \in [Conns -> Stages]
<1>1. PICK taken : stage' = [c \in Conns |-> IF c \in taken THEN Joined(stage[c]) ELSE stage[c]]
  BY Zenon DEF Send
<1>2. \A c \in Conns : stage[c] \in Stages /\ Joined(stage[c]) \in Stages
  BY StageKept
<1> QED BY <1>1, <1>2

-----------------------------------------------------------------------------
(* The journal.                                                             *)

\* Journal::push evicts the front past the depth and moves the tail with it.
LEMMA RecordKeeps ==
  ASSUME NEW j, IsJournal(j), Len(j.entries) = j.head - j.tail, Len(j.entries) <= Depth, NEW ops
  PROVE  LET k == Record(j, ops) IN
         /\ IsJournal(k) /\ k.head = j.head + 1
         /\ Len(k.entries) = k.head - k.tail /\ Len(k.entries) <= Depth
<1> DEFINE E == Range(j.entries) \cup {ops}
           longer == Append(j.entries, ops)
<1>1. j.tail \in Nat /\ j.head \in Nat /\ j.entries \in Seq(Range(j.entries)) /\ Len(j.entries) \in Nat
  BY LenProperties DEF IsJournal
<1>2. j.entries \in Seq(E)
  BY <1>1, SeqMonotonic
<1>3. longer \in Seq(E) /\ Len(longer) = Len(j.entries) + 1
  BY <1>2
<1>4. Depth \in Nat \ {0}
  BY DepthIsPositive
<1>5. ASSUME NEW t \in {j.tail, j.tail + 1}, NEW e \in Seq(E), Len(e) = j.head + 1 - t, Len(e) <= Depth,
             Record(j, ops) = [tail |-> t, head |-> j.head + 1, entries |-> e]
      PROVE  LET k == Record(j, ops) IN
             /\ IsJournal(k) /\ k.head = j.head + 1
             /\ Len(k.entries) = k.head - k.tail /\ Len(k.entries) <= Depth
  <2>1. e \in Seq(Range(e))
    BY SeqOfRange
  <2> QED BY <1>1, <1>5, <2>1 DEF IsJournal
<1>6. CASE Len(j.entries) = Depth
  <2> DEFINE e == Tail(longer)
  <2>1. e \in Seq(E) /\ Len(e) = Len(longer) - 1
    BY <1>1, <1>3, <1>4, <1>6
  <2>2. Record(j, ops) = [tail |-> j.tail + 1, head |-> j.head + 1, entries |-> e]
    BY <1>6, Zenon DEF Record
  <2> HIDE DEF e, longer, E
  <2>3. Len(e) = j.head + 1 - (j.tail + 1) /\ Len(e) <= Depth
    BY <1>1, <1>3, <1>4, <2>1
  <2> QED BY <1>5, <2>1, <2>2, <2>3
<1>7. CASE Len(j.entries) # Depth
  <2>1. Record(j, ops) = [tail |-> j.tail, head |-> j.head + 1, entries |-> longer]
    BY <1>7 DEF Record
  <2> HIDE DEF longer, E
  <2>2. Len(longer) = j.head + 1 - j.tail /\ Len(longer) <= Depth
    BY <1>1, <1>3, <1>4, <1>7
  <2> QED BY <1>3, <1>5, <2>1, <2>2
<1> QED BY <1>6, <1>7

-----------------------------------------------------------------------------
(* The queue.                                                               *)

LEMMA ControlIsSeq ==
  ASSUME NEW n \in Nat
  PROVE  Control(n) \in Seq({"control", "voice"}) /\ Len(Control(n)) = n
<1>1. Control(n) \in [1..n -> {"control", "voice"}]
  BY DEF Control
<1>2. Control(n) \in Seq({"control", "voice"})
  BY <1>1, SeqDef
<1>3. DOMAIN Control(n) = 1..n /\ DOMAIN Control(n) = 1..Len(Control(n)) /\ Len(Control(n)) \in Nat
  BY <1>1, <1>2, LenProperties
<1> QED BY <1>2, <1>3

\* try_send_all never overfills the queue, whatever it is offered.
LEMMA SendBounded ==
  ASSUME NEW q, Bounded(q), NEW n
  PROVE  Bounded(try_send_all(q, n))
<1>1. q.waiting \in Seq({"control", "voice"}) /\ Len(q.waiting) \in Nat /\ Capacity \in Nat
  BY QueueBounds, LenProperties DEF Bounded, Queues
<1>2. CASE Admission(q, n) = "Accepted"
  <2>1. n \in Nat /\ Len(q.waiting) + n <= Capacity
    BY <1>1, <1>2 DEF Admission, Bounded
  <2>2. /\ q.waiting \o Control(n) \in Seq({"control", "voice"})
        /\ Len(q.waiting \o Control(n)) = Len(q.waiting) + n
    BY <1>1, <2>1, ControlIsSeq
  <2>3. try_send_all(q, n) = [q EXCEPT !.waiting = q.waiting \o Control(n)]
    BY <1>2 DEF try_send_all
  <2> QED BY <2>1, <2>2, <2>3, Zenon DEF Bounded, Queues
<1>3. CASE Admission(q, n) \in {"TooLarge", "Closed"}
  BY <1>1, <1>3, Zenon DEF try_send_all, Bounded, Queues
<1>4. CASE Admission(q, n) \notin {"Accepted", "TooLarge", "Closed"}
  BY <1>4 DEF try_send_all
<1> QED BY <1>2, <1>3, <1>4

LEMMA VoiceBounded ==
  ASSUME NEW q, Bounded(q)
  PROVE  Bounded(push_voice(q)) /\ Bounded(mark_fatal(q))
<1>1. q.waiting \in Seq({"control", "voice"}) /\ Len(q.waiting) \in Nat /\ Capacity \in Nat /\ VoiceDepth \in Nat
  BY QueueBounds, LenProperties DEF Bounded, Queues
<1>2. Bounded(mark_fatal(q))
  BY Zenon DEF mark_fatal, Bounded, Queues
<1>3. Bounded(push_voice(q))
  <2>1. CASE Len(q.waiting) >= VoiceDepth \/ Len(q.waiting) >= Capacity
    BY <2>1 DEF push_voice
  <2>2. CASE ~(Len(q.waiting) >= VoiceDepth \/ Len(q.waiting) >= Capacity)
    <3>1. /\ Append(q.waiting, "voice") \in Seq({"control", "voice"})
          /\ Len(Append(q.waiting, "voice")) = Len(q.waiting) + 1
      BY <1>1
    <3>2. Len(q.waiting) + 1 <= Capacity
      BY <1>1, <2>2
    <3> QED BY <2>2, <3>1, <3>2, Zenon DEF push_voice, Bounded, Queues
  <2> QED BY <2>1, <2>2
<1> QED BY <1>2, <1>3

-----------------------------------------------------------------------------
(* Functions built and updated.                                             *)

LEMMA Built ==
  ASSUME NEW D, NEW f, f = [x \in D |-> f[x]]
  PROVE  f \in [D -> Range(f)]
BY DEF Range

LEMMA Update ==
  ASSUME NEW D, NEW f, f \in [D -> Range(f)], NEW x \in D, NEW e
  PROVE  LET g == [f EXCEPT ![x] = e] IN
         g \in [D -> Range(g)] /\ g[x] = e /\ \A y \in D : y # x => g[y] = f[y]
BY DEF Range

\* One connection's record is replaced.
LEMMA ConnReplaced ==
  ASSUME ConnPart, NEW c \in Conns, NEW r, IsConn(r), Follows(r, version),
         conn' = [conn EXCEPT ![c] = r], UNCHANGED version
  PROVE  ConnPart'
<1>1. conn' \in [Conns -> Range(conn')] /\ conn'[c] = r /\ \A y \in Conns : y # c => conn'[y] = conn[y]
  BY Update, Zenon DEF ConnPart
<1> QED BY <1>1, Zenon DEF ConnPart, Follows

\* One connection's queue is replaced.
LEMMA QueueReplaced ==
  ASSUME QueuePart, NEW c \in Conns, NEW q, Bounded(q), queue' = [queue EXCEPT ![c] = q]
  PROVE  QueuePart'
BY DEF QueuePart, Bounded

\* A command is handled: only the dirty flag of the shard's state changes.
LEMMA ShardHandled ==
  ASSUME ShardPart, NEW s \in Shards, Handled(s), UNCHANGED <<flavor, version, journal>>
  PROVE  ShardPart'
BY DEF ShardPart, Handled

\* Offers are made to connections of one shard, and commit them to its head.
LEMMA SendKeeps ==
  ASSUME ConnPart, NEW s \in Shards, NEW offers, NEW head \in Nat, Send(offers, head),
         DOMAIN offers \subseteq Attached(s),
         version \in [Shards -> Nat], version' \in [Shards -> Nat],
         \A t \in Shards : version[t] <= version'[t], head <= version'[s]
  PROVE  ConnPart'
<1> DEFINE taken == {c \in DOMAIN offers : Admitted(c, offers[c])}
           made(c) == IF c \in taken THEN commit(c, head, offers[c]) ELSE conn[c]
<1>1. conn' = [c \in Conns |-> made(c)]
  BY DEF Send
<1>2. conn' \in [Conns -> Range(conn')]
  <2> HIDE DEF made
  <2> QED BY <1>1, Built
<1>3. ASSUME NEW c \in Conns PROVE IsConn(made(c)) /\ Follows(made(c), version')
  <2>1. IsConn(conn[c]) /\ Follows(conn[c], version)
    BY DEF ConnPart
  <2>2. CASE c \in taken
    <3>1. conn[c].at = s
      BY <2>2 DEF Attached
    <3>2. made(c) = commit(c, head, offers[c])
      BY <2>2
    <3> HIDE DEF made, taken
    <3>3. made(c) = [conn[c] EXCEPT !.cursor = head, !.see = offers[c].see, !.overlay = offers[c].overlay,
                                    !.actions = offers[c].actions, !.held = {}]
      BY <3>2 DEF commit
    <3>4. IsConn(made(c))
      BY <2>1, <3>3, Zenon DEF IsConn
    <3>5. made(c).at = s /\ made(c).cursor = head
      BY <2>1, <3>1, <3>3 DEF IsConn
    <3> QED BY <3>4, <3>5 DEF Follows
  <2>3. CASE c \notin taken
    <3>1. made(c) = conn[c]
      BY <2>3
    <3> HIDE DEF made, taken
    <3>2. conn[c].at # Nowhere => conn[c].at \in Shards /\ conn[c].cursor \in Nat
      BY <2>1 DEF IsConn, Places
    <3>3. conn[c].at # Nowhere => conn[c].cursor <= version'[conn[c].at]
      BY <2>1, <3>2 DEF Follows
    <3> QED BY <2>1, <3>1, <3>3 DEF Follows
  <2> QED BY <2>2, <2>3
<1>4. \A c \in Conns : conn'[c] = made(c)
  BY <1>1
<1> HIDE DEF made
<1> QED BY <1>2, <1>3, <1>4 DEF ConnPart, Follows

-----------------------------------------------------------------------------
(* One lemma per action.                                                    *)

LEMMA AttachStep ==
  ASSUME IInv, NEW c \in Conns, NEW s \in Shards, Attach(c, s)
  PROVE  IInv'
<1> DEFINE r == Blank(s, Nowhere, version[s], conn[c].held)
<1>1. ShardPart /\ ConnPart /\ QueuePart /\ FlagPart
  BY Parts
<1>2. ShardPart'
  BY <1>1, ShardHandled DEF Attach
<1>3. version[s] \in Nat
  BY <1>1 DEF ShardPart
<1>4. r = Blank(s, Nowhere, version[s], conn[c].held)
  OBVIOUS
<1>5. conn' = [conn EXCEPT ![c] = r] /\ UNCHANGED version
  BY DEF Attach
<1> HIDE DEF r
<1>6. IsConn(r) /\ Follows(r, version)
  BY <1>3, <1>4 DEF Blank, IsConn, Follows, Places
<1>7. ConnPart'
  BY <1>1, <1>5, <1>6, ConnReplaced, Zenon
<1>8. QueuePart' /\ FlagPart'
  BY <1>1 DEF Attach, QueuePart, FlagPart
<1> QED BY <1>2, <1>7, <1>8, Parts

LEMMA LeaverIsConn ==
  ASSUME NEW held, NEW to \in Places
  PROVE  IsConn(Unattached(held, to)) /\ Follows(Unattached(held, to), version)
BY DEF Unattached, Blank, IsConn, Follows, Places

LEMMA DetachStep ==
  ASSUME IInv, NEW c \in Conns, NEW s \in Shards, Detach(c, s)
  PROVE  IInv'
<1>1. ShardPart /\ ConnPart /\ QueuePart /\ FlagPart
  BY Parts
<1>2. ShardPart'
  BY <1>1, ShardHandled DEF Detach
<1>3. ConnPart'
  BY <1>1, ConnReplaced, LeaverIsConn, Zenon DEF Detach, Places
<1>4. QueuePart'
  <2>1. Bounded(queue[c])
    BY <1>1 DEF QueuePart
  <2>2. PICK n, q : q \in {try_send_all(queue[c], n), mark_fatal(queue[c])} /\ queue' = [queue EXCEPT ![c] = q]
    BY Zenon DEF Detach
  <2>3. Bounded(q)
    BY <2>1, <2>2, SendBounded, VoiceBounded
  <2> QED BY <1>1, <2>2, <2>3, QueueReplaced, Zenon
<1>5. FlagPart'
  <2>1. drained' \in [Conns -> BOOLEAN] /\ doubt' \in [Conns -> BOOLEAN]
    BY <1>1 DEF Detach, FlagPart
  <2>2. stage' \in [Conns -> Stages]
    BY <1>1, StageReplaced, Zenon DEF Detach, FlagPart
  <2> QED BY <2>1, <2>2, Flags
<1> QED BY <1>2, <1>3, <1>4, <1>5, Parts

LEMMA HandoverStep ==
  ASSUME IInv, NEW c \in Conns, NEW s \in Shards, NEW to \in Shards, Handover(c, s, to)
  PROVE  IInv'
<1>1. ShardPart /\ ConnPart /\ QueuePart /\ FlagPart
  BY Parts
<1>2. ShardPart'
  BY <1>1, ShardHandled DEF Handover
<1>3. ConnPart'
  BY <1>1, ConnReplaced, LeaverIsConn, Zenon DEF Handover, Places
<1>4. QueuePart'
  <2>1. Bounded(queue[c])
    BY <1>1 DEF QueuePart
  <2>2. PICK n : queue' = [queue EXCEPT ![c] = try_send_all(queue[c], n)]
    BY Zenon DEF Handover
  <2> QED BY <1>1, <2>1, <2>2, SendBounded, QueueReplaced, Zenon
<1>5. FlagPart'
  <2>1. drained' \in [Conns -> BOOLEAN] /\ doubt' \in [Conns -> BOOLEAN]
    BY <1>1 DEF Handover, FlagPart
  <2>2. stage' \in [Conns -> Stages]
    BY <1>1, StageReplaced, Zenon DEF Handover, FlagPart
  <2> QED BY <2>1, <2>2, Flags
<1> QED BY <1>2, <1>3, <1>4, <1>5, Parts

LEMMA DrainedStep ==
  ASSUME IInv, NEW c \in Conns, NEW s \in Shards, Drained(c, s)
  PROVE  IInv'
<1> DEFINE offer == push(c, journal[s], conn[c].overlay, conn[c].actions)
           skipped == conn[c].held # {} \/ TooFarBehind(journal[s], conn[c].cursor)
           offers == [x \in IF skipped THEN {} ELSE {c} |-> offer]
<1>1. ShardPart /\ ConnPart /\ QueuePart /\ FlagPart
  BY Parts
<1>2. ShardPart'
  BY <1>1, ShardHandled DEF Drained
<1>3. ConnPart'
  <2>1. conn[c].at = s /\ Send(offers, journal[s].head) /\ UNCHANGED version
    BY DEF Drained
  <2>2. DOMAIN offers \subseteq {c}
    OBVIOUS
  <2>3. version \in [Shards -> Nat] /\ journal[s].head = version[s]
    BY <1>1 DEF ShardPart, InStep
  <2> HIDE DEF offers
  <2>4. DOMAIN offers \subseteq Attached(s)
    BY <2>1, <2>2 DEF Attached
  <2> QED BY <1>1, <2>1, <2>3, <2>4, SendKeeps
<1>4. QueuePart'
  <2>1. Bounded(queue[c])
    BY <1>1 DEF QueuePart
  <2>2. queue' = [queue EXCEPT ![c] = IF skipped THEN queue[c] ELSE try_send_all(queue[c], Messages(c, offer))]
    BY DEF Drained
  <2> HIDE DEF skipped, offer
  <2>3. PICK n, q : q \in {try_send_all(queue[c], n), queue[c]} /\ queue' = [queue EXCEPT ![c] = q]
    BY <2>2, Zenon
  <2>4. Bounded(q)
    BY <2>1, <2>3, SendBounded
  <2> QED BY <1>1, <2>3, <2>4, QueueReplaced, Zenon
<1>5. FlagPart'
  <2>1. drained' \in [Conns -> BOOLEAN] /\ doubt' \in [Conns -> BOOLEAN]
    BY <1>1 DEF Drained, FlagPart
  <2>2. Send(offers, journal[s].head)
    BY DEF Drained
  <2> HIDE DEF offers
  <2>3. stage' \in [Conns -> Stages]
    BY <1>1, <2>2, SendStage DEF FlagPart
  <2> QED BY <2>1, <2>3, Flags
<1> QED BY <1>2, <1>3, <1>4, <1>5, Parts

LEMMA WriteStep ==
  ASSUME IInv, NEW c \in Conns, Write(c)
  PROVE  IInv'
<1>1. ShardPart /\ ConnPart /\ QueuePart /\ FlagPart
  BY Parts
<1>2. ShardPart' /\ ConnPart'
  BY <1>1 DEF Write, shardVars, ShardPart, ConnPart, Follows
<1>3. QueuePart'
  <2> DEFINE q == [queue[c] EXCEPT !.waiting = Tail(queue[c].waiting)]
  <2>1. queue[c] \in Queues /\ Len(queue[c].waiting) <= Capacity /\ queue[c].waiting # << >>
    BY <1>1 DEF QueuePart, Bounded, Write
  <2>2. /\ Tail(queue[c].waiting) \in Seq({"control", "voice"})
        /\ Len(Tail(queue[c].waiting)) = Len(queue[c].waiting) - 1
        /\ Len(queue[c].waiting) \in Nat
    BY <2>1 DEF Queues
  <2>3. Bounded(q)
    <3>1. PICK t \in Seq({"control", "voice"}) : t = Tail(queue[c].waiting) /\ Len(t) <= Capacity
      <4> DEFINE t == Tail(queue[c].waiting)
                 n == Len(queue[c].waiting)
      <4>1. t \in Seq({"control", "voice"}) /\ Len(t) = n - 1 /\ n \in Nat /\ n <= Capacity
        BY <2>1, <2>2
      <4> HIDE DEF t, n
      <4>2. Len(t) <= Capacity
        BY <4>1, QueueBounds
      <4> QED BY <4>1, <4>2, Zenon DEF t
    <3>2. q = [queue[c] EXCEPT !.waiting = t]
      BY <3>1
    <3> QED BY <2>1, <3>1, <3>2, Zenon DEF Queues, Bounded
  <2>4. queue' = [queue EXCEPT ![c] = q]
    BY <1>1 DEF Write, QueuePart
  <2> QED BY <1>1, <2>3, <2>4, QueueReplaced, Zenon
<1>4. FlagPart'
  BY <1>1 DEF Write, FlagPart
<1> QED BY <1>2, <1>3, <1>4, Parts

LEMMA ServeStep ==
  ASSUME IInv, NEW c \in Conns, Serve(c)
  PROVE  IInv'
<1>1. ShardPart /\ ConnPart /\ QueuePart /\ FlagPart
  BY Parts
<1>2. ShardPart' /\ ConnPart' /\ QueuePart'
  BY <1>1 DEF Serve, shardVars, ShardPart, ConnPart, Follows, QueuePart
<1>3. FlagPart'
  BY <1>1 DEF Serve, FlagPart, Stages
<1> QED BY <1>2, <1>3, Parts

LEMMA HangupStep ==
  ASSUME IInv, NEW c \in Conns, Hangup(c)
  PROVE  IInv'
<1>1. ShardPart /\ ConnPart /\ QueuePart /\ FlagPart
  BY Parts
<1>2. ShardPart' /\ ConnPart' /\ FlagPart'
  BY <1>1 DEF Hangup, shardVars, ShardPart, ConnPart, Follows, FlagPart
<1>3. QueuePart'
  BY <1>1, Zenon DEF Hangup, QueuePart, Bounded, Queues
<1> QED BY <1>2, <1>3, Parts

LEMMA VoiceStep ==
  ASSUME IInv, NEW c \in Conns, NEW s \in Shards, Voice(c, s)
  PROVE  IInv'
<1>1. ShardPart /\ ConnPart /\ QueuePart /\ FlagPart
  BY Parts
<1>2. ShardPart' /\ ConnPart' /\ FlagPart'
  BY <1>1 DEF Voice, shardVars, ShardPart, ConnPart, Follows, FlagPart
<1>3. Bounded(push_voice(queue[c])) /\ queue' = [queue EXCEPT ![c] = push_voice(queue[c])]
  BY <1>1, VoiceBounded DEF Voice, QueuePart
<1> QED BY <1>1, <1>2, <1>3, QueueReplaced, Parts, Zenon

LEMMA AnswerStep ==
  ASSUME IInv, NEW c \in Conns, NEW s \in Shards, Answer(c, s)
  PROVE  IInv'
<1>1. ShardPart /\ ConnPart /\ QueuePart /\ FlagPart
  BY Parts
<1>2. ShardPart'
  BY <1>1, ShardHandled DEF Answer
<1>3. ConnPart' /\ FlagPart'
  BY <1>1 DEF Answer, ConnPart, Follows, FlagPart
<1>4. Bounded(try_send_all(queue[c], 1)) /\ queue' = [queue EXCEPT ![c] = try_send_all(queue[c], 1)]
  BY <1>1, SendBounded DEF Answer, QueuePart
<1> QED BY <1>1, <1>2, <1>3, <1>4, QueueReplaced, Parts, Zenon

\* A turn that publishes nothing.
LEMMA KeepStep ==
  ASSUME IInv, NEW s \in Shards, NEW w \in Worlds, NEW r, Keep(s, w, r),
         flavor' = [flavor EXCEPT ![s] = w], dirty' = [dirty EXCEPT ![s] = FALSE]
  PROVE  IInv'
<1>1. ShardPart /\ ConnPart /\ QueuePart /\ FlagPart
  BY Parts
<1>2. ShardPart'
  BY <1>1 DEF Keep, ShardPart
<1>3. ConnPart' /\ QueuePart' /\ FlagPart'
  BY <1>1 DEF Keep, connVars, ConnPart, Follows, QueuePart, FlagPart
<1> QED BY <1>2, <1>3, Parts

\* A turn that publishes a version, or a change to somebody's private part.
LEMMA PublishStep ==
  ASSUME IInv, NEW s \in Shards, NEW w \in Worlds, NEW r, Publish(s, w, r),
         flavor' = [flavor EXCEPT ![s] = w], dirty' = [dirty EXCEPT ![s] = FALSE]
  PROVE  IInv'
<1> DEFINE head == IF r.ops = << >> THEN version[s] ELSE version[s] + 1
           j == IF r.ops = << >> THEN journal[s] ELSE Record(journal[s], r.ops)
           lost == {c \in Attached(s) \ Moved(s, w) : TooFarBehind(j, conn[c].cursor)}
<1>1. ShardPart /\ ConnPart /\ QueuePart /\ FlagPart
  BY Parts
<1>2. version[s] \in Nat /\ InStep(journal[s], version[s])
  BY <1>1 DEF ShardPart
<1>3. head \in Nat /\ version[s] <= head
  BY <1>2
<1>4. InStep(j, head)
  BY <1>2, RecordKeeps DEF InStep
<1>5. PICK offers : /\ offers = Offers(s, w, r, j, lost)
                    /\ Send(offers, head)
                    /\ queue' = [c \in Conns |->
                         IF c \in lost THEN mark_fatal(queue[c])
                         ELSE IF c \in DOMAIN offers THEN try_send_all(queue[c], Messages(c, offers[c]))
                         ELSE queue[c]]
                    /\ doubt' = [c \in Conns |->
                         doubt[c] \/ (c \in DOMAIN offers /\ Inexact(c, s, w, offers[c], head))]
  BY Zenon DEF Publish
<1>6. /\ version' = [version EXCEPT ![s] = head]
      /\ journal' = [journal EXCEPT ![s] = j]
      /\ UNCHANGED drained
  BY DEF Publish
<1>7. DOMAIN offers \subseteq Attached(s)
  BY <1>5, Zenon DEF Offers
<1> HIDE DEF head, j, lost
<1>8. ShardPart'
  <2>1. journal' \in [Shards -> Range(journal')] /\ journal'[s] = j
        /\ \A t \in Shards : t # s => journal'[t] = journal[t]
    BY <1>1, <1>6, Update, Zenon DEF ShardPart
  <2>2. version' \in [Shards -> Nat] /\ version'[s] = head /\ \A t \in Shards : t # s => version'[t] = version[t]
    BY <1>1, <1>3, <1>6 DEF ShardPart
  <2>3. flavor' \in [Shards -> Worlds] /\ dirty' \in [Shards -> BOOLEAN]
    BY <1>1 DEF ShardPart
  <2>4. ASSUME NEW t \in Shards PROVE InStep(journal'[t], version'[t])
    BY <1>1, <1>4, <2>1, <2>2 DEF ShardPart
  <2> QED BY <2>1, <2>2, <2>3, <2>4 DEF ShardPart, InStep
<1>9. ConnPart'
  <2>1. /\ version \in [Shards -> Nat] /\ version' \in [Shards -> Nat]
        /\ \A t \in Shards : version[t] <= version'[t]
        /\ head <= version'[s]
    BY <1>1, <1>3, <1>6 DEF ShardPart
  <2> QED BY <1>1, <1>3, <1>5, <1>7, <2>1, SendKeeps
<1>10. QueuePart'
  <2>1. ASSUME NEW c \in Conns PROVE Bounded(queue'[c])
    <3>1. Bounded(queue[c])
      BY <1>1 DEF QueuePart
    <3>2. PICK n : queue'[c] \in {queue[c], mark_fatal(queue[c]), try_send_all(queue[c], n)}
      BY <1>5
    <3> QED BY <3>1, <3>2, SendBounded, VoiceBounded
  <2>2. queue' \in [Conns -> Queues]
    BY <1>5, <2>1 DEF Bounded
  <2> QED BY <2>1, <2>2 DEF QueuePart, Bounded
<1>11. FlagPart'
  <2>1. drained' \in [Conns -> BOOLEAN] /\ doubt' \in [Conns -> BOOLEAN]
    BY <1>1, <1>5, <1>6 DEF FlagPart
  <2>2. stage' \in [Conns -> Stages]
    BY <1>1, <1>5, SendStage DEF FlagPart
  <2> QED BY <2>1, <2>2, Flags
<1> QED BY <1>8, <1>9, <1>10, <1>11, Parts

-----------------------------------------------------------------------------
LEMMA InitIInv == Init => IInv
<1> SUFFICES ASSUME Init PROVE IInv
  OBVIOUS
<1>1. IsJournal(NewJournal) /\ Len(NewJournal.entries) = 0
  BY SeqOfRange DEF NewJournal, IsJournal
<1>2. journal \in [Shards -> Range(journal)]
  BY Built DEF Init
<1>3. ShardPart
  BY <1>1, <1>2, DepthIsPositive DEF Init, ShardPart, InStep, NewJournal
<1>4. ConnPart
  <2>1. conn = [c \in Conns |-> conn[c]]
    BY DEF Init
  <2>2. conn \in [Conns -> Range(conn)]
    BY <2>1, Built
  <2> QED BY <2>2, LeaverIsConn, Zenon DEF Init, ConnPart, Places
<1>5. QueuePart
  <2>1. Bounded(NewQueue)
    BY QueueBounds DEF NewQueue, Bounded, Queues
  <2>2. queue = [c \in Conns |-> NewQueue]
    BY DEF Init
  <2> QED BY <2>1, <2>2 DEF QueuePart, Bounded
<1>6. FlagPart
  BY DEF Init, FlagPart, Stages
<1> QED BY <1>3, <1>4, <1>5, <1>6, Parts

LEMMA StepIInv == IInv /\ [Next]_vars => IInv'
<1> SUFFICES ASSUME IInv, [Next]_vars PROVE IInv'
  OBVIOUS
<1>1. CASE \E c \in Conns, s \in Shards :
             Attach(c, s) \/ Detach(c, s) \/ Drained(c, s) \/ Voice(c, s) \/ Answer(c, s)
  BY <1>1, AttachStep, DetachStep, DrainedStep, VoiceStep, AnswerStep
<1>2. CASE \E c \in Conns, s, to \in Shards : Handover(c, s, to)
  BY <1>2, HandoverStep
<1>3. CASE \E c \in Conns : Write(c) \/ Serve(c) \/ Hangup(c)
  BY <1>3, WriteStep, ServeStep, HangupStep
<1>4. CASE \E s \in Shards, w \in Worlds : Reconcile(s, w)
  BY <1>4, KeepStep, PublishStep, Zenon DEF Reconcile
<1>5. CASE UNCHANGED vars
  BY <1>5 DEF IInv, TypeOK, Committed, vars, shardVars, connVars
<1> QED BY <1>1, <1>2, <1>3, <1>4, <1>5 DEF Next

\* Every state a runtime reaches is well typed: handlers of the shard, of the
\* gateway's writer and of the voice plane leave each other's state in shape.
THEOREM TypeCorrect == Spec => []TypeOK
<1>1. IInv => TypeOK
  BY DEF IInv
<1> QED BY <1>1, InitIInv, StepIInv, PTL DEF Spec

\* For any number of shards, connections and versions: a shard's journal covers
\* the versions from its tail to the current one and no more than its depth, no
\* cursor overtakes the version, and no queue holds more than its capacity.
THEOREM CommittedHolds == Spec => []Committed
<1>1. IInv => Committed
  BY DEF IInv
<1> QED BY <1>1, InitIInv, StepIInv, PTL DEF Spec

=============================================================================
