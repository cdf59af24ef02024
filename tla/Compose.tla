------------------------------- MODULE Compose -------------------------------
(***************************************************************************)
(* One connection's transition, composed from the shared delta and its own *)
(* overlay's delta, and the order in which it is put on the wire.          *)
(***************************************************************************)
EXTENDS Plan

\* Slip: every connection gets the whole delta.
filter_Nothing(planned, see) == Ops(planned)

filter(planned, see) == Ops(SelectSeq(planned, LAMBDA p : Sees(see, p.scope)))

\* Slip: everything shared first.
splice_Last(shared, private) == shared \o private.removals \o private.additions

\* The overlay goes between the shared additions and the shared removals.
splice(shared, private) ==
  LET boundary == SelectInSeq(shared, is_removal)      \* 0 when there is none
      kept == IF boundary = 0 THEN Len(shared) ELSE boundary - 1
  IN  SubSeq(shared, 1, kept) \o private.removals \o private.additions
      \o SubSeq(shared, kept + 1, Len(shared))

\* Slip: nothing is dropped.
collapse_Nothing(ops) == ops

\* Drop the removals of what is added anywhere in the same transition.
collapse(ops) ==
  LET arriving == {added(ops[i]) : i \in DOMAIN ops} \ {<< >>}
  IN  SelectSeq(ops, LAMBDA op : removed(op) \notin arriving)

-----------------------------------------------------------------------------
(* Messages.  An optional field is a set of at most one value; an empty     *)
(* list of links cannot be told from one that was not sent.                 *)

ChannelState(id, parent, label, links, added_links, removed_links) ==
  [type |-> "ChannelState", id |-> id, parent |-> parent, label |-> label, links |-> links,
   links_add |-> added_links, links_remove |-> removed_links]
ChannelRemove(id) == [type |-> "ChannelRemove", id |-> id]
UserState(id, channel, label) == [type |-> "UserState", id |-> id, channel |-> channel, label |-> label]
UserRemove(id) == [type |-> "UserRemove", id |-> id]

\* A new channel is sent whole, the root without a parent.
created_channel(op) ==
  ChannelState(op.id, IF op.id = RootId THEN {} ELSE {op.parent}, {op.label}, op.links, {}, {})

\* Slip: the links a patch gains are sent as the whole set.
patched_channel_Whole(op) ==
  ChannelState(op.id, op.parent, op.label, op.links_added, {}, op.links_removed)

patched_channel(op) ==
  ChannelState(op.id, op.parent, op.label, {}, op.links_added, op.links_removed)

emit_op(op) ==
  CASE op.op = "CreateChannel" -> created_channel(op)
    [] op.op = "UpdateChannel" -> patched_channel(op)
    [] op.op = "RemoveChannel" -> ChannelRemove(op.id)
    [] op.op = "AddUser"       -> UserState(op.id, {op.channel}, {op.label})
    [] op.op = "MoveUser"      -> UserState(op.id, {op.channel}, {})
    [] op.op = "UpdateUser"    -> UserState(op.id, {}, {op.label})
    [] op.op = "RemoveUser"    -> UserRemove(op.id)

\* Slip: make room before adding.
emit_RemovalsFirst(ops, self) ==
  LET first == SelectSeq(ops, is_removal) \o SelectSeq(ops, LAMBDA op : ~is_removal(op))
  IN  [i \in DOMAIN first |-> emit_op(first[i])]

\* emit() sends one message per operation, the connection's own user first
\* within each run of consecutive user additions.
emit(ops, self) ==
  LET isAdd(i) == i \in DOMAIN ops /\ ops[i].op = "AddUser"
      start(i) == IF isAdd(i) THEN CHOOSE j \in 1..i : (\A k \in j..i : isAdd(k)) /\ ~isAdd(j - 1)
                  ELSE i
      mine(i) == isAdd(i) /\ ops[i].id = self
      earlier(i, j) == \/ start(i) < start(j)
                       \/ start(i) = start(j) /\ mine(i) /\ ~mine(j)
                       \/ start(i) = start(j) /\ mine(i) = mine(j) /\ i < j
      order == SortSeq([i \in DOMAIN ops |-> i], earlier)
  IN  [i \in DOMAIN ops |-> emit_op(ops[order[i]])]

\* The fast path: what push() sends for the replayed slice of the journal.
pushed(replayed, see, sent, overlay, self) ==
  emit(collapse(splice(filter(replayed, see), plan_elements(sent, overlay))), self)

\* The slow path: what replan() sends from one whole view to another.
replanned(from, to, self) == emit(collapse(Ops(plan(from, to))), self)

=============================================================================
