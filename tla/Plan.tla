-------------------------------- MODULE Plan --------------------------------
(***************************************************************************)
(* The planner: what to send a client so that it goes from one view to     *)
(* another.  An element of the diff is keyed by identity and scope, so an  *)
(* element that changes scope leaves the old one and arrives in the new.   *)
(***************************************************************************)
EXTENDS ShardViews, SequencesExt

CreateChannel(id, c) ==
  [op |-> "CreateChannel", id |-> id, parent |-> c.parent, label |-> c.label, links |-> c.links]
UpdateChannel(id, patch) == [op |-> "UpdateChannel", id |-> id] @@ patch
RemoveChannel(id) == [op |-> "RemoveChannel", id |-> id]
AddUser(id, u) == [op |-> "AddUser", id |-> id, channel |-> u.channel, label |-> u.label]
MoveUser(id, channel) == [op |-> "MoveUser", id |-> id, channel |-> channel]
UpdateUser(id, label) == [op |-> "UpdateUser", id |-> id, label |-> label]
RemoveUser(id) == [op |-> "RemoveUser", id |-> id]

is_removal(op) == op.op \in {"RemoveUser", "RemoveChannel"}

\* The element an operation introduces or withdraws; << >> for none.
added(op) ==
  CASE op.op = "CreateChannel" -> <<"channel", op.id>>
    [] op.op = "AddUser"       -> <<"user", op.id>>
    [] OTHER                   -> << >>

removed(op) ==
  CASE op.op = "RemoveChannel" -> <<"channel", op.id>>
    [] op.op = "RemoveUser"    -> <<"user", op.id>>
    [] OTHER                   -> << >>

PlannedOp(op, scope) == [op |-> op, scope |-> scope]

-----------------------------------------------------------------------------
(* Maps are ordered by identifier in the code, and so are the passes.       *)

Ascending(S) ==
  [i \in 1..Cardinality(S) |-> CHOOSE x \in S : Cardinality({y \in S : y < x}) = i - 1]

Each(S, Op(_)) == LET s == Ascending(S) IN [i \in 1..Len(s) |-> Op(s[i])]

\* Depth of c below the root, as far as this map knows its ancestors.
depth_in(channels, c) == Cardinality((Lineage(channels, c) \cap DOMAIN channels) \ {RootId})

\* Parents before children: passes over the ids in order, placing a channel
\* once its parent is present; what no pass can place keeps its id order.
order_creations(created, channels, before) ==
  LET place(st, id) ==
        IF channels[id].parent = id \/ channels[id].parent \in st.present
        THEN [st EXCEPT !.present = @ \cup {id}, !.ordered = Append(@, id)]
        ELSE [st EXCEPT !.waiting = Append(@, id)]
      pass[n \in 0..Cardinality(created)] ==
        IF n = 0
        THEN [present |-> before, ordered |-> << >>, waiting |-> Ascending(created)]
        ELSE FoldLeft(place, [pass[n-1] EXCEPT !.waiting = << >>], pass[n-1].waiting)
      last == pass[Cardinality(created)]
  IN  last.ordered \o last.waiting

\* Children before parents in the previous tree, ties by id.
order_removals(gone, channels) ==
  SortSeq(Ascending(gone),
          LAMBDA a, b : \/ depth_in(channels, a) > depth_in(channels, b)
                        \/ depth_in(channels, a) = depth_in(channels, b) /\ a < b)

\* The fields of the patch that change, as sets of at most one value, and the
\* links that come and go.
channel_patch(old, new) ==
  [parent        |-> {new.parent} \ {old.parent},
   label         |-> {new.label} \ {old.label},
   links_added   |-> new.links \ old.links,
   links_removed |-> old.links \ new.links]

is_noop(patch) == \A field \in DOMAIN patch : patch[field] = {}

-----------------------------------------------------------------------------
\* The shared planner.  A removal carries the scope the element leaves.
plan(before, after) ==
  LET B == before.channels  A == after.channels
      U == before.users     V == after.users
      same == {id \in DOMAIN B \cap DOMAIN A : B[id].scope = A[id].scope}
      created == DOMAIN A \ same
      patched == {id \in same : ~is_noop(channel_patch(B[id], A[id]))}
      stays == {s \in DOMAIN U \cap DOMAIN V : U[s].scope = V[s].scope}
      moved == {s \in stays : U[s].channel # V[s].channel}
      relabelled == {s \in stays : U[s].label # V[s].label}
      gone(s) == PlannedOp(RemoveUser(s), U[s].scope)
      order == order_creations(created, A, DOMAIN B)
      dying == order_removals(DOMAIN B \ same, B)
  IN  [i \in DOMAIN order |-> PlannedOp(CreateChannel(order[i], A[order[i]]), A[order[i]].scope)]
      \o Each(patched, LAMBDA id : PlannedOp(UpdateChannel(id, channel_patch(B[id], A[id])), A[id].scope))
      \o Each(DOMAIN V \ stays, LAMBDA s : PlannedOp(AddUser(s, V[s]), V[s].scope))
      \o Each(moved, LAMBDA s : PlannedOp(MoveUser(s, V[s].channel), V[s].scope))
      \o Each(relabelled, LAMBDA s : PlannedOp(UpdateUser(s, V[s].label), V[s].scope))
      \o Each((DOMAIN U \cap DOMAIN V) \ stays, gone) \o Each(DOMAIN U \ DOMAIN V, gone)
      \o [i \in DOMAIN dying |-> PlannedOp(RemoveChannel(dying[i]), B[dying[i]].scope)]

\* The overlay planner, split where splice inserts it.  Scopes play no part,
\* and the creations are ordered as if nothing else were present.
plan_elements(before, after) ==
  LET B == before.channels  A == after.channels
      U == before.users     V == after.users
      patched == {id \in DOMAIN B \cap DOMAIN A : ~is_noop(channel_patch(B[id], A[id]))}
      order == order_creations(DOMAIN A \ DOMAIN B, A, {})
      dying == order_removals(DOMAIN B \ DOMAIN A, B)
      user(s) == IF s \notin DOMAIN U THEN <<AddUser(s, V[s])>>
                 ELSE (IF U[s].channel # V[s].channel THEN <<MoveUser(s, V[s].channel)>> ELSE << >>)
                      \o (IF U[s].label # V[s].label THEN <<UpdateUser(s, V[s].label)>> ELSE << >>)
  IN  [additions |-> [i \in DOMAIN order |-> CreateChannel(order[i], A[order[i]])]
                     \o Each(patched, LAMBDA id : UpdateChannel(id, channel_patch(B[id], A[id])))
                     \o FlattenSeq(Each(DOMAIN V, user)),
       removals  |-> Each(DOMAIN U \ DOMAIN V, RemoveUser)
                     \o [i \in DOMAIN dying |-> RemoveChannel(dying[i])]]

Ops(planned) == [i \in DOMAIN planned |-> planned[i].op]

=============================================================================
