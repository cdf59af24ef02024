-------------------------- MODULE TransitionProofs --------------------------
(***************************************************************************)
(* Visibility is closed: for every set of renders the builder can produce, *)
(* every overlay its closing checks accept and every observation, what a   *)
(* connection is shown is a tree without dangling references.              *)
(***************************************************************************)
EXTENDS Transition, SequenceTheorems, TLAPS

LEMMA ScopeIsSeq ==
  ASSUME NEW S, NEW s \in Scope(S)
  PROVE  s \in Seq(S) /\ Len(s) \in Nat
<1>1. PICK n \in 0..MaxDepth : s \in [1..n -> S]
  BY DEF Scope
<1>2. n \in Nat
  BY ScopeBounds
<1>3. s \in Seq(S)
  BY <1>1, <1>2, SeqDef
<1> QED BY <1>3, LenProperties

\* Whoever sees a scope sees every scope above it: comparability with an
\* observed scope is closed under taking prefixes (scope.rs).
LEMMA PrefixSeen ==
  ASSUME NEW S, NEW obs \in SUBSET Scope(S), NEW p \in Scope(S), NEW c \in Scope(S),
         IsPrefixOf(p, c), Sees(obs, c)
  PROVE  Sees(obs, p)
<1>1. PICK o \in obs : Comparable(c, o)
  BY DEF Sees
<1>2. Len(p) \in Nat /\ Len(c) \in Nat /\ Len(o) \in Nat
  BY ScopeIsSeq
<1>3. Len(p) <= Len(c) /\ \A i \in 1..Len(p) : p[i] = c[i]
  BY DEF IsPrefixOf
<1>4. CASE IsPrefixOf(c, o)
  BY <1>2, <1>3, <1>4 DEF IsPrefixOf, Comparable, Sees
<1>5. CASE IsPrefixOf(o, c)
  <2>1. Len(o) <= Len(c) /\ \A i \in 1..Len(o) : o[i] = c[i]
    BY <1>5 DEF IsPrefixOf
  <2>2. Comparable(p, o)
    BY <1>2, <1>3, <2>1 DEF IsPrefixOf, Comparable
  <2> QED BY <2>2 DEF Sees
<1> QED BY <1>1, <1>4, <1>5 DEF Comparable

-----------------------------------------------------------------------------
LEMMA RestrictIs ==
  ASSUME NEW v, NEW obs
  PROVE  LET r == restrict(v, obs) IN
         /\ DOMAIN r.channels = {c \in DOMAIN v.channels : Sees(obs, v.channels[c].scope)}
         /\ \A c \in DOMAIN r.channels : r.channels[c] = v.channels[c]
         /\ DOMAIN r.users = {u \in DOMAIN v.users : Sees(obs, v.users[u].scope)}
         /\ \A u \in DOMAIN r.users : r.users[u] = v.users[u]
BY DEF restrict, RestrictValues, Restrict

LEMMA ComposeIs ==
  ASSUME NEW r, NEW o
  PROVE  LET h == compose(r, o) IN
         /\ DOMAIN h.channels = DOMAIN o.channels \cup DOMAIN r.channels
         /\ \A c \in DOMAIN h.channels :
               h.channels[c] = IF c \in DOMAIN o.channels THEN o.channels[c] ELSE r.channels[c]
         /\ DOMAIN h.users = DOMAIN o.users \cup DOMAIN r.users
         /\ \A u \in DOMAIN h.users :
               h.users[u] = IF u \in DOMAIN o.users THEN o.users[u] ELSE r.users[u]
BY DEF compose, Override

\* A restriction of a well-formed view (ShardView::restrict) is closed.
LEMMA RestrictClosed ==
  ASSUME NEW v, NEW obs \in SUBSET Scope(Segments), WellFormed(v), Scoped(v, Segments)
  PROVE  Closed(restrict(v, obs))
<1> DEFINE r == restrict(v, obs)
<1>1. ASSUME NEW c \in DOMAIN r.channels PROVE r.channels[c].parent \in DOMAIN r.channels
  <2> DEFINE p == v.channels[c].parent
  <2>1. c \in DOMAIN v.channels /\ Sees(obs, v.channels[c].scope) /\ r.channels[c] = v.channels[c]
    BY RestrictIs
  <2>2. p \in DOMAIN v.channels /\ IsPrefixOf(v.channels[p].scope, v.channels[c].scope)
    BY <2>1 DEF WellFormed
  <2>3. v.channels[p].scope \in Scope(Segments) /\ v.channels[c].scope \in Scope(Segments)
    BY <2>1, <2>2 DEF Scoped
  <2>4. Sees(obs, v.channels[p].scope)
    BY <2>1, <2>2, <2>3, PrefixSeen
  <2> HIDE DEF p
  <2>5. p \in DOMAIN r.channels
    BY <2>2, <2>4, RestrictIs
  <2>6. r.channels[c].parent = p
    BY <2>1 DEF p
  <2> HIDE DEF r
  <2> QED BY <2>5, <2>6
<1>2. ASSUME NEW u \in DOMAIN r.users PROVE r.users[u].channel \in DOMAIN r.channels
  <2> DEFINE c == v.users[u].channel
  <2>1. u \in DOMAIN v.users /\ Sees(obs, v.users[u].scope) /\ r.users[u] = v.users[u]
    BY RestrictIs
  <2>2. c \in DOMAIN v.channels /\ IsPrefixOf(v.channels[c].scope, v.users[u].scope)
    BY <2>1 DEF WellFormed
  <2>3. v.channels[c].scope \in Scope(Segments) /\ v.users[u].scope \in Scope(Segments)
    BY <2>1, <2>2 DEF Scoped
  <2>4. Sees(obs, v.channels[c].scope)
    BY <2>1, <2>2, <2>3, PrefixSeen
  <2> HIDE DEF c
  <2>5. c \in DOMAIN r.channels
    BY <2>2, <2>4, RestrictIs
  <2>6. r.users[u].channel = c
    BY <2>1 DEF c
  <2> HIDE DEF r
  <2> QED BY <2>5, <2>6
<1> HIDE DEF r
<1>3. Closed(r)
  BY <1>1, <1>2 DEF Closed
<1> QED BY <1>3 DEF r

\* Composing an overlay that check_overlay_references accepts keeps it closed.
LEMMA ComposeClosed ==
  ASSUME NEW v, NEW obs, NEW o, Closed(restrict(v, obs)),
         check_overlay_references(v, Alone(o), Alone(obs))
  PROVE  Closed(compose(restrict(v, obs), o))
<1> DEFINE r == restrict(v, obs)
           h == compose(r, o)
           there(to) == to \in DOMAIN o.channels \/ to \in DOMAIN r.channels
<1>1. /\ \A u \in DOMAIN o.users : there(o.users[u].channel)
      /\ \A c \in DOMAIN o.channels : there(o.channels[c].parent)
  BY RestrictIs DEF check_overlay_references, Alone
<1> HIDE DEF r
<1>2. \A c \in DOMAIN h.channels : h.channels[c].parent \in DOMAIN h.channels
  BY <1>1, ComposeIs DEF Closed, r
<1>3. \A u \in DOMAIN h.users : h.users[u].channel \in DOMAIN h.channels
  BY <1>1, ComposeIs DEF Closed, r
<1> QED BY <1>2, <1>3 DEF Closed, r

-----------------------------------------------------------------------------
\* The inductive invariant: the committed view came from the builder, and the
\* committed overlay was checked against it under the committed observation.
IInv ==
  /\ view = EmptyView \/ (WellFormed(view) /\ Scoped(view, Segments))
  /\ see \in SUBSET Scope(Segments)
  /\ check_overlay_references(view, Alone(overlay), Alone(see))

LEMMA IInvCloses == IInv => HeldClosed
<1> SUFFICES ASSUME IInv PROVE HeldClosed
  OBVIOUS
<1>1. CASE view = EmptyView
  <2>1. Closed(restrict(view, see))
    BY <1>1, RestrictIs DEF Closed, EmptyView, EmptyMap
  <2> QED BY <2>1, ComposeClosed DEF IInv, HeldClosed, Held
<1>2. CASE WellFormed(view) /\ Scoped(view, Segments)
  BY <1>2, RestrictClosed, ComposeClosed DEF IInv, HeldClosed, Held
<1> QED BY <1>1, <1>2 DEF IInv

LEMMA InitIInv == Init => IInv
BY DEF Init, IInv, check_overlay_references, Alone, EmptyView, EmptyMap

LEMMA StepIInv == IInv /\ [Next]_vars => IInv'
<1> SUFFICES ASSUME IInv, [Next]_vars PROVE IInv'
  OBVIOUS
<1>1. CASE UNCHANGED vars
  BY <1>1 DEF IInv, vars
<1>2. ASSUME NEW v \in Views, NEW o \in Overlays, Push(v, o)
      PROVE  IInv'
  BY <1>2, Inputs DEF Push, Legal, IInv
<1>3. ASSUME NEW v \in Views, NEW o \in Overlays, NEW obs \in Observed, Replan(v, o, obs)
      PROVE  IInv'
  <2>1. obs \in SUBSET Scope(Segments)
    BY Inputs DEF ScopeSet
  <2> QED BY <1>3, <2>1, Inputs DEF Replan, Legal, IInv
<1> QED BY <1>1, <1>2, <1>3 DEF Next

\* After every turn the view push() or replan() commits a connection to has no
\* dangling channel or parent, for every render finish() accepts.
THEOREM HeldViewsClosed == Spec => []HeldClosed
BY InitIInv, StepIInv, IInvCloses, PTL DEF Spec

=============================================================================
