------------------------------- MODULE Scopes -------------------------------
(***************************************************************************)
(* The visibility relation of the shared view.  A scope is a path; an      *)
(* element occupies one, a connection observes a small set of them, and it *)
(* sees the elements whose scope is comparable to an observed one.         *)
(***************************************************************************)
EXTENDS Integers, Sequences, FiniteSets

CONSTANTS MaxDepth,     \* segments a scope may have
          MaxObserved   \* scopes a connection may observe

ASSUME ScopeBounds == MaxDepth \in Nat /\ MaxObserved \in Nat

Root == << >>

\* What Scope::child can build from the root, one segment at a time: past the
\* depth bound the render is refused, never widened.
Scope(Segments) == UNION {[1..n -> Segments] : n \in 0..MaxDepth}

IsPrefixOf(s, t) == Len(s) <= Len(t) /\ \A i \in 1..Len(s) : s[i] = t[i]

Comparable(s, t) == IsPrefixOf(s, t) \/ IsPrefixOf(t, s)

\* ScopeSet is canonical in the code so that its equality is set equality.
ScopeSet(Scopes) == {see \in SUBSET Scopes : Cardinality(see) <= MaxObserved}

Sees(see, scope) == \E observed \in see : Comparable(scope, observed)

=============================================================================
