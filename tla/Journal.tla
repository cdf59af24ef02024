------------------------------- MODULE Journal -------------------------------
(***************************************************************************)
(* The deltas of versions tail+1 .. head, kept for connections that have   *)
(* not replayed them yet.                                                  *)
(***************************************************************************)
EXTENDS Naturals, Sequences, SequencesExt

CONSTANT Depth      \* versions of history kept, DEPTH in the code

ASSUME DepthIsPositive == Depth \in Nat \ {0}

IsJournal(j) == j \in [tail : Nat, head : Nat, entries : Seq(Range(j.entries))]

NewJournal == [tail |-> 0, head |-> 0, entries |-> << >>]

\* Slip: the front is evicted and the tail forgotten.
Record_TailStays(journal, ops) ==
  LET entries == Append(journal.entries, ops)
  IN  [tail    |-> journal.tail,
       head    |-> journal.head + 1,
       entries |-> IF Len(journal.entries) = Depth THEN Tail(entries) ELSE entries]

\* Journal::push: the front is evicted past the depth, and moves the tail.
Record(journal, ops) ==
  LET full == Len(journal.entries) = Depth
      entries == Append(journal.entries, ops)
  IN  [tail    |-> IF full THEN journal.tail + 1 ELSE journal.tail,
       head    |-> journal.head + 1,
       entries |-> IF full THEN Tail(entries) ELSE entries]

TooFarBehind(journal, from) == from < journal.tail

\* The operations of versions from+1 .. head, in order.
replay(journal, from) ==
  FlattenSeq(SubSeq(journal.entries, from - journal.tail + 1, journal.head - journal.tail))

=============================================================================
