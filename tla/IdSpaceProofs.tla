--------------------------- MODULE IdSpaceProofs ---------------------------
(***************************************************************************)
(* For every number of shards, keys, occupants and identifiers: numbers    *)
(* are unique, handed out in order, and never handed out twice.            *)
(***************************************************************************)
EXTENDS IdSpace, TLAPS

\* What is in a map was handed out: it lies below the next number.
Below(sp) == \A o \in DOMAIN sp.map : sp.next # Spent => sp.map[o] < sp.next

OneToOne(sp) == \A a, b \in DOMAIN sp.map : sp.map[a] = sp.map[b] => a = b

\* The inductive invariant.  Distinct alone is not inductive: that the next
\* number is nobody's follows from Below.
IInv ==
  /\ TypeOK
  /\ Below(ids) /\ OneToOne(ids)
  /\ Below(sessions) /\ OneToOne(sessions)
  /\ IssuedInOrder
  /\ \A o \in DOMAIN ids.map : ids.map[o] \in issued

-----------------------------------------------------------------------------
\* A space is a record of a partial map into the identifiers and a number.
LEMMA SpaceIs ==
  ASSUME NEW Owners, NEW D \in SUBSET Owners, NEW m \in [D -> 1..MaxId], NEW n \in 0..MaxId
  PROVE  [map |-> m, next |-> n] \in Space(Owners)
BY DEF Space

LEMMA SpaceHas ==
  ASSUME NEW Owners, NEW sp \in Space(Owners)
  PROVE  /\ sp = [map |-> sp.map, next |-> sp.next]
         /\ DOMAIN sp.map \subseteq Owners
         /\ sp.map \in [DOMAIN sp.map -> 1..MaxId]
         /\ sp.next \in 0..MaxId
BY DEF Space

\* Asking for an identifier keeps the space in order; what was mapped stays
\* mapped to the same number, and what is new gets the next number.
LEMMA AllocateInOrder ==
  ASSUME NEW Owners, NEW sp \in Space(Owners), NEW o \in Owners, Below(sp), OneToOne(sp)
  PROVE  LET new == Allocate(sp, o) IN
         /\ new \in Space(Owners) /\ Below(new) /\ OneToOne(new)
         /\ DOMAIN sp.map \subseteq DOMAIN new.map
         /\ \A x \in DOMAIN sp.map : new.map[x] = sp.map[x]
<1> DEFINE new == Allocate(sp, o)
           m == [k \in DOMAIN sp.map \cup {o} |-> IF k = o THEN sp.next ELSE sp.map[k]]
           n == IF sp.next = MaxId THEN Spent ELSE sp.next + 1
<1>0. /\ MaxId \in Nat \ {0}
      /\ DOMAIN sp.map \subseteq Owners /\ sp.map \in [DOMAIN sp.map -> 1..MaxId] /\ sp.next \in 0..MaxId
  BY MaxIdIsId, SpaceHas
<1>1. CASE o \in DOMAIN sp.map \/ sp.next = Spent
  BY <1>1 DEF Allocate, Numbered
<1>2. CASE ~(o \in DOMAIN sp.map \/ sp.next = Spent)
  <2>1. new = [map |-> m, next |-> n]
    BY <1>2 DEF Allocate, Numbered
  <2>2. sp.next \in 1..MaxId /\ n \in 0..MaxId
    BY <1>0, <1>2 DEF Spent
  <2>3. m \in [DOMAIN sp.map \cup {o} -> 1..MaxId]
    BY <1>0, <2>2
  <2>4. new \in Space(Owners)
    BY <1>0, <2>1, <2>2, <2>3, SpaceIs
  <2>5. new.map = m /\ new.next = n /\ DOMAIN m = DOMAIN sp.map \cup {o}
    BY <2>1
  <2>6. \A x \in DOMAIN sp.map : m[x] = sp.map[x] /\ m[x] < sp.next
    BY <1>2 DEF Below
  <2>7. m[o] = sp.next
    OBVIOUS
  <2>8. Below(new)
    <3> SUFFICES ASSUME NEW x \in DOMAIN m, n # Spent
                 PROVE  m[x] < n
      BY <2>5 DEF Below
    <3>1. n = sp.next + 1
      OBVIOUS
    <3>2. m[x] \in 1..MaxId /\ m[x] <= sp.next
      BY <1>0, <2>2, <2>3, <2>6, <2>7
    <3> HIDE DEF m, n
    <3> QED BY <3>1, <3>2, <2>2
  <2>9. OneToOne(new)
    <3> SUFFICES ASSUME NEW a \in DOMAIN m, NEW b \in DOMAIN m, m[a] = m[b]
                 PROVE  a = b
      BY <2>5 DEF OneToOne
    <3>1. ASSUME NEW x \in DOMAIN sp.map PROVE m[x] # sp.next
      <4>1. m[x] = sp.map[x] /\ m[x] < sp.next
        BY <2>6
      <4>2. sp.map[x] \in Nat /\ sp.next \in Nat
        BY <1>0
      <4> HIDE DEF m
      <4> QED BY <4>1, <4>2
    <3>2. a \in DOMAIN sp.map \/ a = o
      OBVIOUS
    <3>3. b \in DOMAIN sp.map \/ b = o
      OBVIOUS
    <3>4. a \in DOMAIN sp.map /\ b \in DOMAIN sp.map => a = b
      BY <2>6 DEF OneToOne
    <3> HIDE DEF m
    <3> QED BY <3>1, <3>2, <3>3, <3>4, <2>7
  <2> QED BY <2>4, <2>5, <2>6, <2>8, <2>9
<1> QED BY <1>1, <1>2

\* Forgetting owners keeps the space in order and leaves the rest alone.
LEMMA ForgetInOrder ==
  ASSUME NEW Owners, NEW sp \in Space(Owners), NEW S, Below(sp), OneToOne(sp)
  PROVE  LET new == Forget(sp, S) IN
         /\ new \in Space(Owners) /\ Below(new) /\ OneToOne(new)
         /\ new.next = sp.next /\ DOMAIN new.map \subseteq DOMAIN sp.map
         /\ \A x \in DOMAIN new.map : new.map[x] = sp.map[x]
<1> DEFINE m == [k \in DOMAIN sp.map \ S |-> sp.map[k]]
<1>1. /\ sp = [map |-> sp.map, next |-> sp.next]
      /\ DOMAIN sp.map \subseteq Owners /\ sp.map \in [DOMAIN sp.map -> 1..MaxId] /\ sp.next \in 0..MaxId
  BY SpaceHas
<1>2. Forget(sp, S) = [map |-> m, next |-> sp.next]
  BY <1>1 DEF Forget
<1>3. m \in [DOMAIN sp.map \ S -> 1..MaxId]
  BY <1>1
<1>4. [map |-> m, next |-> sp.next] \in Space(Owners)
  BY <1>1, <1>3, SpaceIs
<1> QED BY <1>1, <1>2, <1>3, <1>4 DEF Below, OneToOne

-----------------------------------------------------------------------------
LEMMA InitIInv == Init => IInv
<1> SUFFICES ASSUME Init PROVE IInv
  OBVIOUS
<1> DEFINE none == [k \in {} |-> 0]
<1>1. MaxId \in Nat \ {0}
  BY MaxIdIsId
<1>2. none \in [{} -> 1..MaxId] /\ DOMAIN none = {}
  OBVIOUS
<1>3. ids = [map |-> none, next |-> 1] /\ sessions = ids /\ issued = {}
  BY DEF Init, NewIds
<1> HIDE DEF none
<1>4. ASSUME NEW Owners PROVE [map |-> none, next |-> 1] \in Space(Owners)
  <2>1. {} \in SUBSET Owners /\ 1 \in 0..MaxId
    BY <1>1
  <2> QED BY <1>2, <2>1, SpaceIs
<1>5. ids.map = none /\ sessions.map = none /\ ids.next = 1
  BY <1>3
<1> QED BY <1>1, <1>2, <1>3, <1>4, <1>5 DEF IInv, TypeOK, Below, OneToOne, IssuedInOrder, Spent

\* One step from a state in order: the next state is in order, nothing mapped
\* changes, and a channel that is new has a number that was not issued.
LEMMA StepIInv == IInv /\ [Next]_vars => IInv' /\ NewNumbers /\ SameNumbers
<1> SUFFICES ASSUME IInv, [Next]_vars PROVE IInv' /\ NewNumbers /\ SameNumbers
  OBVIOUS
<1>0. /\ MaxId \in Nat \ {0}
      /\ ids \in Space(Shards \X Keys) /\ sessions \in Space(Occupants)
      /\ Below(ids) /\ OneToOne(ids) /\ Below(sessions) /\ OneToOne(sessions)
      /\ \A o \in DOMAIN ids.map : ids.map[o] \in issued
      /\ issued \subseteq 1..MaxId /\ IssuedInOrder
  BY MaxIdIsId DEF IInv, TypeOK
<1>1. CASE UNCHANGED vars
  BY <1>1 DEF IInv, TypeOK, vars, Below, OneToOne, IssuedInOrder, NewNumbers, SameNumbers
<1>2. ASSUME NEW s \in Shards, NEW k \in Keys, AskChannel(s, k)
      PROVE  IInv' /\ NewNumbers /\ SameNumbers
  <2> DEFINE o == <<s, k>>
  <2>1. /\ ids' = Allocate(ids, o) /\ UNCHANGED sessions
        /\ issued' = issued \cup {ids'.map[x] : x \in DOMAIN ids'.map}
    BY <1>2 DEF AskChannel, channel
  <2>2. o \in Shards \X Keys
    OBVIOUS
  <2> HIDE DEF o
  <2>3. /\ ids' \in Space(Shards \X Keys) /\ Below(ids') /\ OneToOne(ids')
        /\ DOMAIN ids.map \subseteq DOMAIN ids'.map
        /\ \A x \in DOMAIN ids.map : ids'.map[x] = ids.map[x]
    BY <1>0, <2>1, <2>2, AllocateInOrder
  <2>4. /\ sessions' \in Space(Occupants) /\ Below(sessions') /\ OneToOne(sessions')
        /\ SameNumbers
    BY <1>0, <2>1, <2>3 DEF SameNumbers, Below, OneToOne
  <2>5. ids.next \in 0..MaxId
    BY <1>0, SpaceHas
  <2>6. IssuedInOrder' /\ NewNumbers /\ issued' \subseteq 1..MaxId
    <3>1. CASE o \in DOMAIN ids.map \/ ids.next = Spent
      <4>1. ids' = ids
        BY <2>1, <3>1 DEF Allocate, Numbered
      <4>2. issued' = issued
        BY <1>0, <2>1, <4>1
      <4> QED BY <1>0, <4>1, <4>2 DEF IssuedInOrder, NewNumbers
    <3>2. CASE o \notin DOMAIN ids.map /\ ids.next # Spent
      <4>1. /\ DOMAIN ids'.map = DOMAIN ids.map \cup {o}
            /\ ids'.map[o] = ids.next
            /\ ids'.next = IF ids.next = MaxId THEN Spent ELSE ids.next + 1
        BY <2>1, <3>2 DEF Allocate, Numbered
      <4>2. issued' = issued \cup {ids.next}
        BY <1>0, <2>1, <2>3, <4>1
      <4>3. issued = 1..(ids.next - 1)
        BY <1>0, <3>2 DEF IssuedInOrder
      <4>4. ids.next \in 1..MaxId
        BY <2>5, <3>2 DEF Spent
      <4>5. issued' = 1..ids.next
        BY <4>2, <4>3, <4>4, <1>0
      <4>6. IssuedInOrder'
        BY <4>1, <4>4, <4>5, <1>0 DEF IssuedInOrder, Spent
      <4>7. ids.next \notin issued
        BY <4>3, <4>4, <1>0
      <4> QED BY <4>1, <4>4, <4>5, <4>6, <4>7, <1>0 DEF NewNumbers
    <3> QED BY <3>1, <3>2
  <2>7. \A x \in DOMAIN ids'.map : ids'.map[x] \in issued'
    BY <2>1
  <2> QED BY <2>3, <2>4, <2>6, <2>7 DEF IInv, TypeOK
<1>3. ASSUME NEW o \in Occupants, AskSession(o)
      PROVE  IInv' /\ NewNumbers /\ SameNumbers
  <2>1. sessions' = Allocate(sessions, o) /\ UNCHANGED <<ids, issued>>
    BY <1>3 DEF AskSession, session
  <2> HIDE DEF Allocate
  <2>2. /\ sessions' \in Space(Occupants) /\ Below(sessions') /\ OneToOne(sessions')
        /\ \A x \in DOMAIN sessions.map : x \in DOMAIN sessions'.map /\ sessions'.map[x] = sessions.map[x]
    BY <1>0, <2>1, AllocateInOrder
  <2> QED BY <1>0, <2>1, <2>2 DEF IInv, TypeOK, Below, OneToOne, IssuedInOrder, NewNumbers, SameNumbers
<1>4. ASSUME NEW S, ids' = Forget(ids, S), UNCHANGED <<sessions, issued>>
      PROVE  IInv' /\ NewNumbers /\ SameNumbers
  <2>1. /\ ids' \in Space(Shards \X Keys) /\ Below(ids') /\ OneToOne(ids')
        /\ ids'.next = ids.next /\ DOMAIN ids'.map \subseteq DOMAIN ids.map
        /\ \A x \in DOMAIN ids'.map : ids'.map[x] = ids.map[x]
    BY <1>0, <1>4, ForgetInOrder
  <2> QED BY <1>0, <1>4, <2>1 DEF IInv, TypeOK, Below, OneToOne, IssuedInOrder, NewNumbers, SameNumbers
<1>5. ASSUME NEW s \in Shards, NEW keys \in SUBSET Keys, Retain(s, keys)
      PROVE  IInv' /\ NewNumbers /\ SameNumbers
  BY <1>4, <1>5 DEF Retain, retain_channels
<1>6. ASSUME NEW s \in Shards, NEW retired \in SUBSET issued, Retire(s, retired)
      PROVE  IInv' /\ NewNumbers /\ SameNumbers
  BY <1>4, <1>6 DEF Retire, retire_channel_ids
<1> QED BY <1>1, <1>2, <1>3, <1>5, <1>6 DEF Next

-----------------------------------------------------------------------------
\* The invariant holds in every reachable state.
THEOREM InvariantHolds == Spec => []IInv
BY InitIInv, StepIInv, PTL DEF Spec

\* The allocator's maps and counters keep their types (IdAllocator).
THEOREM TypeCorrect == Spec => []TypeOK
<1>1. IInv => TypeOK
  BY DEF IInv
<1> QED BY <1>1, InvariantHolds, PTL

\* IdAllocator::channel and ::session never give one number to two owners.
THEOREM NumbersDistinct == Spec => []Distinct
<1>1. IInv => Distinct
  BY DEF IInv, OneToOne, Distinct
<1> QED BY <1>1, InvariantHolds, PTL

\* Allocation refuses only when every number, the last included, is handed out.
THEOREM NumbersInOrder == Spec => []IssuedInOrder
<1>1. IInv => IssuedInOrder
  BY DEF IInv
<1> QED BY <1>1, InvariantHolds, PTL

\* A mapping that retain_channels or retire_channel_ids removed never brings
\* its number back: a key that returns gets one nobody has had.
THEOREM NumbersNeverReissued == Spec => NeverReissued
BY InvariantHolds, StepIInv, PTL DEF Spec, NeverReissued

\* No step changes the number of a channel that stays or of any occupant.
THEOREM NumbersStable == Spec => Stable
BY InvariantHolds, StepIInv, PTL DEF Spec, Stable

=============================================================================
