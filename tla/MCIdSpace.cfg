SPECIFICATION Spec
CONSTANTS
  MaxId = 4
  Shards = {s1, s2}
  Keys = {k1, k2}
  Occupants = {o1, o2}
INVARIANTS TypeOK Distinct IssuedInOrder
PROPERTIES NeverReissued Stable
