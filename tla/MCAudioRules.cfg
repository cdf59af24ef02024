SPECIFICATION Spec
CONSTANTS
  MaxDepth = 1
  MaxObserved = 1
  Conns = {c1, c2, c3}
  Domains = {1, 2}
  Places <- MCPlaces
  Observed <- MCObserved
  MaxCalls = 2
SYMMETRY Interchangeable
INVARIANTS TypeOK CompileIsResolve CheckedRoutesSeen SeenRoutesAccepted
CHECK_DEADLOCK FALSE
