SPECIFICATION Spec
CONSTANTS
  MaxDepth = 1
  MaxObserved = 1
  Views <- MCViews
  Overlays <- MCOverlays
  Observed <- MCObserved
  Segments = {1, 2}
  Self = 1
INVARIANTS TypeOK TreeOracle HeldClosed
PROPERTY SoundTurns
