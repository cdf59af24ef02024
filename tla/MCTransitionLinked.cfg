SPECIFICATION Spec
CONSTANTS
  MaxDepth = 1
  MaxObserved = 1
  Views <- MCLinkedViews
  Overlays <- MCLinkedOverlays
  Observed <- MCObserved
  Segments = {1, 2}
  Self = 1
PROPERTY LinksFollow
