SPECIFICATION Spec
CONSTANTS
  MaxPeers = 2
  MaxDrawable = 8
  FocusHops = 1
  MaxClicks = 3
  MaxRows = 2
  Clusters <- MCClusters
INVARIANTS
  OversizeIsRefused
CHECK_DEADLOCK FALSE
