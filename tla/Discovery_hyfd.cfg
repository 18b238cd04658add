SPECIFICATION DiscoverySpec
CONSTANTS
  Widths = {4}
  Empty = 0
  MaxRows <- HyfdMaxRows
  Records <- HyfdRows
  Errors = {1, 2}
  Radii = {2}
INVARIANT HyfdFindsMinimal
CHECK_DEADLOCK FALSE
