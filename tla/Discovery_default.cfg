SPECIFICATION DiscoverySpec
CONSTANTS
  Widths = {2}
  Empty = 0
  MaxRows <- SmallMaxRows
  Records <- SmallRows
  Errors = {1, 2}
  Radii = {2}
INVARIANT DefaultAgreeSetsSuffice
CHECK_DEADLOCK FALSE
