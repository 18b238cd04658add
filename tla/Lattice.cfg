SPECIFICATION MCSpec
CONSTANTS
  Widths = {1, 2, 3, 4}
  Empty = 0
  MaxRows <- SmallMaxRows
  Offered <- StorageRows
  Records <- SmallRows
  Errors = {1, 2}
  Radii = {2}
  NaryIntersectionSize = 4
  Tossing = TRUE
  MaxCached = 6
  Columns = {1, 2, 3, 4}
  SpaceColumns = {1, 2, 3}
  Dimension = 3
INVARIANTS
  PliIsPartition
  LevelwiseIsMinimal
  FdMineIsCover
  AgreeSetsComplete
  DifferencesAreMinimal
  NegativeCoverIsInverted
  HyfdIsComplete
  TyposAreMended
  PartitionsExact
  NoIndexReplaced
  ErrorsExact
  CategoriesSound
  FindsMinimal
  FoundOnceEach
  TrieIsMap
PROPERTY WalksEnd
CHECK_DEADLOCK FALSE
