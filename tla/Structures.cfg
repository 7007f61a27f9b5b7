SPECIFICATION MCSpec
CONSTANTS
  PageSize = 4096
  BlockHeader = 24
  AlokArena = 8
  AllocatorHeader = 48
  StackMarker = 24
  MarkerAlign = 8
  ArenaCapacities = {100, 5000}
  ChunkSizes = {5, 1300, 4072, 8000}
  Mappable = {0, 4096, 12288}
  Aligns = {1, 16}
  ChainBound = 3
  MaxLive = 3
  Chars = {"a", "b"}
  Capacity = 3
  MaxAdd = 4
  Word = 65536
  EOF <- MCEOF
  FULL <- MCFULL
  Bytes = {1, 2}
  MaxFile = 7
  LookAhead = 4
  MaxLook = 3
  Keys = {1, 2, 3, 4, 5, 6}
  Values = {v, null}
  NullValue = null
  DummyValue = v
  None = None
  Hash <- SampleHash
  Sizes = {2, 4, 8}
  MinBuckets = 2
  MaxBuckets = 8
  Capacities = {0, 3, 9}
  Threads = {t1, t2, t3}
  Configs = {c1, c2}
  Addresses = {a1, a2}
  NULL = NULL
  FREE = FREE
  Careful = TRUE
INVARIANTS
  CursorIsTight
  LiveDisjoint
  SmallInBlock
  TypeOK
  GrowsInTime
  GetFindsEntry
  ParseReadsLiveString
  ContextOfOneInit
  NoStringLeaks
PROPERTIES
  ImplementsQueue
  IsCursor
  ImplementsDictionary
SYMMETRY MCSymmetry
CHECK_DEADLOCK FALSE
