SPECIFICATION ArenaSpec
CONSTANTS
  PageSize = 4096
  BlockHeader = 24
  AlokArena = 8
  AllocatorHeader = 48
  StackMarker = 24
  MarkerAlign = 8
  ArenaCapacities = {100, 5000}
  ChunkSizes = {5, 1300, 4072, 8000}
  Aligns = {1, 16}
  ChainBound = 3
  Mappable = {0, 4096, 12288}
  MaxLive = 3
CHECK_DEADLOCK FALSE
INVARIANT
  AllocatesInArena
