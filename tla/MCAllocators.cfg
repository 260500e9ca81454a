CONSTANTS
  ArenaBase = 480
  ArenaBytes = 100
  ArenaRequests = {0, 1, 13, 16, 20, 33, 420}
  SizeMod = 1024
  PoolSlots = 5
  PoolData = {1, 99}
  MaxSlabs = 3
  objs_per_slab = 2
  Foreign = {x}
  Chunks = {c1, c2, c3}
  Data = {d}
  NULL = NULL
  MAX_ORDER = 3
  PageRequests = {0, 1, 2, 3, 8, 9}
SPECIFICATION Spec
INVARIANTS ListsAreSound SlabIsSound BuddyIsSound NullOnlyIfNoRoom
PROPERTIES BumpImplementsBlocks ImplementsSequence BuddyImplementsBlocks
