SPECIFICATION FairSpec
CONSTANTS
  t1 = t1
  t2 = t2
  o1 = o1
  o2 = o2
  h1 = h1
  h2 = h2
  h3 = h3
  Threads <- MCThreads
  Objects <- MCObjects
  Handles <- MCHandles
  ChunkSlots = 1
  MaxChunks = 2
  CountMax = 5
INVARIANTS TypeOK CountsExact HandlesValid DroppedOnce PoolExact
PROPERTIES UpgradeExact ImplementsReference EventuallyRecycled
CHECK_DEADLOCK FALSE
