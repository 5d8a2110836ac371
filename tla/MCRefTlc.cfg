SPECIFICATION FairSpec
CONSTANTS
  t1 = t1
  t2 = t2
  o1 = o1
  o2 = o2
  h1 = h1
  h2 = h2
  h3 = h3
  NoHandle = NoHandle
  Threads <- MCThreads
  Objects <- MCObjects
  Handles <- MCHandles
  FLUSH_OPS = 3
  FLUSH_ENTRIES = 2
INVARIANTS CountsExact HandlesValid BufferBounded
PROPERTIES ImplementsReference FreedAtExit
CHECK_DEADLOCK FALSE
