SPECIFICATION FairSpec
CONSTANTS
  t1 = t1
  t2 = t2
  u = u
  v = v
  w = w
  Threads <- MCThreads
  Values <- MCValues
  HashOf <- MCHashOfShards
  NShards = 2
  PurgeLenMin = 1
  Resets = TRUE
  MaxObjects = 2
  NoThread = NoThread
  NoValue = NoValue
  NoObject = NoObject
PROPERTIES ImplementsInterning CriticalSectionsEnd
CHECK_DEADLOCK FALSE
