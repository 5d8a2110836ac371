SPECIFICATION FairSpec
CONSTANTS
  t1 = t1
  t2 = t2
  n1 = n1
  n2 = n2
  n3 = n3
  a = a
  f = f
  leaf = leaf
  inner = inner
  flag = flag
  c1 = c1
  Threads <- MCThread
  Nodes <- MCNodes
  Labels <- MCLabels
  Arity <- MCArity
  TypeOf <- MCTypeOf
  FlagsOf <- MCFlagsOf
  Flags <- MCFlags
  TypeOrder <- MCTypeOrder
  NShards = 2
  Shard <- MCShard
  Calls <- MCCalls
  MaxId = 3
  CountMax = 4
  HeightMax = 2
  NoData = NoData
INVARIANTS FreshStart
PROPERTIES GarbageFreed
CHECK_DEADLOCK FALSE
