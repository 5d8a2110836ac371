SPECIFICATION Spec
CONSTANTS
  t1 = t1
  t2 = t2
  u = u
  v = v
  w = w
  Threads <- MCThreads
  Values <- MCValues
  HashOf <- MCHashOf
  NShards = 1
  PurgeLenMin = 1
  Resets = FALSE
  MaxObjects = 3
  NoThread = NoThread
  NoValue = NoValue
  NoObject = NoObject
INVARIANTS TypeOK NeverPanics Findable MapBounded HashConsing
PROPERTIES ImplementsInterning
SYMMETRY MCSymmetry
CHECK_DEADLOCK FALSE
