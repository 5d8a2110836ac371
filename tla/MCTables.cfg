SPECIFICATION Spec
CONSTANTS
  t1 = t1
  t2 = t2
  u = u
  w = w
  x = x
  Threads <- MCThreads
  Values <- MCValues
  HashOf <- MCHashOf
  Resets = TRUE
  MaxObjects = 3
  NoThread = NoThread
  NoValue = NoValue
  NoObject = NoObject
INVARIANTS Retained HashSorted
PROPERTIES ImplementsInterning
CONSTRAINT MCBound
SYMMETRY MCSymmetry
CHECK_DEADLOCK FALSE
