SPECIFICATION Spec
CONSTANTS
  t1 = t1
  t2 = t2
  Threads = {t1, t2}
  Memoized = {t1}
  Nodes = {1, 2, 3, 4, 5, 6, 7, 8}
  Labels <- MCLabels
  TypeOf <- MCTypeOf
  Shape <- MCShape
  Relabel <- MCRelabel
  Transparent = "Pos"
  MaxBuilt = 2
  NoNode = NoNode
  NoData = NoData
  NoField = NoField
  NoBuilder = NoBuilder
INVARIANTS ResultsCached
CHECK_DEADLOCK FALSE
