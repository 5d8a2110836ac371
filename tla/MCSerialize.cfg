SPECIFICATION Spec
CONSTANTS
  t1 = t1
  t2 = t2
  Threads = {t1}
  Nodes = {1, 2, 3, 4, 5, 6}
  Labels <- MCLabels
  TypeOf <- MCTypeOf
  Shape <- MCShape
  RootOrder <- MCRootOrder
  Schema = "own"
  Version = 1
  Formats = {"binary"}
  Foreign <- MCForeign
  MaxBuilt = 2
  MaxCalls = 2
  MaxWritten = 1
  NoNode = NoNode
  NoData = NoData
  NoSession = NoSession
INVARIANTS TypeOK SessionsMatch RoundTrip NodesOnce AcceptsWellFormed
CHECK_DEADLOCK FALSE
