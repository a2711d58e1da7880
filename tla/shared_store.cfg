SPECIFICATION Spec
CONSTANTS
  a = a  b = b  f1 = f1  f2 = f2  x = x  p = p  event = event  e1 = e1  e2 = e2
  None = None
  UserIds <- MCUserIds
  FactIds <- MCFactIds
  EdgeIds <- MCEdgeIds
  Projects <- MCProjects
  Types <- MCTypes
  Contents <- MCContents
  Ends <- MCEnds
  Batches <- MCBatches
  Engines = {e1, e2}
  MaxTime = 1
  MaxCalls = 3
SYMMETRY Symmetric
INVARIANTS DriftIsForeign LastingMemoriesAreKept
