SPECIFICATION Spec
CONSTANTS
  a = a  b = b  d = d  f1 = f1  f2 = f2  x = x  y = y  p = p  event = event  c1 = c1  c2 = c2  b1 = b1
  None = None
  UserIds <- MCUserIds
  FactIds <- MCFactIds
  EdgeIds <- MCEdgeIds
  Projects <- MCProjects
  Types <- MCTypes
  Contents <- MCContents3
  Ends <- MCEnds
  Batches <- MCBatches
  Callers = {c1, c2}
  Backends = {}
  Faults = {"lost"}
  Stops = {"close", "crash"}
  MaxTime = 1
SYMMETRY Symmetric
PROPERTIES DeletionIsJustified
