SPECIFICATION FairViewSpec
CONSTANTS
  a = a  b = b  d = d  f1 = f1  f2 = f2  x = x  y = y  p = p  event = event  c1 = c1  c2 = c2  b1 = b1
  None = None
  UserIds <- MCUserIds
  FactIds <- MCFactIds
  EdgeIds <- MCEdgeIds1
  Projects <- MCProjects
  Types <- MCTypes
  Contents <- MCContents1
  Ends <- MCEnds
  Batches <- MCBatches1
  Callers = {c1, c2}
  Backends = {b1}
  Faults = {"lost", "inDoubt"}
  Stops = {}
  MaxTime = 0
INVARIANTS AckedIsDurable
PROPERTIES RefinesGraph LockIsReleased
