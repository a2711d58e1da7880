SPECIFICATION Spec
CONSTANTS
  a = a  b = b  c = c  x = x  y = y  z = z  old = old  odd = odd  new = new
  None = None
  Unreadable = Unreadable
  NodeIds <- MCNodeIds
  EdgeIds <- MCEdgeIds
  EndsOf <- MCEndsOf
  Versions <- MCVersions
  Unencodable <- MCUnencodable
  HomeGraphs <- MCHomeGraphs
  AwayGraphs <- MCAwayGraphs
  ExportLimit = 2
INVARIANTS TypeOK MissingMeansFailed HomeIsRestored NodesComeFirst
