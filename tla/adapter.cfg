SPECIFICATION FairSpec
CONSTANTS
  None = None
  r1 = r1  r2 = r2  g1 = g1  g2 = g2  g3 = g3  m1 = m1  m2 = m2
  Requests = {r1, r2}
  Engines = {g1, g2, g3}
  Memories = {m1, m2}
  MaxLeaks = 1
INVARIANTS TypeOK ReadsOwnWrites ReadsOthersWrites AckedReachStore OpenIsCurrent
PROPERTIES EveryRequestReturns
