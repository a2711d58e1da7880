SPECIFICATION Spec
CONSTANTS
  a = a  b = b  c = c  x = x  red = red  blue = blue
  None = None
  Earlier = Earlier
  Contents <- MCContents
  EarlierNodes <- MCEarlierNodes
  EarlierContent <- MCEarlierContent
  NodeIds <- MCNodeIds
  EdgeIds <- MCEdgeIds
  EndsOf <- MCEndsOf
  Requests <- MCRequests
  Calls = {c1, c2}
  Pages = {t}
  DefaultLimit = 3
  ListLimit = 2
  MaxStarts = 2
INVARIANTS TypeOK NoneCutOff AnsweredStands ReadersAreCurrent CompleteGraphIsDrawn
PROPERTIES SignalEnds
CHECK_DEADLOCK FALSE
