SPECIFICATION RecallFairSpec
CONSTANTS
  a = a  b = b  c = c  d = d  e = e  calls = calls  uses = uses
  u = u  w = w  x = x  y = y  north = north  east = east  past = past  future = future  v = v
  None = None
  Ragged = Ragged
  Blank = Blank
  Ids <- MCIds
  Relations <- MCRelations
  HopCap = 3
  MaxHops = {0, 2, 5}
  Unit = 12
  Horizon = 2
  Cosine <- MCCosine
  DefaultLimit = 2
  Vectors <- MCVectors
  Queries <- MCQueries
INVARIANTS TypeOK VerdictIsReachability HopIsDistance ReplyIsTheBest PrivateIsAskedFor
PROPERTIES RecallReturns
CHECK_DEADLOCK FALSE
