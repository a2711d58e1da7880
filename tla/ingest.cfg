SPECIFICATION Spec
CONSTANTS
  w1 = w1  w2 = w2  a = a  b = b  c = c  d = d  k1 = k1  k2 = k2  k3 = k3
  None = None
  Workers = {k1, k2, k3}
  Workflows = {w1, w2}
  EventIds = {a, b, c, d}
  Uses <- MCUses
  MayFail = TRUE
SYMMETRY Symmetric
INVARIANTS TypeOK EdgesAreSteps StoreIsTheLog DanglingMeansFailed NoFork WorkflowIsAChain
CHECK_DEADLOCK FALSE
