CHECK_DEADLOCK FALSE
SPECIFICATION Spec
CONSTANTS
  n1 = n1
  n2 = n2
  c1 = c1
  c2 = c2
  Node = {n1, n2}
  Client = {c1, c2}
  Exchange = {1, 2}
  MAX_EXCHANGES = 2
  NODE_BUDGET = 5
  GLOBAL_BUDGET = 4
  BODY_CAP = 1
  HEADERS = 1
  PART = 1
  MaxMishaps = 2
  FirstModes <- TextAndAll
  SwitchTo = {"off"}
  Requests <- MCRequests
SYMMETRY MCSymmetry
INVARIANTS ForwardedRight  
