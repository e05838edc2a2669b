SPECIFICATION Spec
CONSTANTS
  app = app
  db = db
  Node <- TwoNodes
  Flow = {}
  Absent = Absent
  NoCreate = NoCreate
  Failed = Failed
  FIRST_DELAY = 1
  MAX_DELAY = 2
  STABLE = 2
  MAX_ATTEMPTS = 2
  MaxRequests = 0
  MaxMishaps = 2
INVARIANT OldestFirst
