SPECIFICATION FairSpec
CONSTANTS
  app = app
  db = db
  Node <- OneNode
  Flow = {}
  Absent = Absent
  NoCreate = NoCreate
  Failed = Failed
  FIRST_DELAY = 1
  MAX_DELAY = 2
  STABLE = 1
  MAX_ATTEMPTS = 2
  MaxRequests = 1
  MaxMishaps = 3
INVARIANTS
  TypeOK
  UnwatchedIsNoCrash
PROPERTIES
  RecordCatchesUp
  NodesAttended
