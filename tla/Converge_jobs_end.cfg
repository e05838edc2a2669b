SPECIFICATION FairSpec
CONSTANTS
  app = app
  db = db
  dbOnly = dbOnly
  Node <- MCNode
  Flow <- MCFlow
  FlowNodes <- MCFlowNodes
  Requires <- AppNeedsDb
  JobId = {1, 2, 3}
  NoJob = 0
  Absent = Absent
  NoCreate = NoCreate
  NoSnapshot = NoSnapshot
  Failed = Failed
  MaxRequests = 2
  Faults = {}
PROPERTY JobsEnd
