SPECIFICATION Spec
CONSTANTS
  app = app
  db = db
  dbOnly = dbOnly
  Node = {db}
  Flow = {}
  FlowNodes <- NoFlowNodes
  Requires <- Independent
  JobId = {1, 2, 3, 4}
  NoJob = 0
  Absent = Absent
  NoCreate = NoCreate
  NoSnapshot = NoSnapshot
  Failed = Failed
  MaxRequests = 4
  Faults <- AllFaults
PROPERTIES
  StopTakesHold
  DeletedStaysDeleted
