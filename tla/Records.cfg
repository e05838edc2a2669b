SPECIFICATION RecordsSpec
CHECK_DEADLOCK FALSE
CONSTANTS
  web = web
  Node = {web}
  BodyMode = {"text", "all"}
  Off = "off"
  FEED = 1
  MaxChanges = 2
  MaxLinks = 2
  MaxRequests = 3
  MaxCrashes = 1
  MaxStarts = 2
  MaxLines = 2
  BATCH = 2
   
PROPERTIES SidecarStops
