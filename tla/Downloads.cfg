SPECIFICATION FairSpec
CONSTANTS
  None = None
  Folder = {"app", "lib", "tool", "src"}
  Holds <- MC_Holds
  InitialDisks <- MC_InitialDisks
  Wanted <- MC_Wanted
  MaxStarts = 2
  MaxCrashes = 1
  MaxItems = 7
  MaxSwitch = 2
INVARIANTS  RightVersion
PROPERTIES DoneMeansPulled PullsEnd
CHECK_DEADLOCK FALSE
