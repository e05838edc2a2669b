SPECIFICATION Spec
CONSTANTS
  None = None
  Rank <- MC_Rank
  FolderOf <- MC_FolderOf
  Norm <- MC_Norm
  Spell <- MC_Spell
  Caller = {c1, c2}
  InitialDisks <- MC_InitialDisks
  Edits <- MC_Edits
  MaxEdits = 1
  MaxAsks = 3
INVARIANTS FreshAnswers OrderFound FlowsWhole
CHECK_DEADLOCK FALSE
