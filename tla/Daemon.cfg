SPECIFICATION Spec
CONSTANTS
  MaxMints = 5
  Names <- MC_Names
  Slots = 4
  Hash <- MC_Hash
  Declared <- MC_Declared
  Workspaces = {"shop", "blog"}
  Wired = {"shop"}
  Taken <- MC_Taken
  Callers = {c1, c2}
  Publications = {2}
  Sockets = {s2}
  Default = s1
  MAX_ROUNDS = 8
  MaxOps = 2
  Limit <- MC_Limit
  MaxGens = 2
SYMMETRY AnyCaller
INVARIANTS NoLostWake NamesAnswer  
CHECK_DEADLOCK FALSE
