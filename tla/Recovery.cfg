CONSTANTS
  shop = shop
  other = other
  inner = inner
  c1 = c1
  c2 = c2
  Paths <- MCPaths
  Label <- MCLabel
  Inside <- MCInside
  Callers = {c1, c2}
  Wired <- MCWired
  Limit <- MCLimit
  MaxOps = 3
SPECIFICATION FairSpec
INVARIANTS   RehydratedTrue
PROPERTIES StoreKeepsUp SettlesInTheEnd
CHECK_DEADLOCK FALSE
