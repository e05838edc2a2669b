SPECIFICATION FairSpec
CONSTANTS
  None = None
  db = db
  mig = mig
  web = web
  seed = seed
  old = old
  Node <- MCNode
  Run = {1, 2}
  Shops <- MCShops
  Agents = {"a", "b"}
  RUN_LIMIT = 3
  PER_NODE_LIMIT = 2
  Allowed <- MCAllowed
INVARIANTS RunsApart DnsReaches StoresReady Reconnected
PROPERTIES RunsEnd
CHECK_DEADLOCK FALSE
