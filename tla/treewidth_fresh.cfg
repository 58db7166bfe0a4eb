\* One edit of a cycle of seven nodes, against a fresh run.
SPECIFICATION RoleSpec
CONSTANTS
  Names = {"a", "b"}
  BadNames = {}
  Modes = {"rw"}
  Users = {0}
  LINK_MAX = 3
  NODE_CAPACITY = 100
  EDGE_CAPACITY = 100
  Calls <- MonitoredCalls
  ResolvedHandles = TRUE
  Logging = FALSE
  XattrKeys = {}
  Values = {}
  Targets = {}
  Acls = {}
  Writes = {}
  Sizes = {}
  Limits = {}
  MaxInode = 1
  MaxEdge = 1
  MaxAux = 0
  MaxLog = 0
  Starts <- SevenCycle
  NodeIds <- SevenIds
  Pairs <- SevenPairs
  MaxCalls = 1
  Trees = {}
INVARIANTS
  BoundIsFresh
CHECK_DEADLOCK FALSE
