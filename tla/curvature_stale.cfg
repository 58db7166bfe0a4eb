\* Reports on two file systems, with no edge left out.
SPECIFICATION RoleSpec
CONSTANTS
  Names = {"a", "b"}
  BadNames = {}
  Modes = {"rw"}
  Users = {0}
  LINK_MAX = 3
  NODE_CAPACITY = 100
  EDGE_CAPACITY = 100
  Calls <- MonitoredCalls
  ResolvedHandles = TRUE
  Logging = FALSE
  XattrKeys = {}
  Values = {}
  Targets = {}
  Acls = {}
  Writes = {}
  Sizes = {}
  Limits = {}
  MaxInode = 6
  MaxEdge = 15
  MaxAux = 1
  MaxLog = 0
  Starts <- SevenCycle
  NodeIds <- SmallIds
  Pairs <- SmallPairs
  MaxCalls = 5
  Trees <- SmallTrees
INVARIANTS
  ReportAlwaysFresh
CHECK_DEADLOCK FALSE
