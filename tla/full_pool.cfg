\* Room for the root and one more inode; ids are never recycled.
SPECIFICATION DaemonSpec
CONSTANTS
  Names = {"a", "b"}
  BadNames = {}
  Modes = {"rw"}
  Users = {0}
  LINK_MAX = 2
  NODE_CAPACITY = 3
  EDGE_CAPACITY = 100
  Calls <- CreateCalls
  ResolvedHandles = TRUE
  Logging = FALSE
  XattrKeys = {}
  Values = {}
  Targets <- ShortPaths
  Acls = {}
  Writes = {}
  Sizes = {}
  Limits = {}
  MaxInode = 3
  MaxEdge = 9
  MaxAux = 0
  MaxLog = 0
  Sidecar = FALSE
  SetattrRequests = {}
  MaxRecorded = 0
  MaxMounts = 1
  MaxFaults = 0
INVARIANT NoCallbackPanics
CHECK_DEADLOCK FALSE
