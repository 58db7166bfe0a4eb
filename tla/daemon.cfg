\* Two objects besides the root; two mounts of each image, crashes and I/O errors.
SPECIFICATION DaemonSpec
CONSTANTS
  Names = {"a", "b"}
  BadNames = {}
  Modes = {"rw"}
  Users = {0, 1}
  LINK_MAX = 2
  NODE_CAPACITY = 100
  EDGE_CAPACITY = 100
  Calls <- MountCalls
  ResolvedHandles = TRUE
  Logging = TRUE
  XattrKeys = {"k"}
  Values = {"v"}
  Targets <- ShortPaths
  Acls = {}
  Writes <- OneByte
  Sizes = {0}
  Limits = {}
  MaxInode = 2
  MaxEdge = 5
  MaxAux = 1
  MaxLog = 3
  Sidecar = TRUE
  SetattrRequests <- SomeAttrs
  MaxRecorded = 2
  MaxFaults = 1
  MaxMounts = 2
INVARIANTS
  NamesSurviveRemount
  AuditReplaysToNamespace
  SidecarFollowsDisk
  SyncedHistorySurvives
PROPERTIES
  EntriesNameTheRequester
  ErrorsLeaveTheTree
CHECK_DEADLOCK FALSE
