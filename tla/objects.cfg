\* Objects that come and go: attributes and quotas; ACLs and contexts; contents and blocks; the log.
SPECIFICATION UserSpec
CONSTANTS
  Calls <- UserCalls
  Names = {"a"}
  BadNames = {"a/b"}
  Modes = {"rw", "ro"}
  Users = {0, 1}
  LINK_MAX = 2
  NODE_CAPACITY = 100
  EDGE_CAPACITY = 100
  ResolvedHandles = TRUE
  Logging = TRUE
  XattrKeys = {"k1", "k2"}
  Values = {0}
  Targets <- SmallTargets
  Acls <- SmallAcls
  Writes <- SmallWrites
  Sizes = {0, 1, 3}
  Limits = {1}
  MaxInode = 3
  MaxEdge = 9
  MaxAux = 4
  MaxLog = 5
CONSTRAINT WithinBounds
ACTION_CONSTRAINT UserStays
INVARIANTS
  XattrsBackedByEdges
  
  GrantsMatchAcls
  BlocksFollowTheirFile
  FsckReportsOnlyLostXattrs
  LogReplaysToNamespace
  QueriesAgree
PROPERTIES
  NewObjectsStartClean
  
  ConfinedByContext
  ShrinkingKeepsThePrefix
  LogIsAppendedInContext
CHECK_DEADLOCK FALSE
