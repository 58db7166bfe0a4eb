\* Three objects besides the root and two names; the calls against the abstract tree.
SPECIFICATION Spec
CONSTANTS
  Names = {"a", "b"}
  BadNames = {}
  Modes = {"rw"}
  Users = {0}
  LINK_MAX = 2
  NODE_CAPACITY = 100
  EDGE_CAPACITY = 100
  Calls <- TreeCalls
  ResolvedHandles = TRUE
  Logging = FALSE
  XattrKeys = {}
  Values = {}
  Targets <- SmallTargets
  Acls = {}
  Writes = {}
  Sizes = {}
  Limits = {}
  MaxInode = 4
  MaxEdge = 9
  MaxAux = 0
  MaxLog = 0
INVARIANTS
  TypeOK
  NamespaceWellFormed
  NothingUnreachable
  RenameFailureIsAtomic
  FsckFindsCycles
  
  BaitedViewsAreExact
PROPERTIES
  IdsNeverReused
  ImplementsPosixNamespace
CHECK_DEADLOCK FALSE
