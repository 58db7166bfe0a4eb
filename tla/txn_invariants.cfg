\* The closure sets an attribute and unlinks the file.
SPECIFICATION TxnSpec
CONSTANTS
  Calls <- XattrCalls
  Names = {"a"}
  BadNames = {}
  Modes = {"rw"}
  Users = {0}
  LINK_MAX = 2
  NODE_CAPACITY = 100
  EDGE_CAPACITY = 100
  ResolvedHandles = TRUE
  Logging = FALSE
  XattrKeys = {"k1"}
  Values = {0}
  Targets = {}
  Acls = {}
  Writes = {}
  Sizes = {}
  Limits = {}
  MaxInode = 3
  MaxEdge = 6
  MaxAux = 1
  MaxLog = 0
  RollbackAfterCommit = FALSE
  MaxDepth = 2
  MaxTxns = 2
PROPERTY TransactionsAreAtomic
CHECK_DEADLOCK FALSE
