\* Two transactions, nested or one after the other, over a tree of two objects.
SPECIFICATION TxnSpec
CONSTANTS
  Calls <- TreeCalls
  Names = {"a", "b"}
  BadNames = {}
  Modes = {"rw"}
  Users = {0}
  LINK_MAX = 2
  NODE_CAPACITY = 100
  EDGE_CAPACITY = 100
  ResolvedHandles = TRUE
  Logging = FALSE
  XattrKeys = {}
  Values = {}
  Targets = {}
  Acls = {}
  Writes = {}
  Sizes = {}
  Limits = {}
  MaxInode = 4
  MaxEdge = 7
  MaxAux = 1
  MaxLog = 0
  RollbackAfterCommit = FALSE
  MaxDepth = 2
  MaxTxns = 3
PROPERTY TransactionsAreAtomic
CHECK_DEADLOCK FALSE
