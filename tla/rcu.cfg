\* As many readers as slots, two writers, three writes.
SPECIFICATION Spec
CONSTANTS
  Readers = {r1, r2}
  Writers = {w1, w2}
  MAX_READERS = 2
  MaxWrites = 3
INVARIANTS
  TypeOK
  WritesAreNotLost
  SlotsHeldByOneReader
  SnapshotReadersAreGone
  NoPanicWithinSlots
PROPERTIES
  WritesReturn
  ReadsReturn
CHECK_DEADLOCK FALSE
