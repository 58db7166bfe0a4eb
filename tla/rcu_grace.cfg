\* One reader and two writes in a row.
SPECIFICATION Spec
CONSTANTS
  Readers = {r1}
  Writers = {w1}
  MAX_READERS = 2
  MaxWrites = 2
INVARIANT InactiveCopyIsPrivate
CHECK_DEADLOCK FALSE
