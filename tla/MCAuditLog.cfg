SPECIFICATION Spec
CONSTANTS
  Inodes = {1, 2, 3, 4}
  Names = {1, 2}
  MaxLines = 2
  MaxEntries = 6
  Writeback = TRUE
INVARIANTS
  TypeOK
  HeadIsCurrent
PROPERTIES
  KeepsPromise
CHECK_DEADLOCK FALSE
