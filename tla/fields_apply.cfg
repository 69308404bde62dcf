SPECIFICATION FieldsSpec
CONSTANTS
  Base = 4
  Window = 3
  MinGlobal = 4
  Chunk = 3
  Files <- SparseFiles
  MaxRounds = 1
INVARIANT AppliedFieldsAreAccepted
CHECK_DEADLOCK FALSE
