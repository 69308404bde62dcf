CONSTANTS
  DataLen = 4
  Chunk = 1
  Workers = {w1, w2, w3}
  None = None
  Cancellable = TRUE
  Inputs <- SomeInputs
SPECIFICATION Spec
INVARIANTS ProgressInv OkIsWhole OracleInv ProgressExact
PROPERTIES Terminates CancelReported ImplementsContract
