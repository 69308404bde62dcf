CONSTANTS
  DataLen = 4
  Chunk = 3
  Workers = {w1}
  None = None
  Cancellable = FALSE
  Inputs <- AllInputs
SPECIFICATION Spec
INVARIANT EveryStreamFound
