CONSTANTS
  DataLen = 5
  Chunk = 3
  Workers = {w1}
  None = None
  Cancellable = FALSE
  Inputs <- AllInputs
SPECIFICATION Spec
INVARIANTS NoOverlap MatchesOracle
