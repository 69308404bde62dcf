CONSTANTS
  None = None
  Inputs <- AllCalls
  FieldMax = 16
  LocalHeader = 1
SPECIFICATION Spec
INVARIANT WriteEnds
