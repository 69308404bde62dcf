SPECIFICATION Spec
CONSTANTS
  None = None
  Failed = Failed
  Decoding = Decoding
  Ids = {i1, i2}
  Contents = {c1}
  MaxActions = 4
INVARIANTS IInv DrawnAsAsked
PROPERTY ComesToShow
\* At the bound, with everything drawn, only redrawing is left.
CHECK_DEADLOCK FALSE
