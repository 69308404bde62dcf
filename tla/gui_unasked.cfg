SPECIFICATION Spec
CONSTANTS
  None = None
  Unreadable = Unreadable
  Files = {f1}
  Contents = {c1}
  Projects = {p1}
  MaxId = 1
  MaxGeneration = 5
PROPERTY UnsavedIsAsked
CHECK_DEADLOCK FALSE
