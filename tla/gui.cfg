\* A user of either kind, on a disk that may fail.
SPECIFICATION Spec
CONSTANTS
  None = None
  Unreadable = Unreadable
  Files = {f1, f2}
  Contents = {c1}
  Projects = {p1}
  MaxId = 1
  MaxGeneration = 4
INVARIANTS IInv EditsOfThisNumbering ReportOfThisNumbering JobsSeeTheirFile CleanIsSavedOrGivenUp
PROPERTIES EditsGoOnlyWhenAgreed JobsEnd
\* The program ends when its window is closed.
CHECK_DEADLOCK FALSE
