SPECIFICATION Spec
CONSTANTS
  c1 = c1
  c2 = c2
  p1 = p1
  p2 = p2
  f1 = f1
  f2 = f2
  Procs = {p1, p2}
  Streams = {1, 2}
  Filters <- AllOrOne
  Corrected = {2}
  Contents = {c1, c2}
  Versions <- TwoVersions
  First <- Original
  SizeOf <- Sizes
  Names = {"input", "manifest", "packed"}
  Outputs = {"packed", "input"}
  ManifestNames = {"manifest"}
  Fields = {f1, f2}
  Overlapping <- ClashingPair
  Forced = {FALSE, TRUE}
  MaxRuns = 3
  MaxEdits = 1
SYMMETRY Symmetry
INVARIANTS IInv OutputIsWhole NoTempLeft ManifestsFit NoDamage IndexMeansRebuildable
PROPERTY PackKeepsEveryEdit
CHECK_DEADLOCK FALSE
