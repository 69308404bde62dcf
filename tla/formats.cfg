SPECIFICATION Spec
CONSTANTS
  Base = 4
  Window = 3
  MinGlobal = 4
  Chunk = 3
  Files <- SparseFiles
  MaxRounds = 2
  Lz4Magic = 9
  BlockMax = 2
  Sums = 6
  GzipMagic = 9
  MaxCstr = 3
  Checks = 3
  BlockSize = 2
  Filled = 6
  Starts <- BeginningsOf
  Alphabet <- BytesOf
  FieldsBefore <- SizesInFront
  Limits = {2, 6}
  Filters <- AllButTheEmpty
  MaxMore <- MoreOf
  MaxTail = 1
  InitialOutput = 4
  MaxOutputs = {0, 1, 3, 4, 6, 10}
  Sizes = {0, 1, 3, 4, 5, 8, 9, 10, 11}
  MaxAttempts = 3
  MadeWith <- SomeSettings
  DataSizes <- SomeSizes
  BlockLengths <- SomeLengths
  Recorded <- TwoRecorded
  Threads = {t1, t2, t3}
  Paths = {d1, d2}
  Environment = NoPath
  NoPath = NoPath
  Nobody = Nobody
  MaxUses = 4
  MaxSets = 2
INVARIANTS NoneMissed RefusedForOverlap SameFromItsSizes ProbeNeverRejects EvidenceKnowsTheEnd
  AnswerForgetsAttempts SearchFindsSettings FitsDeclaredWindow LoadedOnce UsesWhatIsConfigured
PROPERTY AnswersAreFinal
CHECK_DEADLOCK FALSE
