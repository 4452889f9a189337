SPECIFICATION FairCodexSpec
CONSTANT MaxCancels = 2
INVARIANTS
  SuccessIsCompletion
  ClosedMeansSwept
PROPERTIES
  KeepsContract
  CleanupEnds
