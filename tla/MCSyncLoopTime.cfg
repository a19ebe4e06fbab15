SPECIFICATION FairSpec
CONSTANTS
  Ranks = 2
  NumThreads = 2
  WarmMin = 2
  WarmInc = 1
  MainMin = 1
  MainInc = 1
  NReps = {2}
  MaxQueries = 2
INVARIANT RunsForExecutionTime
