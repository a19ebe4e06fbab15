SPECIFICATION Spec
CONSTANTS
  Setups <- MCSetups
  MaxThreads = 8
  MaxThreadsZ = 2
  WarpSize = 2
INVARIANTS TypeOK HalosMatchReference CheckTellsTruth MessagesFit
