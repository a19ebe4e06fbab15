SPECIFICATION Spec
CONSTANTS
  Setups <- MCPackZ
  MaxThreads = 8
  MaxThreadsZ = 2
  WarpSize = 2
INVARIANT CheckPasses
