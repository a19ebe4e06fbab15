SPECIFICATION Spec
CONSTANTS
  Setups <- MCWindows
  WarmReps = 2
INVARIANT MessagesPerThread
