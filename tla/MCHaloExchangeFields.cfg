SPECIFICATION Spec
CONSTANTS
  Setups <- MCManyFields
  FreeSteps = 2
  MainSteps = 0
INVARIANTS TagsTell
