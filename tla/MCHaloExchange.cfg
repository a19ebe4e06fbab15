SPECIFICATION Spec
CONSTANTS
  Setups <- MCSetups
  FreeSteps = 2
  MainSteps = 1
INVARIANTS TypeOK TagsTell HalosComplete SendsIntact MeasuredTogether NothingLeftOver NeverStuck
