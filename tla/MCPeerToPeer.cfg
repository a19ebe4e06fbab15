SPECIFICATION Spec
CONSTANTS
  Setups <- MCSetups
  WarmReps = 2
INVARIANTS TypeOK RowsInOrder MatchedAlike PhasesApart ReportIsRight NeverStuck
