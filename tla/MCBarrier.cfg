SPECIFICATION BarrierFairSpec
CONSTANTS
  Thread = {t1, t2, t3}
  Rounds = 3
INVARIANTS BarrierTypeOK NoEarlyReturn ResetLosesNothing
PROPERTIES EveryCallReturns
