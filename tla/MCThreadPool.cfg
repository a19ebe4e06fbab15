SPECIFICATION FairSpec
CONSTANTS
  NumThreads = 2
  MaxCalls = 4
INVARIANTS TypeOK NoLostWakeup
PROPERTIES ImplementsPool CallsReturn AcceptedJobsFinish
