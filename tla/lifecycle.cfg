SPECIFICATION FairSpec
CONSTANTS
  Jobs = {"j1"}
  Canceled = {"j1"}
  Nodes = {"n1"}
  Runs = {"r1", "r2"}
  MaxStarts = 2
  MaxFaults = 1
  Faults = {"worker", "dispatch", "restart", "quota", "refusal"}
INVARIANTS TypeOK OneRunAtATime CancelReachesTheRun
PROPERTIES FinalIsOver EndsUnlessUnstamped
