SPECIFICATION FairSpec
CONSTANTS
  Jobs = {"j1", "j2"}
  EofJobs = {"j2"}
  Receivers = {"r1"}
  Faults = {"process", "node", "database", "redis", "receiver", "quota"}
  MaxFaults = 2
  MaxRuns = 2
INVARIANTS TypeOK OneTrueNotification NobodyForgets
PROPERTIES EventuallyNotified
CHECK_DEADLOCK FALSE
