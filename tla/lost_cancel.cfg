SPECIFICATION FairSpec
CONSTANTS
  Jobs = {"j1"}
  Canceled = {"j1"}
  Nodes = {"n1"}
  Runs = {"r1", "r2"}
  MaxStarts = 2
  MaxFaults = 0
  Faults = {}
PROPERTIES CanceledDoesNotRun
