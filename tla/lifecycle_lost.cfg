SPECIFICATION Spec
CONSTANTS
  Jobs = {"j1"}
  Canceled = {}
  Nodes = {"n1", "n2"}
  Runs = {"r1", "r2"}
  MaxStarts = 2
  MaxFaults = 1
  Faults = {"lost", "worker"}
INVARIANT OneRunAtATime
PROPERTIES FinalIsOver
