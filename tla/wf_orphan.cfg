SPECIFICATION Spec
CONSTANTS
  Nodes = {1, 2}
  Workflows <- MCWorkflows
  Shape = "two"
  Outcomes = {"successful"}
  Deciders = {}
  Requests = {"cancel"}
  Cancelable = {}
  Deletable = {}
INVARIANTS NoOrphans
CHECK_DEADLOCK FALSE
