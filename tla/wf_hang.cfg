SPECIFICATION FairSpec
CONSTANTS
  Nodes = {1, 2, 3}
  Workflows <- MCWorkflows
  Shape = "join"
  Outcomes = {"successful", "error"}
  Deciders = {}
  Requests = {}
  Cancelable = {}
  Deletable = {}
PROPERTIES Terminates
CHECK_DEADLOCK FALSE
