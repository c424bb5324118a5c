SPECIFICATION FairSpec
CONSTANTS
  Nodes = {1, 2, 3}
  Workflows <- MCWorkflows
  Shape = "asked"
  Outcomes = {"successful"}
  Deciders = {"timeout"}
  Requests = {"cancel", "resume"}
  Cancelable = {1, 3}
  Deletable = {2}
INVARIANTS PlainDnrHasNoJob BypassedIsDone
PROPERTIES OneJobPerNode CancelEnds
CHECK_DEADLOCK FALSE
