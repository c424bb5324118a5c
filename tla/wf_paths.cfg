SPECIFICATION FairSpec
CONSTANTS
  Nodes = {1, 2, 3}
  Workflows <- MCWorkflows
  Shape = "three"
  Outcomes = {"successful", "failed", "error"}
  Deciders = {"approve"}
  Requests = {}
  Cancelable = {}
  Deletable = {}
INVARIANTS TypeOK FollowsEdges FailedIsUnhandled NoOrphans
PROPERTIES ParentsFirst TerminatesButForBlindSpot
CHECK_DEADLOCK FALSE
