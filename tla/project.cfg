SPECIFICATION Spec
CONSTANTS
  Jobs = {"j1"}
  BranchJobs = {"b1"}
  Updates = {"u1"}
  Canceled = {"j1","u1"}
  MaxRev = 2
  MaxFaults = 1
INVARIANTS TypeOK TakesTurns RunsWhatItSays RolesAreThere GivenUpNeverRuns
CHECK_DEADLOCK FALSE
