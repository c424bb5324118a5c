SPECIFICATION Spec
CONSTANTS
  Keys = {1, 2, 3}
  Approvals = {2}
  SavedGraphs <- MCSavedGraphs
  Suggestions <- MCSuggestions
  MaxRows = 4
  MaxEdits = 3
  MaxSaves = 1
  MaxFaults = 0
INVARIANTS SuccessIsSaved
CHECK_DEADLOCK FALSE
