SPECIFICATION Spec
CONSTANTS
  Keys = {1, 2, 3}
  Approvals = {2}
  SavedGraphs <- MCSavedGraphs
  Suggestions <- MCSuggestions
  MaxRows = 4
  MaxEdits = 2
  MaxSaves = 2
  MaxFaults = 1
INVARIANTS TypeOK DrawnIsSaved NeverRefused NoTwins
PROPERTIES KeepsDrawnLinks
CHECK_DEADLOCK FALSE
