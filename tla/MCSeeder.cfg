SPECIFICATION SeederSpec
CONSTANTS
  NPosts = 4
  Old = 3
  Poor <- MCPoor
  Tagged <- MCTagged
  Target = 3
  QueueSize = 2
  PageSize = 3
  MaxErrors = 2
  Every = 2
  MaxRuns = 2
INVARIANTS
  SeederTypeOK
  SavedLabelsSurvive
PROPERTIES
  EndsIfItFits
CHECK_DEADLOCK FALSE
