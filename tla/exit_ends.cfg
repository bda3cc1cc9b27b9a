SPECIFICATION FairSpec
CONSTANTS
  Outputs = {o1}
  InitialSelection = {}
  Rotated = {}
  HideUiItems = FALSE
  CursorSession = TRUE
  OutputToStdout = FALSE
  ProduceSlurp = FALSE
  ExitAfterSelection = TRUE
  FreezeAtStartup = FALSE
  UsePressesOnly = FALSE
  Inputs <- ExitInputs
  Discards = "ANY"
  MaxFeedback = 1
PROPERTIES
  ExitEnds
