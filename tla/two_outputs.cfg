SPECIFICATION Spec
CONSTANTS
  Outputs = {o1, o2}
  InitialSelection = {o1}
  Rotated = {}
  HideUiItems = TRUE
  CursorSession = FALSE
  OutputToStdout = TRUE
  ProduceSlurp = FALSE
  ExitAfterSelection = FALSE
  FreezeAtStartup = FALSE
  UsePressesOnly = FALSE
  Inputs <- StdoutInputs
  Discards = "NONE"
  MaxFeedback = 1
INVARIANTS
  StdoutHasOneWriter
  NothingIsCutOff
