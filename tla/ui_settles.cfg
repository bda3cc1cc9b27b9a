SPECIFICATION FairSpec
CONSTANTS
  Outputs = {o1}
  InitialSelection = {}
  Rotated = {o1}
  HideUiItems = FALSE
  CursorSession = FALSE
  OutputToStdout = FALSE
  ProduceSlurp = TRUE
  ExitAfterSelection = FALSE
  FreezeAtStartup = TRUE
  UsePressesOnly = FALSE
  Inputs <- SettlingInputs
  Discards = "REPLACED"
  MaxFeedback = 1
PROPERTIES
  AwaitedUiSettles
  FreezeframesEnd
