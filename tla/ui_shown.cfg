SPECIFICATION Spec
CONSTANTS
  Outputs = {o1}
  InitialSelection = {}
  Rotated = {}
  HideUiItems = FALSE
  CursorSession = FALSE
  OutputToStdout = FALSE
  ProduceSlurp = FALSE
  ExitAfterSelection = FALSE
  FreezeAtStartup = FALSE
  UsePressesOnly = FALSE
  Inputs <- ShownUiInputs
  Discards = "NONE"
  MaxFeedback = 2
PROPERTIES
  ShownUiWasPresented
