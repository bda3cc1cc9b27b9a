SPECIFICATION Spec
CONSTANTS
  Outputs = {o1}
  InitialSelection = {}
  Rotated = {}
  HideUiItems = FALSE
  CursorSession = FALSE
  OutputToStdout = FALSE
  ProduceSlurp = FALSE
  ExitAfterSelection = FALSE
  FreezeAtStartup = FALSE
  UsePressesOnly = TRUE
  Inputs <- PointerInputs
  Discards = "NONE"
  MaxFeedback = 1
INVARIANTS
  NoAssertFails
