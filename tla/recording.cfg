SPECIFICATION Spec
CONSTANTS
  Outputs = {o1}
  InitialSelection = {}
  Rotated = {}
  HideUiItems = FALSE
  CursorSession = TRUE
  OutputToStdout = FALSE
  ProduceSlurp = FALSE
  ExitAfterSelection = FALSE
  FreezeAtStartup = FALSE
  UsePressesOnly = FALSE
  Inputs <- RecordingInputs
  Discards = "NONE"
  MaxFeedback = 1
INVARIANTS
  NoAssertFails
  FrameServesItsConsumers
  RecordedSizeIsFixed
  GesturesHoldTheirButton
