SPECIFICATION Spec
CONSTANTS
  Outputs = {o1}
  InitialSelection = {}
  Rotated = {o1}
  HideUiItems = FALSE
  CursorSession = FALSE
  OutputToStdout = FALSE
  ProduceSlurp = FALSE
  ExitAfterSelection = FALSE
  FreezeAtStartup = FALSE
  UsePressesOnly = FALSE
  Inputs <- UiInputs
  Discards = "ANY"
  MaxFeedback = 1
INVARIANTS
  TypeOK
  NoAssertFails
  AwaitedUiIsChanging
  UiIsGoneFromCaptures
  HideIsAnsweredOnce
  CapturesAreCounted
  FreezeframeHasItsBuffer
PROPERTIES
  ExitIsKept
