SPECIFICATION WaitsSpec
CONSTANTS
  Limit = 2
  MaxWayland = 1
  MaxBus = 3
  MaxSignals = 2
  NoKeepalive = FALSE
  MaxCaptures = 3
  MaxEvents = 3
  Watchers = 2
INVARIANTS
  SleepsWithNothingToDo
  SelectionIsKept
PROPERTIES
  TimersAreServed
  SignalIsAnswered
  PastesAreOfOneCapture
  KeepaliveEnds
  StayingWatcherGetsTheItem
