SPECIFICATION PartsSpec
CONSTANTS
  Axes = {"x"}
  Extent <- Row
  Positions <- OnRow
  MaxCommits = 2
  Outputs = {o1, o2}
  Solo = {o1}
  DisableAudio = FALSE
  SampleRate = 3
  NsecPerSec = 8
  FrameSize = 2
  MaxChunk = 4
  MaxSamples = 7
  MaxDelay = 5
  Padding = 1
  None = None
  HasSelection = {o2}
  Selected = {o1, o2}
  Watchers = 3
  FewWatchers = 2
  Toggles = 2
  Ring = 2
  Wrap = 4
  MaxFiles = 5
  FewFiles = 3
  MaxServers = 2
  MaxForeign = 1
INVARIANTS
  RecordedSizeIsKept
  AreaIsWhatIsShown
  NothingIsLeftBehind
  ReportedIsTrue
  SoundIsInTime
  EveryStoreIsRight
  ImagesAreWhole
  BlockIsTurned
  ActiveIsPointedAt
  RecordingKeepsItsChoice
  ShiftTurnsAudioOffAtOnce
  IconIsShown
  ClickOpensItsFile
  OpenOnesAreStored
PROPERTIES
  StreamIsShared
  OneEscapeKeepsTheSession
