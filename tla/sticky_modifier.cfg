SPECIFICATION Spec
CONSTANTS
  Outputs = {o1}
  None = None
  HasSelection = {}
INVARIANTS
  ShiftTurnsAudioOff
