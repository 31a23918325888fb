CONSTANTS
  Combo <- MCCombo
  Modifiers = {"ctrl", "alt", "shift", "win"}
  Keys = {"v"}
  SilenceFrames = 2
  MaxFrames = 5
  ConfirmFrames = 4
SPECIFICATION FairSpec
INVARIANTS
  TypeOK
  StartedMeansListening
  IdleTellsTheTurn
  RecordingIsWhole
PROPERTIES
  PressStartsATurn
  TurnsEnd
