SPECIFICATION LiveSpec
CONSTANTS
  Steps = 3
  Ahead = 2
  MaxErrors = 2
INVARIANTS
  GraphTypeOK
  DrainedBeforeReplay
  OnlyOvertakenOutputs
  RefusedTogether
  DestroyedIdle
PROPERTIES
  ErrorsSurface
CHECK_DEADLOCK FALSE
