SPECIFICATION Spec
CONSTANTS
  Steps = 3
  Ahead = 2
  MaxErrors = 1
INVARIANTS
  OutputsAreChecked
CHECK_DEADLOCK FALSE
