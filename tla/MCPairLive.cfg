SPECIFICATION LiveSpec
CONSTANTS
  Nodes = {n0, n1}
  Head = n0
  Calls <- MCCalls
  Kind <- MCKind
  MaxBoot = 2
  Ctls = {exec}
  Executors = {exec}
  Attachers = {}
  NoCtl = NoCtl
  Faults = {"ram", "restart", "partition", "term"}
  MaxErrors = 0
PROPERTIES
  AlarmStopsPair
  LowRamIsAnswered
  RestartIsAnswered
  TermEndsController
CHECK_DEADLOCK FALSE
