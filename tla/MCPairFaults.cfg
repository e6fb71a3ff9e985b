SPECIFICATION Spec
CONSTANTS
  Nodes = {n0, n1}
  Head = n0
  Calls <- MCCalls
  Kind <- MCKind
  MaxBoot = 2
  Ctls = {exec}
  Executors = {exec}
  Attachers = {}
  NoCtl = NoCtl
  Faults = {"agent", "exit", "sick", "restart", "journal", "kill", "partition", "deadline", "raise", "term", "term2"}
  MaxErrors = 0
PROPERTIES
  AlarmIsFinal
  LaunchedLife
CHECK_DEADLOCK FALSE
