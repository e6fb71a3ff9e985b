SPECIFICATION Spec
CONSTANTS
  Nodes = {n0, n1}
  Head = n0
  Calls <- MCCalls
  Kind <- MCKind
  MaxBoot = 1
  Ctls = {exec}
  Executors = {exec}
  Attachers = {}
  NoCtl = NoCtl
  Faults = {"journal"}
  MaxErrors = 0
INVARIANTS
  NeverAbandoned
CHECK_DEADLOCK FALSE
