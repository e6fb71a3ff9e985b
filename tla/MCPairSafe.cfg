SPECIFICATION Spec
CONSTANTS
  Nodes = {n0, n1}
  Head = n0
  Calls <- MCCalls
  Kind <- MCKind
  MaxBoot = 1
  Ctls = {exec, second}
  Executors = {exec, second}
  Attachers = {second}
  NoCtl = NoCtl
  Faults = {"raise", "deadline", "term", "term2"}
  MaxErrors = 1
INVARIANTS
  TypeOK
  AbandonedOnlyByCause
CHECK_DEADLOCK FALSE
