SPECIFICATION NodeSpec
CONSTANTS
  Nodes = {n0}
  create1 = create1
  create2 = create2
  recover = recover
  start1 = start1
  start2 = start2
  stop = stop
  Calls = {create1, create2, recover, start1, start2, stop}
  Kind <- MCKind
  MaxBoot = 2
INVARIANTS
  NodeTypeOK
  StartOnce
  CreatedIsReal
  EvidenceBeforeEffect
PROPERTY
  NeverRevives
