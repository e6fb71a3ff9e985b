SPECIFICATION Spec
CONSTANTS
  Launchers = {l1, l2}
  Runs = {r1, r2}
  Pids = {p1, p2}
  Nobody = Nobody
  Faults = {"kill launcher", "kill controller", "identity", "node", "lost start"}
INVARIANTS
  LauncherTypeOK
  OwnedUnlessCaused
  StopMeansStopped
  SignalsItsOwn
SYMMETRY Symmetry
CHECK_DEADLOCK FALSE
