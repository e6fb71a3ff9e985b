----------------------------- MODULE MCLauncher -----------------------------
(* Two terminals, two runs, two PIDs that the system uses again; each of the *)
(* three sets is symmetric, and only safety is checked.                      *)
EXTENDS Launcher, TLC

Symmetry == Permutations(Launchers) \cup Permutations(Runs) \cup Permutations(Pids)
=============================================================================
