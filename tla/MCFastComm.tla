----------------------------- MODULE MCFastComm -----------------------------
(* One channel, kernels of two blocks, and operations past the fourth slot.  *)
EXTENDS FastComm
=============================================================================
