--------------------------- MODULE MCOwnedGraphs ---------------------------
(* Three steps with any graphs, two of them ahead of the outputs. *)
EXTENDS OwnedGraphs
=============================================================================
