-------------------------- MODULE MCPairController --------------------------
(* Two nodes; each kind of action has one agent process in flight per node. *)
EXTENDS PairController

MCKind == [k \in Kinds |-> k]
MCCalls == Kinds
=============================================================================
