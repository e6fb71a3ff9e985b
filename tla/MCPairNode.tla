----------------------------- MODULE MCPairNode -----------------------------
(* One node; two creates, a recovery, two starts and a stop in any order.   *)
EXTENDS PairNode

CONSTANTS create1, create2, recover, start1, start2, stop

MCKind ==
  [c \in Calls |->
    CASE c \in {create1, create2} -> "create"
      [] c = recover -> "recover"
      [] c \in {start1, start2} -> "start"
      [] c = stop -> "stop"]
=============================================================================
