-------------------------- MODULE AssetPublication --------------------------
(***************************************************************************)
(* What the preparation of a host promises: an asset is either absent or   *)
(* whole, it stays once it is there, and the pointer to a prepared         *)
(* revision is moved only when everything this revision needs is there.    *)
(***************************************************************************)
CONSTANTS
  Assets,    \* what can be published
  Revisions, \* what the pointer may name
  NoRev,     \* no preparation has finished yet
  Needs      \* [Revisions -> SUBSET Assets]

VARIABLES shelf, pointer

Init == shelf = {} /\ pointer = NoRev

\* One or more assets appear, whole.
Publish == /\ \E new \in SUBSET (Assets \ shelf) : shelf' = shelf \cup new
           /\ UNCHANGED pointer

Point(r) == /\ Needs[r] \subseteq shelf
            /\ pointer' = r
            /\ UNCHANGED shelf

Next == Publish \/ \E r \in Revisions : Point(r)

Spec == Init /\ [][Next]_<<shelf, pointer>>
=============================================================================
