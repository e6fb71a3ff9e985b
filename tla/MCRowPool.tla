------------------------------ MODULE MCRowPool ------------------------------
(* Five rows of which this rank owns 0..2: three in one set of two ways.     *)
EXTENDS RowPool

CONSTANTS Bad   \* whether a lookup may ask for a row beyond the table

MCOwned == 0..2
MCInputs == {<<0>>, <<0, 1>>, <<2, -1>>} \cup (IF Bad THEN {<<1, 5>>} ELSE {})
=============================================================================
