--------------------------- MODULE MCRecordStore ---------------------------
(* Two rows that share a cache slot, twice the same row, a row of no owner. *)
EXTENDS RecordStore

MCIds == 0..2
MCInputs == {<<0, 2, 0>>, <<1, -1>>, <<0, 1>>, <<3, 0>>}
=============================================================================
