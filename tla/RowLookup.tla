------------------------------ MODULE RowLookup ------------------------------
(***************************************************************************)
(* What an Engram row lookup promises its caller, whatever serves it: one  *)
(* call takes a sequence of row IDs and returns, for each, the row of the  *)
(* table if this rank owns it and zeros if it does not or the ID is dead.  *)
(* An ID outside the table ends the process: no lookup returns for it.     *)
(***************************************************************************)
EXTENDS Integers, Sequences

CONSTANTS
  Callers,  \* threads that look rows up
  Inputs,   \* the ID sequences they may ask for
  Rows,     \* rows of the table, 0..Rows-1
  Owned     \* the rows this rank owns, row_lo .. row_hi-1

Zeros == -1                 \* the content of a row that is all zeros
Row(id) == id               \* the content of a row of the table: its identity

Dead(id) == id < 0
OutOfBounds(id) == id >= Rows

Exact(s) == [i \in 1..Len(s) |-> IF s[i] \in Owned THEN Row(s[i]) ELSE Zeros]

VARIABLES
  asked,   \* [Callers -> Inputs \cup {<<>>}]: the lookup in progress
  got,     \* [Callers -> Seq]: what the last one returned
  aborted  \* BOOLEAN

lookupVars == <<asked, got, aborted>>

LookupInit ==
  /\ asked = [c \in Callers |-> <<>>]
  /\ got = [c \in Callers |-> <<>>]
  /\ aborted = FALSE

AskFor(c, s) ==
  /\ ~aborted
  /\ asked[c] = <<>>
  /\ asked' = [asked EXCEPT ![c] = s]
  /\ UNCHANGED <<got, aborted>>

Answer(c) ==
  /\ ~aborted
  /\ asked[c] # <<>>
  /\ \A i \in 1..Len(asked[c]) : ~OutOfBounds(asked[c][i])
  /\ got' = [got EXCEPT ![c] = Exact(asked[c])]
  /\ asked' = [asked EXCEPT ![c] = <<>>]
  /\ UNCHANGED aborted

Abort ==
  /\ \E c \in Callers : \E i \in 1..Len(asked[c]) : OutOfBounds(asked[c][i])
  /\ aborted' = TRUE
  /\ UNCHANGED <<asked, got>>

LookupNext ==
  \/ \E c \in Callers : Answer(c) \/ \E s \in Inputs : AskFor(c, s)
  \/ Abort

LookupSpec == LookupInit /\ [][LookupNext]_lookupVars
=============================================================================
