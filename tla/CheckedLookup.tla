---------------------------- MODULE CheckedLookup ----------------------------
(***************************************************************************)
(* What the vocabulary-row and draft-record stores promise: a lookup ends  *)
(* with the exact rows of the file that was opened, or with a status that  *)
(* says it did not.  After one such status no lookup succeeds any more.    *)
(***************************************************************************)
EXTENDS Integers, Sequences

CONSTANTS
  Inputs,       \* the ID sequences of the lookups
  Exact(_),     \* the rows that belong to them
  Kinds,        \* the stores
  Bad(_, _)     \* whether a store may not serve a sequence

VARIABLES
  kind,     \* the store
  asked,    \* Inputs \cup {<<>>}: the lookup in progress
  reply,    \* what the last one returned, <<>> with a status other than 0
  refusing  \* BOOLEAN: some lookup ended with a status other than 0

lookupVars == <<kind, asked, reply, refusing>>

LookupInit == kind \in Kinds /\ asked = <<>> /\ reply = <<>> /\ refusing = FALSE

AskFor(s) == asked = <<>> /\ asked' = s /\ UNCHANGED <<kind, reply, refusing>>

Serve ==
  /\ asked # <<>> /\ ~Bad(kind, asked) /\ ~refusing
  /\ reply' = Exact(asked)
  /\ asked' = <<>>
  /\ UNCHANGED <<kind, refusing>>

Refuse ==
  /\ asked # <<>>
  /\ reply' = <<>>
  /\ asked' = <<>>
  /\ refusing' = TRUE
  /\ UNCHANGED kind

LookupNext == Serve \/ Refuse \/ \E s \in Inputs : AskFor(s)

LookupSpec == LookupInit /\ [][LookupNext]_lookupVars
=============================================================================
