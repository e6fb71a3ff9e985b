----------------------------- MODULE RecordStore -----------------------------
(***************************************************************************)
(* The checked stores of the decode path: lossless vocabulary rows         *)
(* (native-source/ds41_vocab_row_store.cpp) and FP4 draft records          *)
(* (ds41_draft_record_store.cpp).  Both serve one lookup at a time, under  *)
(* the mutex "caller", with helper threads, and test the identity of their *)
(* file before and after it.  They differ in who joins a job: any helper   *)
(* that wakes while the vocabulary job is open, every helper in the draft  *)
(* store.  A lookup waiting for "caller" has touched nothing, so one       *)
(* caller stands for all.  Waits have no spurious wakeups.                 *)
(***************************************************************************)
EXTENDS Integers, Sequences, FiniteSets

CONSTANTS
  Kinds,       \* the stores of this instance, a subset of {"vocab", "draft"}
  Workers,     \* helper threads
  Caller,      \* the thread of the lookup
  Inputs,      \* the ID sequences of the lookups
  Ids,         \* vocab: the rows this rank owns; draft: the experts
  CacheSlots,  \* cache_slots of the direct-mapped vocabulary cache
  MaxLookups,  \* bound on the lookups of a behaviour
  MayFail      \* whether a read may fail and the file may change

Threads == Workers \cup {Caller}

ASSUME StoreAssumption ==
  /\ Kinds \subseteq {"vocab", "draft"}
  /\ IsFiniteSet(Workers) /\ Caller \notin Workers
  /\ Ids \subseteq Nat
  /\ CacheSlots \in Nat \ {0} /\ MaxLookups \in Nat
  /\ Inputs \subseteq Seq(Int) /\ <<>> \notin Inputs
  /\ MayFail \in BOOLEAN

VARIABLES
  kind,       \* which store this is
  file,       \* "opened", or "changed" since: its content and its identity
  failure,    \* SUBSET Reasons: the sticky status bits
  asked, reply, refusing,  \* the interface (CheckedLookup)
  lookups,    \* lookups so far: the identity of a Work
  pc,         \* [Threads -> Places]
  job,        \* the posted Work, 0 is null
  order,      \* what has to be read: IDs, by ticket
  slots,      \* what has been read, by ticket
  mapped,     \* [positions -> tickets], 0 for a hit, a zero row or a skipped ID
  hit,        \* [positions -> rows]: what the cache or the memset put there
  next, remaining, generation,
  seen,       \* [Workers -> Nat]
  work,       \* [Workers -> Nat]: the Work a helper drains
  ticket,     \* [Threads -> Nat]
  cache       \* [0..CacheSlots-1 -> rows \cup {NoRow}]

interface == <<asked, reply, refusing>>
plan == <<order, mapped, hit>>
vars == <<kind, file, failure, interface, lookups, pc, job, plan, slots, next, remaining,
          generation, seen, work, ticket, cache>>

Reasons == {"invalid", "changed", "io"}
Places == {"idle", "post", "wake", "draw", "read", "close", "wait", "finish",
           "loop", "asleep", "leave"}

\* A row is its ID and the file it was read from.
Row(id, f) == <<id, f>>
Zeros == <<"zeros">>
NoRow == <<"none">>

-----------------------------------------------------------------------------
(* What a lookup owes *)

\* The draft store refuses an ID that is neither an expert nor -1; the
\* vocabulary store leaves zeros for whatever it does not own.
Invalid(k, s) == k = "draft" /\ \E i \in DOMAIN s : s[i] \notin Ids \cup {-1}

\* Its rows, as they were when the file was opened.
Exact(s) == [i \in DOMAIN s |-> IF s[i] \in Ids THEN Row(s[i], "opened") ELSE Zeros]

CL == INSTANCE CheckedLookup WITH Exact <- Exact, Bad <- Invalid

\* The state is well typed; the helpers still to report never run
\* below zero, and every planned record has its place in the order.
StoreTypeOK ==
  /\ kind \in Kinds
  /\ file \in {"opened", "changed"}
  /\ failure \subseteq Reasons
  /\ lookups \in 0..MaxLookups
  /\ pc \in [Threads -> Places]
  /\ job \in 0..lookups
  /\ next \in Nat
  /\ remaining \in 0..Cardinality(Workers)
  /\ generation \in 0..lookups
  /\ seen \in [Workers -> 0..generation]
  /\ work \in [Workers -> 0..lookups]
  /\ ticket \in [Threads -> Nat]
  /\ DOMAIN mapped = DOMAIN asked
  /\ \A i \in DOMAIN mapped : mapped[i] \in 0..Len(order)

Init ==
  /\ kind \in Kinds
  /\ file = "opened" /\ failure = {}
  /\ CL!LookupInit
  /\ lookups = 0 /\ job = 0
  /\ pc = [t \in Threads |-> IF t = Caller THEN "idle" ELSE "loop"]
  /\ order = <<>> /\ slots = <<>> /\ mapped = <<>> /\ hit = <<>>
  /\ next = 1 /\ remaining = 0 /\ generation = 0
  /\ seen = [w \in Workers |-> 0]
  /\ work = [w \in Workers |-> 0]
  /\ ticket = [t \in Threads |-> 0]
  /\ cache = [s \in 0..CacheSlots-1 |-> NoRow]

Goto(t, place) == pc' = [pc EXCEPT ![t] = place]

-----------------------------------------------------------------------------
(* run(), until the reads begin *)

\* The file is overwritten, resized or replaced under the open store.
FileChanges ==
  /\ MayFail
  /\ file' = "changed"
  /\ UNCHANGED <<kind, failure, interface, lookups, pc, job, plan, slots, next, remaining,
                 generation, seen, work, ticket, cache>>

\* failure is sticky: a store that failed once is poisoned.
Standing == failure

SlotOf(id) == id % CacheSlots
Cached(id) == cache[SlotOf(id)] # NoRow /\ cache[SlotOf(id)][1] = id

\* What is to be read is a set of positions, drawn by ticket in their order.
Ticket(places, i) == Cardinality({j \in places : j <= i})
Position(places, k) == CHOOSE i \in places : Ticket(places, i) = k
Queued(places, s) == [k \in 1..Cardinality(places) |-> s[Position(places, k)]]

\* Positions of the vocabulary job: every owned row the cache does not hold.
Misses(s) == {i \in DOMAIN s : s[i] \in Ids /\ ~Cached(s[i])}
VocabPlan(s) ==
  /\ order' = Queued(Misses(s), s)
  /\ mapped' = [i \in DOMAIN s |-> IF i \in Misses(s) THEN Ticket(Misses(s), i) ELSE 0]
  /\ hit' = [i \in DOMAIN s |-> IF s[i] \in Ids /\ Cached(s[i])
                                THEN cache[SlotOf(s[i])] ELSE Zeros]

\* Slots of the draft job: the distinct experts in the order of the route.
Distinct(s) == {i \in DOMAIN s : s[i] # -1 /\ \A j \in 1..i-1 : s[j] # s[i]}
First(s, id) == CHOOSE i \in Distinct(s) : s[i] = id
DraftPlan(s) ==
  /\ order' = Queued(Distinct(s), s)
  /\ mapped' = [i \in DOMAIN s |-> IF s[i] = -1 THEN 0 ELSE Ticket(Distinct(s), First(s, s[i]))]
  /\ hit' = [i \in DOMAIN s |-> Zeros]

\* caller is taken: the store's own refusals come first, then the plan.
Lookup(s) ==
  /\ pc[Caller] = "idle"
  /\ lookups < MaxLookups
  /\ lookups' = lookups + 1
  /\ asked' = s
  /\ failure' = Standing \cup (IF Standing # {} THEN {}
                               ELSE IF file = "changed" THEN {"changed"}
                               ELSE IF Invalid(kind, s) THEN {"invalid"} ELSE {})
  /\ IF failure' # {}
     THEN /\ order' = <<>>
          /\ mapped' = [i \in DOMAIN s |-> 0]
          /\ hit' = [i \in DOMAIN s |-> Zeros]
          /\ Goto(Caller, "finish")
     ELSE /\ IF kind = "vocab" THEN VocabPlan(s) ELSE DraftPlan(s)
          /\ Goto(Caller, IF Len(order') < 2 \/ Workers = {} THEN "draw" ELSE "post")
  /\ slots' = [k \in DOMAIN order' |-> NoRow]
  /\ next' = IF pc'[Caller] = "draw" THEN 1 ELSE next
  /\ UNCHANGED <<kind, file, reply, refusing, job, remaining, generation, seen, work, ticket,
                 cache>>

\* Below two rows, or without helpers, the caller reads alone.
Serial == Len(order) < 2 \/ Workers = {}

Post ==
  /\ pc[Caller] = "post"
  /\ job' = lookups
  /\ next' = 1
  /\ generation' = generation + 1
  /\ remaining' = IF kind = "draft" THEN Cardinality(Workers) ELSE remaining
  /\ Goto(Caller, "wake")
  /\ UNCHANGED <<kind, file, failure, interface, lookups, plan, slots, seen, work, ticket, cache>>

Asleep == {w \in Workers : pc[w] = "asleep"}

\* Mutant: as many notify_one as there are rows beside the caller's.
FewWoken(W) == Cardinality(W) <= Len(order) - 1

\* notify_all in the draft store; in the vocabulary store one notify_one for
\* each row but the caller's, which may also be spent on a helper that sleeps
\* again.
Woken(W) ==
  IF kind = "draft" THEN W = Asleep ELSE Cardinality(W) <= Len(order) - 1

Wake ==
  /\ pc[Caller] = "wake"
  /\ \E W \in SUBSET Asleep :
       /\ Woken(W)
       /\ pc' = [t \in Threads |-> IF t = Caller THEN "draw"
                                   ELSE IF t \in W THEN "loop" ELSE pc[t]]
  /\ UNCHANGED <<kind, file, failure, interface, lookups, job, plan, slots, next, remaining,
                 generation, seen, work, ticket, cache>>

-----------------------------------------------------------------------------
(* drain(), row(), record() *)

Draw(t) ==
  /\ pc[t] = "draw"
  /\ ticket' = [ticket EXCEPT ![t] = next]
  /\ next' = next + 1
  /\ Goto(t, IF next <= Len(order) THEN "read"
             ELSE IF t # Caller THEN "leave"
             ELSE IF Serial THEN "finish" ELSE "close")
  /\ UNCHANGED <<kind, file, failure, interface, lookups, job, plan, slots, remaining,
                 generation, seen, work, cache>>

\* After a failure the remaining rows are left unread.
Read(t) ==
  /\ pc[t] = "read"
  /\ IF failure # {}
     THEN UNCHANGED <<failure, slots>>
     ELSE \/ /\ slots' = [slots EXCEPT ![ticket[t]] = Row(order[ticket[t]], file)]
             /\ UNCHANGED failure
          \/ /\ MayFail
             /\ failure' = {"io"}
             /\ UNCHANGED slots
  /\ Goto(t, "draw")
  /\ UNCHANGED <<kind, file, interface, lookups, job, plan, next, remaining, generation,
                 seen, work, ticket, cache>>

-----------------------------------------------------------------------------
(* loop(): the helpers *)

\* Mutant: a helper joins whatever generation it has not seen, open or not.
LateJoin(w) == generation # seen[w]

\* Mutant: a helper joins an open job again.
Rejoins(w) == job # 0

Joins(w) == generation # seen[w] /\ (kind = "vocab" => job # 0)

Join(w) ==
  /\ pc[w] = "loop"
  /\ Joins(w)
  /\ seen' = [seen EXCEPT ![w] = generation]
  /\ work' = [work EXCEPT ![w] = job]
  /\ remaining' = IF kind = "vocab" THEN remaining + 1 ELSE remaining
  /\ Goto(w, "draw")
  /\ UNCHANGED <<kind, file, failure, interface, lookups, job, plan, slots, next, generation,
                 ticket, cache>>

Sleep(w) ==
  /\ pc[w] = "loop"
  /\ ~Joins(w)
  /\ Goto(w, "asleep")
  /\ UNCHANGED <<kind, file, failure, interface, lookups, job, plan, slots, next, remaining,
                 generation, seen, work, ticket, cache>>

Leave(w) ==
  /\ pc[w] = "leave"
  /\ remaining' = remaining - 1
  /\ pc' = [pc EXCEPT ![w] = "loop",
                      ![Caller] = IF remaining = 1 /\ @ = "asleep" THEN "wait" ELSE @]
  /\ UNCHANGED <<kind, file, failure, interface, lookups, job, plan, slots, next, generation,
                 seen, work, ticket, cache>>

-----------------------------------------------------------------------------
(* run(), after the reads *)

\* The vocabulary job is closed before the wait, under one lock of job_mutex.
Close ==
  /\ pc[Caller] = "close"
  /\ job' = IF kind = "vocab" THEN 0 ELSE job
  /\ Goto(Caller, "wait")
  /\ UNCHANGED <<kind, file, failure, interface, lookups, plan, slots, next, remaining,
                 generation, seen, work, ticket, cache>>

Wait ==
  /\ pc[Caller] = "wait"
  /\ IF remaining = 0
     THEN Goto(Caller, "finish") /\ job' = 0
     ELSE Goto(Caller, "asleep") /\ UNCHANGED job
  /\ UNCHANGED <<kind, file, failure, interface, lookups, plan, slots, next, remaining,
                 generation, seen, work, ticket, cache>>

\* Mutant: the identity of the file is tested at the beginning only.
Unchecked == failure
Rechecked == failure \cup (IF file = "changed" THEN {"changed"} ELSE {})

Output(i) == IF mapped[i] = 0 THEN hit[i] ELSE slots[mapped[i]]

\* The second identity test, the status, and the rows the cache keeps.
Finish ==
  /\ pc[Caller] = "finish"
  /\ failure' = Rechecked
  /\ refusing' = (failure' # {})
  /\ reply' = IF failure' = {} THEN [i \in DOMAIN asked |-> Output(i)] ELSE <<>>
  /\ cache' = IF failure' # {} \/ kind = "draft" THEN cache
              ELSE [s \in DOMAIN cache |->
                      LET filled == {k \in DOMAIN order : SlotOf(order[k]) = s}
                      IN  IF filled = {} THEN cache[s]
                          ELSE slots[CHOOSE k \in filled : \A j \in filled : j <= k]]
  /\ asked' = <<>> /\ mapped' = <<>> /\ hit' = <<>>
  /\ order' = <<>> /\ slots' = <<>>
  /\ Goto(Caller, "idle")
  /\ UNCHANGED <<kind, file, lookups, job, next, remaining, generation, seen, work, ticket>>

-----------------------------------------------------------------------------
Works(t) == Draw(t) \/ Read(t)

CallerStep == Post \/ Wake \/ Works(Caller) \/ Close \/ Wait \/ Finish

WorkerStep(w) == Join(w) \/ Sleep(w) \/ Works(w) \/ Leave(w)

Next ==
  \/ \E s \in Inputs : Lookup(s)
  \/ FileChanges
  \/ CallerStep
  \/ \E w \in Workers : WorkerStep(w)

Spec == Init /\ [][Next]_vars

\* Every thread that can run does, and every pread returns.
Fairness == WF_vars(CallerStep) /\ \A w \in Workers : WF_vars(WorkerStep(w))

LiveSpec == Spec /\ Fairness

-----------------------------------------------------------------------------
(* Properties *)

\* A helper inside a job works on the Work of the lookup in progress, and the
\* lookup has not begun to decide its status: run() returns, and its caller
\* may free the buffers, only when the last helper has left.
WorkIsLive ==
  \A w \in Workers :
    pc[w] \in {"draw", "read", "leave"} =>
      /\ asked # <<>> /\ work[w] = lookups
      /\ pc[Caller] \notin {"idle", "post", "finish"}

\* A lookup with status 0 returned the exact rows of the opened file, whatever
\* the cache, the helpers and the file did; after another status none succeeds.
LookupIsChecked == CL!LookupSpec

\* No wakeup is lost: every lookup returns, failed reads included.
LookupsReturn == asked # <<>> ~> asked = <<>>
=============================================================================
