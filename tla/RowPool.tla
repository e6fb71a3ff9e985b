------------------------------- MODULE RowPool -------------------------------
(***************************************************************************)
(* The Engram row store (serving/row_store_core.cpp): lookups of several   *)
(* callers, served by a shared pool of worker threads through a set-       *)
(* associative cache.  A critical section of mutex_ or of a cache lock is  *)
(* one step; the atomics next_, remaining_ and active_ are also used       *)
(* outside of them.  A waiter on a condition variable tests its predicate  *)
(* under the mutex and sleeps until it is notified; no spurious wakeup     *)
(* comes to its help.                                                      *)
(***************************************************************************)
EXTENDS Integers, Sequences, FiniteSets

CONSTANTS
  Callers,     \* threads that look rows up: the host functions of a stream
  Workers,     \* threads of the pool
  Inputs,      \* the ID sequences of the lookups
  Rows,        \* rows of the table, 0..Rows-1
  Owned,       \* the rows this rank owns
  Sets, Ways,  \* the cache: sets of ways; no sets is no cache
  SerialBelow, \* kSerialBelow: a shorter lookup is served by its caller
  MaxLookups,  \* bound on the lookups of a behaviour
  NoJob        \* job_ is nullptr, caller_ is free

Threads == Callers \cup Workers

ASSUME PoolAssumption ==
  /\ Callers \cap Workers = {} /\ IsFiniteSet(Workers)
  /\ NoJob \notin Threads
  /\ Rows \in Nat /\ Owned \subseteq 0..Rows - 1
  /\ Sets \in Nat /\ Ways \in Nat \ {0}
  /\ SerialBelow \in Nat
  /\ MaxLookups \in Nat
  /\ Inputs \subseteq Seq(Int) /\ <<>> \notin Inputs

VARIABLES
  asked, got, aborted,   \* the interface (RowLookup)
  out,        \* [Callers -> Seq]: the weights and scales of the Work
  pc,         \* [Threads -> Places]
  caller,     \* holder of caller_
  job,        \* job_
  next, chunks, remaining, generation, active,
  seen,       \* [Workers -> Nat]
  work,       \* [Threads -> Callers \cup {NoJob}]: the Work being drained
  ticket,     \* [Threads -> Nat]
  cache,      \* [0..Sets-1 -> [0..Ways-1 -> [key, row]]]
  victim,     \* [0..Sets-1 -> 0..Ways-1]
  lookups     \* lookups so far

interface == <<asked, got, aborted>>
poolVars == <<caller, job, next, chunks, remaining, generation, active, seen, work>>
cacheVars == <<cache, victim>>
vars == <<interface, out, pc, poolVars, ticket, cacheVars, lookups>>

RL == INSTANCE RowLookup

Zeros == RL!Zeros
NotYet == -2
NoSlot == [key |-> 0, row |-> Zeros]

Places == {"idle", "post", "wake", "draw", "serve", "fill", "count", "tell",
           "wait", "asleep", "loop", "leave", "serial"}
\* In drain(), between taking the job and the last look at the ticket counter.
Draining == {"draw", "serve", "fill", "count", "tell"}

\* The state is well typed: no counter of the pool runs below zero and the
\* replacement cursor of a set stays among its ways.
PoolTypeOK ==
  /\ pc \in [Threads -> Places]
  /\ caller \in Callers \cup {NoJob}
  /\ job \in Callers \cup {NoJob}
  /\ {next, chunks, remaining, generation} \subseteq Nat
  /\ active \in Nat
  /\ seen \in [Workers -> Nat]
  /\ work \in [Threads -> Callers \cup {NoJob}]
  /\ ticket \in [Threads -> Nat]
  /\ victim \in [0..Sets-1 -> 0..Ways-1]
  /\ lookups \in 0..MaxLookups
  /\ aborted \in BOOLEAN

Init ==
  /\ RL!LookupInit
  /\ out = [c \in Callers |-> <<>>]
  /\ pc = [t \in Threads |-> IF t \in Callers THEN "idle" ELSE "loop"]
  /\ caller = NoJob /\ job = NoJob
  /\ next = 0 /\ chunks = 0 /\ remaining = 0 /\ generation = 0 /\ active = 0
  /\ seen = [w \in Workers |-> 0]
  /\ work = [t \in Threads |-> NoJob]
  /\ ticket = [t \in Threads |-> 0]
  /\ cache = [s \in 0..Sets-1 |-> [w \in 0..Ways-1 |-> NoSlot]]
  /\ victim = [s \in 0..Sets-1 |-> 0]
  /\ lookups = 0

At(t, place) == ~aborted /\ pc[t] = place
Goto(t, place) == pc' = [pc EXCEPT ![t] = place]

-----------------------------------------------------------------------------
(* row_store_lookup, Pool::run *)

\* Below kSerialBelow the caller serves its rows alone, next to the pool.
Serial(c) == Len(asked[c]) < SerialBelow

Lookup(c) ==
  /\ At(c, "idle")
  /\ lookups < MaxLookups
  /\ lookups' = lookups + 1
  /\ \E s \in Inputs :
       /\ asked' = [asked EXCEPT ![c] = s]
       /\ out' = [out EXCEPT ![c] = [i \in DOMAIN s |-> NotYet]]
       /\ Goto(c, IF Len(s) < SerialBelow THEN "serve" ELSE "post")
  /\ work' = [work EXCEPT ![c] = c]
  /\ ticket' = [ticket EXCEPT ![c] = 0]
  /\ UNCHANGED <<got, aborted, caller, job, next, chunks, remaining, generation,
                 active, seen, cacheVars>>

Return(c) ==
  /\ got' = [got EXCEPT ![c] = out[c]]
  /\ asked' = [asked EXCEPT ![c] = <<>>]
  /\ out' = [out EXCEPT ![c] = <<>>]
  /\ Goto(c, "idle")
  /\ UNCHANGED <<aborted, lookups>>

\* One job at a time: caller_ is held from here until the job is done.
Post(c) ==
  /\ At(c, "post")
  /\ caller = NoJob
  /\ caller' = c
  /\ job' = c
  /\ next' = 0
  /\ chunks' = Len(asked[c])
  /\ remaining' = Len(asked[c])
  /\ generation' = generation + 1
  /\ Goto(c, "wake")
  /\ UNCHANGED <<interface, out, active, seen, work, ticket, cacheVars, lookups>>

NotifyAll(c) ==
  /\ At(c, "wake")
  /\ pc' = [t \in Threads |-> IF t = c THEN "draw"
                              ELSE IF t \in Workers /\ pc[t] = "asleep" THEN "loop"
                              ELSE pc[t]]
  /\ UNCHANGED <<interface, out, poolVars, ticket, cacheVars, lookups>>

\* Mutant: the caller waits for the chunks and not for the workers.
HastyWait(c) ==
  /\ At(c, "wait")
  /\ IF remaining = 0
     THEN /\ job' = NoJob
          /\ caller' = NoJob
          /\ Return(c)
     ELSE Goto(c, "asleep") /\ UNCHANGED <<job, caller, interface, out, lookups>>
  /\ UNCHANGED <<next, chunks, remaining, generation, active, seen, work, ticket,
                 cacheVars>>

\* The chunks are done and every worker has left drain().
Wait(c) ==
  /\ At(c, "wait")
  /\ IF remaining = 0 /\ active = 0
     THEN /\ job' = NoJob
          /\ caller' = NoJob
          /\ Return(c)
     ELSE Goto(c, "asleep") /\ UNCHANGED <<job, caller, interface, out, lookups>>
  /\ UNCHANGED <<next, chunks, remaining, generation, active, seen, work, ticket,
                 cacheVars>>

-----------------------------------------------------------------------------
(* Pool::drain and serve *)

Draw(t) ==
  /\ At(t, "draw")
  /\ ticket' = [ticket EXCEPT ![t] = next]
  /\ next' = next + 1
  /\ Goto(t, IF next < chunks THEN "serve" ELSE IF t \in Callers THEN "wait" ELSE "leave")
  /\ UNCHANGED <<interface, out, caller, job, chunks, remaining, generation, active,
                 seen, work, cacheVars, lookups>>

\* The ID of the thread's ticket and its place in the output of the Work.
Place(t) == ticket[t] + 1
Id(t) == asked[work[t]][Place(t)]

\* After a row: a serial caller counts for itself.
Placed(t) == IF t \in Callers /\ Serial(t) THEN "serial" ELSE "count"

Put(t, row) ==
  /\ out' = [out EXCEPT ![work[t]][Place(t)] = row]
  /\ Goto(t, Placed(t))

\* Mutant: keys hold the ID itself, and 0 is also the key of an empty slot.
PlainKey(id) == id
Key(id) == id + 1

SetOf(id) == id % Sets
Hit(id) == IF Sets = 0 THEN {}
           ELSE {w \in 0..Ways-1 : cache[SetOf(id)][w].key = Key(id)}

\* A dead ID, or a row of another rank.
ServeZeros(t) ==
  /\ At(t, "serve")
  /\ ~RL!OutOfBounds(Id(t))
  /\ Id(t) \notin Owned
  /\ Put(t, Zeros)
  /\ UNCHANGED <<interface, poolVars, ticket, cacheVars, lookups>>

ServeAborts(t) ==
  /\ At(t, "serve")
  /\ RL!OutOfBounds(Id(t))
  /\ aborted' = TRUE
  /\ UNCHANGED <<asked, got, out, pc, poolVars, ticket, cacheVars, lookups>>

\* The first way with the key, copied under the set's lock.
ServeHit(t) ==
  /\ At(t, "serve")
  /\ Id(t) \in Owned
  /\ Hit(Id(t)) # {}
  /\ LET first == CHOOSE w \in Hit(Id(t)) : \A v \in Hit(Id(t)) : w <= v
     IN  Put(t, cache[SetOf(Id(t))][first].row)
  /\ UNCHANGED <<interface, poolVars, ticket, cacheVars, lookups>>

\* A miss: the row is read outside the lock, from a file that never changes.
ServeMiss(t) ==
  /\ At(t, "serve")
  /\ Id(t) \in Owned
  /\ Hit(Id(t)) = {}
  /\ Goto(t, "fill")
  /\ UNCHANGED <<interface, out, poolVars, ticket, cacheVars, lookups>>

\* Mutant: the replacement cursor of a set never wraps.
RunawayWay(w) == w + 1
NextWay(w) == (w + 1) % Ways

\* The row replaces the set's victim; another thread may have added it already.
Fill(t) ==
  /\ At(t, "fill")
  /\ LET id == Id(t)
         s == SetOf(id)
     IN  /\ IF Sets = 0 THEN UNCHANGED cacheVars
            ELSE /\ cache' = [cache EXCEPT ![s][victim[s]] =
                                [key |-> Key(id), row |-> RL!Row(id)]]
                 /\ victim' = [victim EXCEPT ![s] = NextWay(@)]
         /\ Put(t, RL!Row(id))
  /\ UNCHANGED <<interface, poolVars, ticket, lookups>>

SerialNext(c) ==
  /\ At(c, "serial")
  /\ IF Place(c) < Len(asked[c])
     THEN /\ ticket' = [ticket EXCEPT ![c] = @ + 1]
          /\ Goto(c, "serve")
          /\ UNCHANGED <<interface, out, lookups>>
     ELSE Return(c) /\ UNCHANGED ticket
  /\ UNCHANGED <<poolVars, cacheVars>>

\* The last chunk has somebody to tell.
Count(t) ==
  /\ At(t, "count")
  /\ remaining' = remaining - 1
  /\ Goto(t, IF remaining = 1 THEN "tell" ELSE "draw")
  /\ UNCHANGED <<interface, out, caller, job, next, chunks, generation, active, seen,
                 work, ticket, cacheVars, lookups>>

\* done_.notify_one: only the holder of caller_ ever waits for it.
NotifyDone(t, place) ==
  pc' = [u \in Threads |-> IF u = t THEN place
                           ELSE IF u \in Callers /\ pc[u] = "asleep" THEN "wait"
                           ELSE pc[u]]

Tell(t) ==
  /\ At(t, "tell")
  /\ NotifyDone(t, "draw")
  /\ UNCHANGED <<interface, out, poolVars, ticket, cacheVars, lookups>>

-----------------------------------------------------------------------------
(* Pool::loop *)

\* A worker that comes late finds no job, or the next one.
Loop(w) ==
  /\ At(w, "loop")
  /\ IF generation = seen[w]
     THEN Goto(w, "asleep") /\ UNCHANGED <<seen, work, active>>
     ELSE /\ seen' = [seen EXCEPT ![w] = generation]
          /\ work' = [work EXCEPT ![w] = job]
          /\ IF job = NoJob
             THEN UNCHANGED <<pc, active>>
             ELSE active' = active + 1 /\ Goto(w, "draw")
  /\ UNCHANGED <<interface, out, caller, job, next, chunks, remaining, generation,
                 ticket, cacheVars, lookups>>

\* Mutant: only the last chunk notifies.
SilentLeave(w) ==
  /\ At(w, "leave")
  /\ active' = active - 1
  /\ Goto(w, "loop")
  /\ UNCHANGED <<interface, out, caller, job, next, chunks, remaining, generation, seen,
                 work, ticket, cacheVars, lookups>>

Leave(w) ==
  /\ At(w, "leave")
  /\ active' = active - 1
  /\ NotifyDone(w, "loop")
  /\ UNCHANGED <<interface, out, caller, job, next, chunks, remaining, generation, seen,
                 work, ticket, cacheVars, lookups>>

-----------------------------------------------------------------------------
(* Specification *)

Works(t) ==
  \/ Draw(t) \/ ServeZeros(t) \/ ServeAborts(t) \/ ServeHit(t) \/ ServeMiss(t)
  \/ Fill(t) \/ Count(t) \/ Tell(t)

CallerStep(c) ==
  Post(c) \/ NotifyAll(c) \/ Works(c) \/ SerialNext(c) \/ Wait(c)

WorkerStep(w) == Loop(w) \/ Works(w) \/ Leave(w)

Next ==
  \/ \E c \in Callers : Lookup(c) \/ CallerStep(c)
  \/ \E w \in Workers : WorkerStep(w)

Spec == Init /\ [][Next]_vars

\* Every thread that can run does; nothing obliges anyone to look up.
Fairness ==
  /\ \A c \in Callers : WF_vars(CallerStep(c))
  /\ \A w \in Workers : WF_vars(WorkerStep(w))

LiveSpec == Spec /\ Fairness

-----------------------------------------------------------------------------
(* Properties *)

\* Every lookup returns exactly the rows asked for, whatever thread served each
\* of them and whatever the cache held.
LookupIsExact == RL!LookupSpec

\* No thread works on the ids and buffers of a lookup that has returned, nor on
\* one while another is posted: the ticket counter is reset under nobody.
WorkIsLive ==
  \A w \in Workers : pc[w] \in Draining => work[w] = job /\ work[w] = caller

\* Every lookup returns, though a caller sleeps until somebody notifies it.
LookupReturns == \A c \in Callers : asked[c] # <<>> ~> asked[c] = <<>> \/ aborted
=============================================================================
