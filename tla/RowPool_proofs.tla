---------------------------- MODULE RowPool_proofs ----------------------------
(* Proofs about the row store, for any number of callers and workers, any    *)
(* table, cache and inputs: PoolInv is inductive; the pool is well typed,    *)
(* works on live lookups only, and implements RowLookup.                     *)
EXTENDS RowPool, FiniteSetTheorems, TLAPS

InDrain == Draining \cup {"leave"}
Serves == {"serve", "fill"}

\* A thread that serves a chunk of the posted job, and has not counted it.
Pooled(t) == t \in Workers \/ ~Serial(t)
Claims(t) == pc[t] \in Serves \cup {"count"} /\ Pooled(t)
Uncounted == {i \in 1..chunks : next < i \/ \E t \in Threads : Claims(t) /\ Place(t) = i}
Drainers == {w \in Workers : pc[w] \in InDrain}

DataInv ==
  /\ asked \in [Callers -> Seq(Int)]
  /\ DOMAIN got = Callers
  /\ DOMAIN out = Callers
  /\ \A c \in Callers : out[c] \in [1..Len(asked[c]) -> Int]
  /\ cache \in [0..Sets-1 -> [0..Ways-1 -> [key : Nat, row : Int]]]

\* A key in the cache stands with its row; 0 is the key of an empty slot.
CacheInv ==
  \A s \in 0..Sets-1, w \in 0..Ways-1 :
    cache[s][w].key # 0 => cache[s][w].row = cache[s][w].key - 1

\* Who holds caller_, and on whose Work a thread is.
Holds(c) == \/ pc[c] \in {"wake", "draw", "count", "tell", "wait", "asleep"}
            \/ pc[c] \in Serves /\ ~Serial(c)
CallerInv(c) ==
  /\ pc[c] \notin {"loop", "leave"}
  /\ pc[c] = "idle" <=> asked[c] = <<>>
  /\ pc[c] # "idle" => work[c] = c
  /\ pc[c] \in {"post", "wake", "draw", "count", "tell", "wait", "asleep"} => ~Serial(c)
  /\ pc[c] = "serial" => Serial(c)
  /\ job = c <=> Holds(c)
  /\ pc[c] \in Serves \cup {"serial"} /\ Serial(c) => ticket[c] < Len(asked[c])

WorkerInv(w) ==
  /\ pc[w] \in {"loop", "asleep"} \cup InDrain
  /\ pc[w] \in InDrain => work[w] = job /\ job \in Callers

\* No chunk is served twice.
TicketInv ==
  /\ \A t \in Threads : Claims(t) => ticket[t] < next /\ ticket[t] < chunks
  /\ \A t, u \in Threads : Claims(t) /\ Claims(u) /\ t # u => ticket[t] # ticket[u]
  /\ \A t \in Threads : pc[t] = "fill" => Id(t) \in Owned

\* The counters of the pool count what they should.
CountInv == job \in Callers => chunks = Len(asked[job]) /\ remaining = Cardinality(Uncounted)
ActiveInv == active = Cardinality(Drainers)

\* Position i of the lookup of c is still to be served.
Due(c, i) ==
  \/ pc[c] = "post"
  \/ job = c /\ (next < i \/ \E t \in Threads : Claims(t) /\ pc[t] \in Serves /\ Place(t) = i)
  \/ Serial(c) /\ pc[c] \in Serves /\ ticket[c] < i
  \/ pc[c] = "serial" /\ Place(c) < i

\* Position i of the output is what the lookup promises.
Good(c, i) == asked[c][i] < Rows /\ out[c][i] = IF asked[c][i] \in Owned THEN asked[c][i] ELSE Zeros

\* What has been served is right.
OutInv == \A c \in Callers : \A i \in 1..Len(asked[c]) : Due(c, i) \/ Good(c, i)

PoolInv ==
  /\ PoolTypeOK /\ DataInv /\ caller = job
  /\ CacheInv /\ TicketInv /\ CountInv /\ ActiveInv /\ OutInv
  /\ \A c \in Callers : CallerInv(c)
  /\ \A w \in Workers : WorkerInv(w)

-----------------------------------------------------------------------------
(* Facts of every state *)

LEMMA Types ==
  ASSUME PoolTypeOK
  PROVE  /\ pc \in [Threads -> Places] /\ job \in Callers \cup {NoJob}
         /\ next \in Nat /\ chunks \in Nat /\ remaining \in Nat /\ generation \in Nat
         /\ active \in Nat /\ seen \in [Workers -> Nat] /\ lookups \in Nat
         /\ work \in [Threads -> Callers \cup {NoJob}]
         /\ ticket \in [Threads -> Nat]
         /\ victim \in [0..Sets-1 -> 0..Ways-1]
BY DEF PoolTypeOK

LEMMA Distinct ==
  /\ Callers \cap Workers = {} /\ IsFiniteSet(Workers) /\ NoJob \notin Threads
  /\ Rows \in Nat /\ Owned \subseteq 0..Rows - 1 /\ Sets \in Nat /\ Ways \in Nat \ {0}
  /\ SerialBelow \in Nat /\ MaxLookups \in Nat /\ Inputs \subseteq Seq(Int) /\ <<>> \notin Inputs
  /\ Threads = Callers \cup Workers
BY PoolAssumption DEF PoolAssumption, Threads

LEMMA OwnedRows == \A id \in Owned : id \in Nat /\ id \in 0..Rows-1 /\ id < Rows
<1>1. Rows \in Nat /\ \A id \in Owned : id \in 0..Rows-1
  BY PoolAssumption DEF PoolAssumption
<1> QED
  BY <1>1

\* The lookups that are to be counted are finitely many, and so are the workers.
LEMMA Finite ==
  ASSUME PoolTypeOK
  PROVE  IsFiniteSet(Uncounted) /\ IsFiniteSet(Drainers)
<1>1. IsFiniteSet(1..chunks)
  BY Types, FS_Interval
<1>2. Uncounted \subseteq 1..chunks /\ Drainers \subseteq Workers
  BY DEF Uncounted, Drainers
<1> QED
  BY <1>1, <1>2, FS_Subset, Distinct

\* A thread that serves is on a live lookup, at one of its positions.
LEMMA Serving ==
  ASSUME PoolInv, NEW t \in Threads, pc[t] \in Serves
  PROVE  /\ work[t] \in Callers /\ asked[work[t]] \in Seq(Int)
         /\ Place(t) \in 1..Len(asked[work[t]]) /\ Id(t) \in Int
         /\ Pooled(t) => job = work[t]
         /\ ~Pooled(t) => work[t] = t /\ Serial(t)
         /\ Placed(t) = IF Pooled(t) THEN "count" ELSE "serial"
<1>1. t \in Callers \/ t \in Workers
  BY Distinct
<1>2. pc[t] # "idle" /\ pc[t] \in InDrain
  BY DEF Serves, InDrain, Draining
<1>3. Pooled(t) => job = work[t] /\ job \in Callers
  <2>1. CASE t \in Callers
    <3>1. CallerInv(t) /\ t \notin Workers
      BY <2>1, Distinct DEF PoolInv
    <3> QED
      BY <2>1, <3>1, <1>2 DEF CallerInv, Holds, Pooled
  <2>2. CASE t \in Workers
    BY <2>2, <1>2 DEF PoolInv, WorkerInv
  <2> QED
    BY <1>1, <2>1, <2>2
<1>4. ~Pooled(t) => work[t] = t /\ Serial(t) /\ t \in Callers /\ ticket[t] < Len(asked[t])
  BY <1>1, <1>2 DEF PoolInv, CallerInv, Pooled
<1>5. work[t] \in Callers /\ asked[work[t]] \in Seq(Int)
  BY <1>3, <1>4 DEF PoolInv, DataInv
<1>6. ticket[t] \in Nat /\ ticket[t] < Len(asked[work[t]])
  <2>1. Pooled(t) => ticket[t] < chunks /\ chunks = Len(asked[job])
    BY <1>3 DEF PoolInv, TicketInv, CountInv, Claims
  <2> QED
    BY <2>1, <1>3, <1>4, Types DEF PoolInv
<1>7. Place(t) \in 1..Len(asked[work[t]]) /\ Id(t) \in Int
  BY <1>5, <1>6 DEF Place, Id
<1> QED
  BY <1>1, <1>3, <1>4, <1>5, <1>7, Distinct DEF Placed, Pooled

\* A row is put in its place: the thread keeps its claim until it counts it, and
\* the position is served as it should be.
LEMMA Putting ==
  ASSUME PoolInv, NEW t \in Threads, pc[t] \in Serves, NEW row, Put(t, row),
         row = IF Id(t) \in Owned THEN Id(t) ELSE Zeros, Id(t) < Rows,
         UNCHANGED <<interface, poolVars, ticket, lookups>>
  PROVE  /\ pc' \in [Threads -> Places] /\ DOMAIN out' = Callers
         /\ \A c \in Callers : out'[c] \in [1..Len(asked[c]) -> Int]
         /\ TicketInv' /\ CountInv' /\ ActiveInv' /\ OutInv'
         /\ \A c \in Callers : CallerInv(c)'
         /\ \A w \in Workers : WorkerInv(w)'
<1> DEFINE o == work[t]
<1> DEFINE p == Place(t)
<1>1. /\ asked' = asked /\ work' = work /\ ticket' = ticket /\ job' = job /\ caller' = caller
      /\ next' = next /\ chunks' = chunks /\ remaining' = remaining /\ active' = active
  BY DEF interface, poolVars
<1>2. /\ o \in Callers /\ asked[o] \in Seq(Int) /\ p \in 1..Len(asked[o]) /\ Id(t) \in Int
      /\ Pooled(t) => job = o
      /\ ~Pooled(t) => o = t /\ Serial(t)
      /\ Placed(t) = IF Pooled(t) THEN "count" ELSE "serial"
  BY Serving
<1>3. pc' = [pc EXCEPT ![t] = IF Pooled(t) THEN "count" ELSE "serial"]
  BY <1>2 DEF Put, Goto
<1>4. pc' \in [Threads -> Places]
  BY <1>3, Types DEF PoolInv, Places
<1>5. /\ pc'[t] = IF Pooled(t) THEN "count" ELSE "serial"
      /\ \A u \in Threads : u # t => pc'[u] = pc[u]
  BY <1>3, Types DEF PoolInv
<1>6. \A u \in Threads : /\ (Pooled(u)' <=> Pooled(u)) /\ Place(u)' = Place(u) /\ Id(u)' = Id(u)
                         /\ (Serial(u)' <=> Serial(u))
  BY <1>1 DEF Pooled, Place, Id, Serial
<1>7. \A u \in Threads : Claims(u)' <=> Claims(u)
  <2> SUFFICES ASSUME NEW u \in Threads PROVE Claims(u)' <=> Claims(u)
    OBVIOUS
  <2>1. CASE u = t
    BY <2>1, <1>5, <1>6 DEF Claims, Serves
  <2>2. CASE u # t
    BY <2>2, <1>5, <1>6 DEF Claims
  <2> QED
    BY <2>1, <2>2
<1>8. TicketInv'
  <2>1. \A u \in Threads : pc'[u] = "fill" => u # t /\ pc[u] = "fill"
    BY <1>5
  <2> QED
    BY <2>1, <1>1, <1>6, <1>7 DEF PoolInv, TicketInv
<1>9. CountInv'
  <2>1. Uncounted' = Uncounted
    BY <1>1, <1>6, <1>7 DEF Uncounted
  <2> QED
    BY <2>1, <1>1 DEF PoolInv, CountInv
<1>10. ActiveInv'
  <2>1. \A w \in Workers : pc'[w] \in InDrain <=> pc[w] \in InDrain
    BY <1>5, Distinct DEF Pooled, InDrain, Draining, Serves
  <2>2. Drainers' = Drainers
    BY <2>1 DEF Drainers
  <2> QED
    BY <2>2, <1>1 DEF PoolInv, ActiveInv
<1>11. ASSUME NEW c \in Callers PROVE CallerInv(c)'
  <2>1. CallerInv(c) /\ c \in Threads /\ c \notin Workers
    BY <1>11, Distinct DEF PoolInv
  <2>2. CASE c = t
    <3>1. (job = c <=> pc'[c] = "count") /\ (pc'[c] = "count" <=> ~Serial(c)) /\ pc'[c] \in {"count", "serial"}
      BY <2>1, <2>2, <1>5 DEF CallerInv, Holds, Pooled, Serves
    <3>2. (Holds(c)' <=> pc'[c] = "count")
      BY <3>1 DEF Holds, Serves
    <3> QED
      BY <2>1, <2>2, <3>1, <3>2, <1>1, <1>6 DEF CallerInv, Serves
  <2>3. CASE c # t
    BY <2>1, <2>3, <1>1, <1>5, <1>6 DEF CallerInv, Holds
  <2> QED
    BY <2>2, <2>3
<1>12. ASSUME NEW w \in Workers PROVE WorkerInv(w)'
  <2>1. WorkerInv(w) /\ w \in Threads
    BY <1>12, Distinct DEF PoolInv
  <2>2. CASE w = t
    BY <2>1, <2>2, <1>1, <1>5 DEF WorkerInv, Pooled, InDrain, Draining, Serves
  <2>3. CASE w # t
    BY <2>1, <2>3, <1>1, <1>5 DEF WorkerInv
  <2> QED
    BY <2>2, <2>3
<1>13. out' = [out EXCEPT ![o] = [out[o] EXCEPT ![p] = row]]
  BY DEF Put
<1>14. row \in Int /\ out[o] \in [1..Len(asked[o]) -> Int] /\ DOMAIN out = Callers
  BY <1>2 DEF PoolInv, DataInv, Zeros, RL!Zeros
<1>15. /\ DOMAIN out' = Callers /\ \A c \in Callers : c # o => out'[c] = out[c]
       /\ out'[o] = [out[o] EXCEPT ![p] = row]
  BY <1>2, <1>13, <1>14
<1>16. out'[o] \in [1..Len(asked[o]) -> Int] /\ out'[o][p] = row
       /\ \A i \in 1..Len(asked[o]) : i # p => out'[o][i] = out[o][i]
  BY <1>2, <1>14, <1>15
<1>17. \A c \in Callers : out'[c] \in [1..Len(asked[c]) -> Int]
  BY <1>15, <1>16 DEF PoolInv, DataInv
<1>18. ASSUME NEW c \in Callers, NEW i \in 1..Len(asked[c]) PROVE Due(c, i)' \/ Good(c, i)'
  <2>1. CASE c = o /\ i = p
    <3>1. Id(t) = asked[c][i]
      BY <2>1 DEF Id
    <3> QED
      BY <2>1, <3>1, <1>1, <1>16 DEF Good
  <2>2. CASE ~(c = o /\ i = p)
    <3>1. Good(c, i) => Good(c, i)'
      BY <2>2, <1>1, <1>15, <1>16 DEF Good
    <3>2. ASSUME Due(c, i) PROVE Due(c, i)'
      <4>1. ASSUME job = c, NEW u \in Threads, Claims(u), pc[u] \in Serves, Place(u) = i
            PROVE  Due(c, i)'
        <5>1. u # t
          <6>1. ASSUME u = t PROVE FALSE
            BY <4>1, <6>1, <2>2, <1>2 DEF Claims
          <6> QED
            BY <6>1
        <5> QED
          BY <5>1, <4>1, <1>1, <1>5, <1>6, <1>7 DEF Due
      <4>2. CASE pc[c] = "post" \/ (job = c /\ next < i)
        <5>1. pc[c] = "post" => c # t
          BY DEF Serves
        <5> QED
          BY <4>2, <5>1, <1>1, <1>5, Distinct DEF Due
      <4>3. CASE Serial(c) /\ pc[c] \in Serves /\ ticket[c] < i
        <5>1. CASE c = t
          <6>1. pc'[c] = "serial"
            BY <4>3, <5>1, <1>5, Distinct DEF Pooled
          <6>2. ticket[c] + 1 < i
            <7>1. i # ticket[c] + 1 /\ ticket[c] \in Nat
              BY <5>1, <4>3, <2>2, <1>2, Types, Distinct DEF Place, Pooled, PoolInv
            <7> QED
              BY <7>1, <4>3
          <6> QED
            BY <6>1, <6>2, <1>1 DEF Due, Place
        <5>2. CASE c # t
          BY <5>2, <4>3, <1>1, <1>5, <1>6, Distinct DEF Due
        <5> QED
          BY <5>1, <5>2
      <4>4. CASE pc[c] = "serial" /\ Place(c) < i
        <5>1. c # t
          BY <4>4 DEF Serves
        <5> QED
          BY <5>1, <4>4, <1>5, <1>6, Distinct DEF Due
      <4> QED
        BY <3>2, <4>1, <4>2, <4>3, <4>4 DEF Due
    <3> QED
      BY <3>1, <3>2 DEF PoolInv, OutInv
  <2> QED
    BY <2>1, <2>2
<1>19. OutInv'
  BY <1>18, <1>1 DEF OutInv
<1> QED
  BY <1>4, <1>8, <1>9, <1>10, <1>11, <1>12, <1>15, <1>17, <1>19

-----------------------------------------------------------------------------
(* serve *)

LEMMA ServeZerosStep ==
  ASSUME PoolInv, NEW t \in Threads, ServeZeros(t)
  PROVE  PoolInv'
<1>1. /\ pc[t] \in Serves /\ Put(t, Zeros)
      /\ UNCHANGED <<interface, poolVars, ticket, lookups>> /\ UNCHANGED cacheVars
  BY DEF ServeZeros, At, Serves
<1>2. Zeros = (IF Id(t) \in Owned THEN Id(t) ELSE Zeros) /\ Id(t) < Rows
  BY <1>1, Serving, Distinct DEF ServeZeros, RL!OutOfBounds
<1> HIDE DEF Zeros
<1>3. /\ pc' \in [Threads -> Places] /\ DOMAIN out' = Callers
      /\ \A c \in Callers : out'[c] \in [1..Len(asked[c]) -> Int]
      /\ TicketInv' /\ CountInv' /\ ActiveInv' /\ OutInv'
      /\ \A c \in Callers : CallerInv(c)'
      /\ \A w \in Workers : WorkerInv(w)'
  BY <1>1, <1>2, Putting
<1>4. PoolTypeOK' /\ DataInv' /\ (caller = job)'
  BY <1>1, <1>3 DEF PoolInv, PoolTypeOK, DataInv, interface, poolVars, cacheVars
<1>5. CacheInv'
  BY <1>1 DEF PoolInv, CacheInv, cacheVars
<1> QED
  BY <1>3, <1>4, <1>5 DEF PoolInv

\* A set of naturals with a member has a least one.
LEMMA Least ==
  ASSUME NEW S \in SUBSET Nat, S # {}
  PROVE  \E x \in S : \A y \in S : x <= y
<1>1. PICK x \in S : \A y \in S : ~(<<y, x>> \in OpToRel(<, Nat))
  BY WFMin, NatLessThanWellFounded
<1>2. \A y \in S : ~(y < x)
  BY <1>1 DEF OpToRel
<1> QED
  BY <1>2

LEMMA ServeHitStep ==
  ASSUME PoolInv, NEW t \in Threads, ServeHit(t)
  PROVE  PoolInv'
<1> DEFINE hits == Hit(Id(t))
<1> DEFINE first == CHOOSE w \in hits : \A v \in hits : w <= v
<1> DEFINE row == cache[SetOf(Id(t))][first].row
<1>1. /\ pc[t] \in Serves /\ Put(t, row) /\ Id(t) \in Owned /\ hits # {}
      /\ UNCHANGED <<interface, poolVars, ticket, lookups>> /\ UNCHANGED cacheVars
  BY DEF ServeHit, At, Serves
<1>2. Id(t) \in 0..Rows-1 /\ Id(t) \in Nat
  BY <1>1, OwnedRows
<1>3. /\ Sets # 0 /\ SetOf(Id(t)) \in 0..Sets-1
      /\ hits = {w \in 0..Ways-1 : cache[SetOf(Id(t))][w].key = Id(t) + 1}
  <2>1. Sets # 0 /\ hits = {w \in 0..Ways-1 : cache[SetOf(Id(t))][w].key = Key(Id(t))}
    BY <1>1 DEF Hit
  <2>2. SetOf(Id(t)) \in 0..Sets-1
    BY <1>2, <2>1, Distinct DEF SetOf
  <2> QED
    BY <2>1, <2>2 DEF Key
<1>4. first \in hits
  <2>1. hits \in SUBSET Nat /\ hits # {}
    BY <1>1, <1>3, Distinct
  <2> HIDE DEF hits
  <2>2. \E w \in hits : \A v \in hits : w <= v
    BY <2>1, Least
  <2> QED
    BY <2>2
<1>5. row = Id(t)
  <2>1. first \in 0..Ways-1 /\ cache[SetOf(Id(t))][first].key = Id(t) + 1
    BY <1>3, <1>4
  <2> HIDE DEF first
  <2> QED
    BY <2>1, <1>2, <1>3 DEF PoolInv, CacheInv
<1> HIDE DEF row
<1>6. row = (IF Id(t) \in Owned THEN Id(t) ELSE Zeros) /\ Id(t) < Rows
  BY <1>1, <1>2, <1>5, Distinct
<1>7. /\ pc' \in [Threads -> Places] /\ DOMAIN out' = Callers
      /\ \A c \in Callers : out'[c] \in [1..Len(asked[c]) -> Int]
      /\ TicketInv' /\ CountInv' /\ ActiveInv' /\ OutInv'
      /\ \A c \in Callers : CallerInv(c)'
      /\ \A w \in Workers : WorkerInv(w)'
  BY <1>1, <1>6, Putting
<1>8. PoolTypeOK' /\ DataInv' /\ (caller = job)'
  BY <1>1, <1>7 DEF PoolInv, PoolTypeOK, DataInv, interface, poolVars, cacheVars
<1>9. CacheInv'
  BY <1>1 DEF PoolInv, CacheInv, cacheVars
<1> QED
  BY <1>7, <1>8, <1>9 DEF PoolInv

LEMMA FillStep ==
  ASSUME PoolInv, NEW t \in Threads, Fill(t)
  PROVE  PoolInv'
<1> DEFINE id == Id(t)
<1> DEFINE s == SetOf(id)
<1>1. /\ pc[t] \in Serves /\ Put(t, id) /\ id \in Owned
      /\ UNCHANGED <<interface, poolVars, ticket, lookups>>
  BY DEF Fill, At, Serves, RL!Row, PoolInv, TicketInv
<1>2. id \in 0..Rows-1 /\ id \in Nat
  BY <1>1, OwnedRows
<1>3. id = (IF id \in Owned THEN id ELSE Zeros) /\ id < Rows
  BY <1>1, <1>2, Distinct
<1>4. /\ pc' \in [Threads -> Places] /\ DOMAIN out' = Callers
      /\ \A c \in Callers : out'[c] \in [1..Len(asked[c]) -> Int]
      /\ TicketInv' /\ CountInv' /\ ActiveInv' /\ OutInv'
      /\ \A c \in Callers : CallerInv(c)'
      /\ \A w \in Workers : WorkerInv(w)'
  BY <1>1, <1>3, Putting
<1>5. /\ cache' \in [0..Sets-1 -> [0..Ways-1 -> [key : Nat, row : Int]]]
      /\ victim' \in [0..Sets-1 -> 0..Ways-1]
      /\ CacheInv'
  <2>1. CASE Sets = 0
    <3>1. UNCHANGED cacheVars
      BY <2>1 DEF Fill
    <3> QED
      BY <3>1 DEF PoolInv, PoolTypeOK, DataInv, CacheInv, cacheVars
  <2>2. CASE Sets # 0
    <3>1. s \in 0..Sets-1 /\ victim[s] \in 0..Ways-1
      BY <1>2, <2>2, Types, Distinct DEF SetOf, PoolInv
    <3>2. cache' = [cache EXCEPT ![s] = [cache[s] EXCEPT ![victim[s]] = [key |-> id + 1, row |-> id]]]
          /\ victim' = [victim EXCEPT ![s] = (victim[s] + 1) % Ways]
      BY <2>2 DEF Fill, Key, NextWay, RL!Row
    <3> HIDE DEF id, s
    <3>3. /\ cache[s] \in [0..Ways-1 -> [key : Nat, row : Int]]
          /\ [key |-> id + 1, row |-> id] \in [key : Nat, row : Int]
      BY <3>1, <1>2 DEF PoolInv, DataInv
    <3>4. cache'[s] = [cache[s] EXCEPT ![victim[s]] = [key |-> id + 1, row |-> id]]
          /\ \A r \in 0..Sets-1 : r # s => cache'[r] = cache[r]
      BY <3>1, <3>2 DEF PoolInv, DataInv
    <3>5. cache' \in [0..Sets-1 -> [0..Ways-1 -> [key : Nat, row : Int]]]
      <4>1. [cache[s] EXCEPT ![victim[s]] = [key |-> id + 1, row |-> id]]
              \in [0..Ways-1 -> [key : Nat, row : Int]]
        BY <3>3
      <4> QED
        BY <4>1, <3>1, <3>2 DEF PoolInv, DataInv
    <3>6. victim' \in [0..Sets-1 -> 0..Ways-1]
      <4>1. (victim[s] + 1) % Ways \in 0..Ways-1
        BY <3>1, Distinct
      <4> QED
        BY <4>1, <3>1, <3>2, Types DEF PoolInv
    <3>7. CacheInv'
      <4> SUFFICES ASSUME NEW r \in 0..Sets-1, NEW w \in 0..Ways-1, cache'[r][w].key # 0
                   PROVE  cache'[r][w].row = cache'[r][w].key - 1
        BY DEF CacheInv
      <4>1. CASE r = s /\ w = victim[s]
        <5>1. cache'[r][w] = [key |-> id + 1, row |-> id]
          BY <4>1, <3>3, <3>4
        <5> QED
          BY <5>1, <1>2
      <4>2. CASE ~(r = s /\ w = victim[s])
        <5>1. cache'[r][w] = cache[r][w]
          BY <4>2, <3>3, <3>4
        <5> QED
          BY <5>1 DEF PoolInv, CacheInv
      <4> QED
        BY <4>1, <4>2
    <3> QED
      BY <3>5, <3>6, <3>7
  <2> QED
    BY <2>1, <2>2
<1>6. PoolTypeOK' /\ DataInv' /\ (caller = job)'
  BY <1>1, <1>4, <1>5 DEF PoolInv, PoolTypeOK, DataInv, interface, poolVars
<1> QED
  BY <1>4, <1>5, <1>6 DEF PoolInv

LEMMA ServeAbortsStep ==
  ASSUME PoolInv, NEW t \in Threads, ServeAborts(t)
  PROVE  PoolInv'
<1>1. /\ UNCHANGED <<asked, got, out, pc, caller, job, next, chunks, remaining, generation>>
      /\ UNCHANGED <<active, seen, work, ticket, cache, victim, lookups>> /\ aborted' = TRUE
  BY DEF ServeAborts, poolVars, cacheVars
<1>2. PoolTypeOK' /\ DataInv' /\ (caller = job)' /\ CacheInv'
  BY <1>1 DEF PoolInv, PoolTypeOK, DataInv, CacheInv
<1>3. \A u \in Threads : (Claims(u)' <=> Claims(u)) /\ Place(u)' = Place(u) /\ Id(u)' = Id(u)
  BY <1>1 DEF Claims, Pooled, Serial, Place, Id
<1>4. TicketInv' /\ CountInv' /\ ActiveInv'
  <2>1. Uncounted' = Uncounted /\ Drainers' = Drainers
    BY <1>1, <1>3 DEF Uncounted, Drainers
  <2> QED
    BY <2>1, <1>1, <1>3 DEF PoolInv, TicketInv, CountInv, ActiveInv
<1>5. (\A c \in Callers : CallerInv(c)') /\ (\A w \in Workers : WorkerInv(w)')
  BY <1>1 DEF PoolInv, CallerInv, Holds, Serial, WorkerInv
<1>6. OutInv'
  BY <1>1, <1>3, Distinct DEF PoolInv, OutInv, Due, Good, Serial
<1> QED
  BY <1>2, <1>4, <1>5, <1>6 DEF PoolInv

LEMMA ServeMissStep ==
  ASSUME PoolInv, NEW t \in Threads, ServeMiss(t)
  PROVE  PoolInv'
<1>1. /\ UNCHANGED <<asked, got, aborted, out, caller, job, next, chunks, remaining, generation>>
      /\ UNCHANGED <<active, seen, work, ticket, cache, victim, lookups>>
      /\ pc[t] = "serve" /\ pc' = [pc EXCEPT ![t] = "fill"] /\ Id(t) \in Owned
  BY DEF ServeMiss, At, Goto, interface, poolVars, cacheVars
<1>2. pc' \in [Threads -> Places] /\ pc'[t] = "fill" /\ \A u \in Threads : u # t => pc'[u] = pc[u]
  BY <1>1, Types DEF PoolInv, Places
<1>3. PoolTypeOK' /\ DataInv' /\ (caller = job)' /\ CacheInv'
  BY <1>1, <1>2 DEF PoolInv, PoolTypeOK, DataInv, CacheInv
<1>4. \A u \in Threads : /\ (Claims(u)' <=> Claims(u)) /\ Place(u)' = Place(u) /\ Id(u)' = Id(u)
                         /\ (pc'[u] \in Serves <=> pc[u] \in Serves)
                         /\ (pc'[u] \in InDrain <=> pc[u] \in InDrain)
                         /\ (Serial(u)' <=> Serial(u))
  BY <1>1, <1>2 DEF Claims, Pooled, Serial, Place, Id, Serves, InDrain, Draining
<1>5. TicketInv' /\ CountInv' /\ ActiveInv'
  <2>1. Uncounted' = Uncounted /\ Drainers' = Drainers
    BY <1>1, <1>4, Distinct DEF Uncounted, Drainers
  <2>2. \A u \in Threads : pc'[u] = "fill" => Id(u)' \in Owned
    BY <1>1, <1>2, <1>4 DEF PoolInv, TicketInv
  <2> QED
    BY <2>1, <2>2, <1>1, <1>4 DEF PoolInv, TicketInv, CountInv, ActiveInv
<1>6. \A c \in Callers : CallerInv(c)'
  <2> TAKE c \in Callers
  <2>1. CallerInv(c) /\ c \in Threads
    BY Distinct DEF PoolInv
  <2>2. Holds(c)' <=> Holds(c)
    BY <2>1, <1>1, <1>2, <1>4 DEF Holds, Serves
  <2> QED
    BY <2>1, <2>2, <1>1, <1>2, <1>4 DEF CallerInv
<1>7. \A w \in Workers : WorkerInv(w)'
  BY <1>1, <1>2, <1>4, Distinct DEF PoolInv, WorkerInv, InDrain, Draining
<1>8. OutInv'
  <2> SUFFICES ASSUME NEW c \in Callers, NEW i \in 1..Len(asked[c]) PROVE Due(c, i)' \/ Good(c, i)'
    BY <1>1 DEF OutInv
  <2>1. Good(c, i) => Good(c, i)'
    BY <1>1 DEF Good
  <2>2. Due(c, i) => Due(c, i)'
    <3>1. c \in Threads
      BY Distinct
    <3> QED
      BY <3>1, <1>1, <1>2, <1>4 DEF Due, Serves
  <2> QED
    BY <2>1, <2>2 DEF PoolInv, OutInv
<1> QED
  BY <1>3, <1>5, <1>6, <1>7, <1>8 DEF PoolInv

-----------------------------------------------------------------------------
(* row_store_lookup, Pool::run *)

LEMMA LookupStep ==
  ASSUME PoolInv, NEW c \in Callers, Lookup(c)
  PROVE  PoolInv'
<1>1. PICK s \in Inputs :
        /\ asked' = [asked EXCEPT ![c] = s]
        /\ out' = [out EXCEPT ![c] = [i \in DOMAIN s |-> NotYet]]
        /\ pc' = [pc EXCEPT ![c] = IF Len(s) < SerialBelow THEN "serve" ELSE "post"]
  BY DEF Lookup, Goto
<1>2. /\ pc[c] = "idle" /\ lookups < MaxLookups /\ lookups' = lookups + 1
      /\ work' = [work EXCEPT ![c] = c] /\ ticket' = [ticket EXCEPT ![c] = 0]
      /\ UNCHANGED <<got, aborted, caller, job, next, chunks, remaining, generation, active, seen>>
      /\ UNCHANGED <<cache, victim>>
  BY DEF Lookup, At, cacheVars
<1>3. s \in Seq(Int) /\ s # <<>> /\ Len(s) \in Nat \ {0} /\ DOMAIN s = 1..Len(s)
  <2>1. s \in Seq(Int) /\ s # <<>>
    BY Distinct
  <2> QED
    BY <2>1
<1>4. c \in Threads /\ c \notin Workers /\ CallerInv(c) /\ asked \in [Callers -> Seq(Int)]
      /\ DOMAIN out = Callers
  BY Distinct DEF PoolInv, DataInv
<1>5. /\ asked'[c] = s /\ \A d \in Callers : d # c => asked'[d] = asked[d]
      /\ asked' \in [Callers -> Seq(Int)]
  BY <1>1, <1>3, <1>4
<1>6. /\ pc'[c] = (IF Len(s) < SerialBelow THEN "serve" ELSE "post")
      /\ work'[c] = c /\ ticket'[c] = 0
      /\ \A u \in Threads : u # c => pc'[u] = pc[u] /\ work'[u] = work[u] /\ ticket'[u] = ticket[u]
      /\ pc' \in [Threads -> Places]
      /\ work' \in [Threads -> Callers \cup {NoJob}] /\ ticket' \in [Threads -> Nat]
  BY <1>1, <1>2, <1>4, Types DEF PoolInv, Places
<1>7. job # c
  BY <1>2, <1>4 DEF CallerInv, Holds, Serves
<1>8. \A w \in Workers : work[w] # c \/ pc[w] \notin InDrain
  BY <1>7 DEF PoolInv, WorkerInv
<1>9. PoolTypeOK' /\ (caller = job)' /\ CacheInv'
  <2>1. lookups' \in 0..MaxLookups
    BY <1>2, Distinct DEF PoolInv, PoolTypeOK
  <2> QED
    BY <2>1, <1>2, <1>6 DEF PoolInv, PoolTypeOK, CacheInv
<1>10. DataInv'
  <2>1. out'[c] \in [1..Len(s) -> Int] /\ DOMAIN out' = Callers
        /\ \A d \in Callers : d # c => out'[d] = out[d]
    BY <1>1, <1>3, <1>4 DEF NotYet
  <2> QED
    BY <2>1, <1>2, <1>5 DEF PoolInv, DataInv
<1>11. /\ \A u \in Threads : u # c => (Pooled(u)' <=> Pooled(u)) \/ u \in Workers
       /\ Serial(c)' <=> Len(s) < SerialBelow
       /\ \A d \in Callers : d # c => (Serial(d)' <=> Serial(d))
       /\ \A u \in Threads : u # c => Place(u)' = Place(u)
  BY <1>4, <1>5, <1>6, Distinct DEF Pooled, Serial, Place
<1>12. ~Claims(c) /\ ~Claims(c)'
  BY <1>2, <1>4, <1>6, <1>11 DEF Claims, Serves, Pooled
<1>13. \A u \in Threads : u # c => (Claims(u)' <=> Claims(u))
  <2> TAKE u \in Threads
  <2>1. u \in Callers => (Serial(u)' <=> Serial(u)) \/ u = c
    BY <1>11
  <2> QED
    BY <2>1, <1>6, Distinct DEF Claims, Pooled
<1>14. TicketInv'
  <2>1. ASSUME NEW u \in Threads, pc'[u] = "fill" PROVE Id(u)' \in Owned
    <3>1. u # c /\ pc[u] = "fill" /\ work'[u] = work[u] /\ Place(u)' = Place(u)
      BY <2>1, <1>6, <1>11
    <3>2. work[u] # c
      BY <3>1, <1>4, <1>8, Distinct DEF PoolInv, CallerInv, InDrain, Draining
    <3>3. Id(u) \in Owned /\ work[u] \in Callers
      BY <3>1, Serving DEF PoolInv, TicketInv, Serves
    <3> QED
      BY <3>1, <3>2, <3>3, <1>5 DEF Id
  <2>2. \A u \in Threads : Claims(u)' => u # c /\ Claims(u) /\ ticket'[u] = ticket[u]
    BY <1>6, <1>12, <1>13
  <2> QED
    BY <2>1, <2>2, <1>2 DEF PoolInv, TicketInv
<1>15. CountInv' /\ ActiveInv'
  <2>1. Uncounted' = Uncounted
    BY <1>2, <1>11, <1>12, <1>13 DEF Uncounted
  <2>2. Drainers' = Drainers
    BY <1>4, <1>6, Distinct DEF Drainers
  <2> QED
    BY <2>1, <2>2, <1>2, <1>5, <1>7 DEF PoolInv, CountInv, ActiveInv
<1>16. \A d \in Callers : CallerInv(d)'
  <2> TAKE d \in Callers
  <2>1. CASE d = c
    BY <2>1, <1>2, <1>3, <1>5, <1>6, <1>7, <1>11 DEF CallerInv, Holds, Serves
  <2>2. CASE d # c
    BY <2>2, <1>2, <1>5, <1>6, <1>11, Distinct DEF PoolInv, CallerInv, Holds
  <2> QED
    BY <2>1, <2>2
<1>17. \A w \in Workers : WorkerInv(w)'
  BY <1>2, <1>4, <1>6, Distinct DEF PoolInv, WorkerInv
<1>18. OutInv'
  <2> SUFFICES ASSUME NEW d \in Callers, NEW i \in 1..Len(asked'[d]) PROVE Due(d, i)' \/ Good(d, i)'
    BY DEF OutInv
  <2>1. CASE d = c
    BY <2>1, <1>5, <1>6, <1>11 DEF Due, Serves
  <2>2. CASE d # c
    <3>1. asked'[d] = asked[d] /\ out'[d] = out[d] /\ d \in Threads
      BY <2>2, <1>1, <1>4, <1>5, Distinct
    <3>2. Good(d, i) => Good(d, i)'
      BY <3>1 DEF Good
    <3>3. Due(d, i) => Due(d, i)'
      BY <3>1, <2>2, <1>2, <1>6, <1>11, <1>12, <1>13 DEF Due
    <3> QED
      BY <3>1, <3>2, <3>3 DEF PoolInv, OutInv
  <2> QED
    BY <2>1, <2>2
<1> QED
  BY <1>9, <1>10, <1>14, <1>15, <1>16, <1>17, <1>18 DEF PoolInv

LEMMA PostStep ==
  ASSUME PoolInv, NEW c \in Callers, Post(c)
  PROVE  PoolInv'
<1>1. /\ pc[c] = "post" /\ caller = NoJob /\ caller' = c /\ job' = c /\ next' = 0
      /\ chunks' = Len(asked[c]) /\ remaining' = Len(asked[c])
      /\ generation' = generation + 1 /\ pc' = [pc EXCEPT ![c] = "wake"]
      /\ UNCHANGED <<asked, got, aborted, out, active, seen, work, ticket, cache, victim, lookups>>
  BY DEF Post, At, Goto, interface, cacheVars
<1>2. /\ c \in Threads /\ c \notin Workers /\ CallerInv(c) /\ asked[c] \in Seq(Int)
      /\ Len(asked[c]) \in Nat /\ job = NoJob /\ NoJob \notin Callers /\ ~Serial(c)
  BY <1>1, Distinct DEF PoolInv, DataInv, CallerInv
<1>3. pc' \in [Threads -> Places] /\ pc'[c] = "wake" /\ \A u \in Threads : u # c => pc'[u] = pc[u]
  BY <1>1, <1>2, Types DEF PoolInv, Places
<1>4. /\ \A w \in Workers : pc[w] \notin InDrain
      /\ \A d \in Callers : ~Holds(d)
  BY <1>2 DEF PoolInv, WorkerInv, CallerInv
<1>5. /\ \A u \in Threads : ~Claims(u) /\ ~Claims(u)'
      /\ \A d \in Callers : (Serial(d)' <=> Serial(d))
  <2>1. \A u \in Threads : ~Claims(u)
    BY <1>4, Distinct DEF Claims, Pooled, Holds, Serves, InDrain, Draining
  <2>2. \A u \in Threads : pc'[u] \in Serves \cup {"count"} => pc[u] = pc'[u]
    BY <1>3 DEF Serves
  <2> QED
    BY <2>1, <2>2, <1>1 DEF Claims, Pooled, Serial
<1>6. PoolTypeOK' /\ DataInv' /\ (caller = job)' /\ CacheInv'
  <2>1. generation' \in Nat
    BY <1>1, Types DEF PoolInv
  <2> QED
    BY <2>1, <1>1, <1>2, <1>3 DEF PoolInv, PoolTypeOK, DataInv, CacheInv
<1>7. TicketInv'
  <2>1. \A u \in Threads : pc'[u] = "fill" => pc[u] = "fill" /\ Id(u)' = Id(u)
    BY <1>1, <1>3 DEF Id, Place
  <2> QED
    BY <2>1, <1>5 DEF PoolInv, TicketInv
<1>8. CountInv'
  <2>1. Uncounted' = 1..Len(asked[c])
    BY <1>1, <1>2 DEF Uncounted
  <2>2. Cardinality(1..Len(asked[c])) = Len(asked[c])
    BY <1>2, FS_Interval
  <2> QED
    BY <2>1, <2>2, <1>1 DEF CountInv
<1>9. ActiveInv'
  <2>1. Drainers' = Drainers
    BY <1>2, <1>3, Distinct DEF Drainers
  <2> QED
    BY <2>1, <1>1 DEF PoolInv, ActiveInv
<1>10. \A d \in Callers : CallerInv(d)'
  <2> TAKE d \in Callers
  <2>1. CASE d = c
    BY <2>1, <1>1, <1>2, <1>3, <1>5 DEF CallerInv, Holds, Serves
  <2>2. CASE d # c
    <3>1. CallerInv(d) /\ d \in Threads /\ ~Holds(d) /\ ~Holds(d)'
      BY <2>2, <1>1, <1>3, <1>4, <1>5, Distinct DEF PoolInv, Holds
    <3> QED
      BY <2>2, <3>1, <1>1, <1>3, <1>5 DEF CallerInv
  <2> QED
    BY <2>1, <2>2
<1>11. \A w \in Workers : WorkerInv(w)'
  BY <1>1, <1>2, <1>3, <1>4, Distinct DEF PoolInv, WorkerInv
<1>12. OutInv'
  <2> SUFFICES ASSUME NEW d \in Callers, NEW i \in 1..Len(asked[d]) PROVE Due(d, i)' \/ Good(d, i)'
    BY <1>1 DEF OutInv
  <2>1. CASE d = c
    BY <2>1, <1>1, <1>2 DEF Due
  <2>2. CASE d # c
    <3>1. Good(d, i) => Good(d, i)'
      BY <1>1 DEF Good
    <3>2. Due(d, i) => Due(d, i)'
      BY <2>2, <1>1, <1>2, <1>3, <1>5, Distinct DEF Due, Place
    <3> QED
      BY <3>1, <3>2 DEF PoolInv, OutInv
  <2> QED
    BY <2>1, <2>2
<1> QED
  BY <1>6, <1>7, <1>8, <1>9, <1>10, <1>11, <1>12 DEF PoolInv

-----------------------------------------------------------------------------
(* Wakeups *)

\* Whoever is woken returns to the test of its predicate: a worker to its loop,
\* a caller to its wait; t itself goes from a place outside of serve to another.
Wakes(t, place) ==
  /\ pc' \in [Threads -> Places] /\ pc'[t] = place
  /\ \A u \in Threads : u # t =>
       pc'[u] = pc[u] \/ (pc[u] = "asleep" /\ pc'[u] = IF u \in Workers THEN "loop" ELSE "wait")

LEMMA Waking ==
  ASSUME PoolInv, NEW t \in Threads, NEW place, Wakes(t, place),
         <<pc[t], place>> \in {<<"wake", "draw">>, <<"tell", "draw">>, <<"wait", "asleep">>,
                               <<"leave", "loop">>, <<"loop", "asleep">>},
         UNCHANGED <<interface, out, caller, job, next, chunks, remaining, ticket, cacheVars, lookups>>,
         UNCHANGED work, generation' \in Nat, seen' \in [Workers -> Nat], active' \in Nat
  PROVE  /\ PoolTypeOK' /\ DataInv' /\ (caller = job)'
         /\ CacheInv' /\ TicketInv' /\ CountInv' /\ OutInv'
         /\ \A c \in Callers : CallerInv(c)'
         /\ \A w \in Workers : WorkerInv(w)'
<1>1. /\ UNCHANGED <<asked, got, aborted, out, caller, job, next, chunks, remaining, work>>
      /\ UNCHANGED <<ticket, cache, victim, lookups>>
  BY DEF interface, cacheVars
<1>2. PoolTypeOK' /\ DataInv' /\ (caller = job)' /\ CacheInv'
  BY <1>1 DEF PoolInv, PoolTypeOK, DataInv, CacheInv, Wakes
<1>3. \A u \in Threads : /\ (pc'[u] \in Serves <=> pc[u] \in Serves)
                         /\ (pc'[u] = "count" <=> pc[u] = "count")
                         /\ (pc'[u] = "fill" <=> pc[u] = "fill")
                         /\ (pc'[u] = "serial" <=> pc[u] = "serial")
                         /\ (pc'[u] = "post" <=> pc[u] = "post")
                         /\ (pc'[u] = "idle" <=> pc[u] = "idle")
  <2> TAKE u \in Threads
  <2>1. CASE u = t
    BY <2>1 DEF Wakes, Serves
  <2>2. CASE u # t
    BY <2>2 DEF Wakes, Serves
  <2> QED
    BY <2>1, <2>2
<1>4. \A u \in Threads : /\ (Claims(u)' <=> Claims(u)) /\ Place(u)' = Place(u) /\ Id(u)' = Id(u)
                         /\ (Serial(u)' <=> Serial(u))
  BY <1>1, <1>3 DEF Claims, Pooled, Serial, Place, Id
<1>5. TicketInv' /\ CountInv'
  <2>1. Uncounted' = Uncounted
    BY <1>1, <1>4 DEF Uncounted
  <2> QED
    BY <2>1, <1>1, <1>3, <1>4 DEF PoolInv, TicketInv, CountInv
<1>6. \A c \in Callers : CallerInv(c)'
  <2> TAKE c \in Callers
  <2>1. CallerInv(c) /\ c \in Threads /\ c \notin Workers
    BY Distinct DEF PoolInv
  <2> DEFINE waits == {"wake", "draw", "count", "tell", "wait", "asleep"}
  <2>2. (pc'[c] \in waits <=> pc[c] \in waits) /\ pc'[c] \notin {"loop", "leave"}
    <3>1. CASE c = t
      BY <2>1, <3>1 DEF Wakes, CallerInv
    <3>2. CASE c # t
      BY <2>1, <3>2 DEF Wakes, CallerInv
    <3> QED
      BY <3>1, <3>2
  <2>3. Holds(c)' <=> Holds(c)
    BY <2>1, <2>2, <1>3, <1>4 DEF Holds
  <2> QED
    BY <2>1, <2>2, <2>3, <1>1, <1>3, <1>4 DEF CallerInv
<1>7. \A w \in Workers : WorkerInv(w)'
  <2> TAKE w \in Workers
  <2>1. WorkerInv(w) /\ w \in Threads
    BY Distinct DEF PoolInv
  <2>2. CASE w = t
    BY <2>1, <2>2, <1>1 DEF Wakes, WorkerInv, InDrain, Draining
  <2>3. CASE w # t
    BY <2>1, <2>3, <1>1 DEF Wakes, WorkerInv, InDrain, Draining
  <2> QED
    BY <2>2, <2>3
<1>8. OutInv'
  <2> SUFFICES ASSUME NEW c \in Callers, NEW i \in 1..Len(asked[c]) PROVE Due(c, i)' \/ Good(c, i)'
    BY <1>1 DEF OutInv
  <2>1. Good(c, i) => Good(c, i)'
    BY <1>1 DEF Good
  <2>2. Due(c, i) => Due(c, i)'
    <3>1. c \in Threads
      BY Distinct
    <3> QED
      BY <3>1, <1>1, <1>3, <1>4 DEF Due
  <2> QED
    BY <2>1, <2>2 DEF PoolInv, OutInv
<1> QED
  BY <1>2, <1>5, <1>6, <1>7, <1>8

\* The number of workers in drain() is kept by whoever neither enters nor leaves.
LEMMA SameDrainers ==
  ASSUME PoolInv, active' = active, \A w \in Workers : (pc'[w] \in InDrain <=> pc[w] \in InDrain)
  PROVE  ActiveInv'
<1>1. Drainers' = Drainers
  BY DEF Drainers
<1> QED
  BY <1>1 DEF PoolInv, ActiveInv

LEMMA NotifyAllStep ==
  ASSUME PoolInv, NEW c \in Callers, NotifyAll(c)
  PROVE  PoolInv'
<1>1. /\ pc[c] = "wake" /\ UNCHANGED <<interface, out, poolVars, ticket, cacheVars, lookups>>
      /\ pc' = [t \in Threads |-> IF t = c THEN "draw"
                                  ELSE IF t \in Workers /\ pc[t] = "asleep" THEN "loop" ELSE pc[t]]
  BY DEF NotifyAll, At
<1>2. c \in Threads /\ c \notin Workers
  BY Distinct
<1>3. Wakes(c, "draw")
  BY <1>1, <1>2, Types DEF Wakes, Places, PoolInv
<1>4. /\ UNCHANGED <<caller, job, next, chunks, remaining, work>> /\ active' = active
      /\ generation' \in Nat /\ seen' \in [Workers -> Nat] /\ active' \in Nat
  BY <1>1, Types DEF PoolInv, poolVars
<1>5. \A w \in Workers : (pc'[w] \in InDrain <=> pc[w] \in InDrain)
  BY <1>1, <1>2, Distinct DEF InDrain, Draining
<1>6. ActiveInv'
  BY <1>4, <1>5, SameDrainers
<1> QED
  BY <1>1, <1>2, <1>3, <1>4, <1>6, Waking DEF PoolInv

\* A lookup returns when nobody is on it any more.
LEMMA Returning ==
  ASSUME PoolInv, NEW c \in Callers, Return(c), pc[c] \in {"wait", "serial"},
         pc[c] = "wait" => job' = NoJob /\ \A w \in Workers : pc[w] \notin InDrain,
         pc[c] = "serial" => job' = job, caller' = job', UNCHANGED cacheVars,
         UNCHANGED <<next, chunks, remaining, generation, active, seen, work, ticket>>
  PROVE  PoolInv'
<1>1. /\ asked' = [asked EXCEPT ![c] = <<>>] /\ out' = [out EXCEPT ![c] = <<>>]
      /\ got' = [got EXCEPT ![c] = out[c]] /\ pc' = [pc EXCEPT ![c] = "idle"]
      /\ UNCHANGED <<aborted, lookups, cache, victim>>
  BY DEF Return, Goto, cacheVars
<1>2. /\ c \in Threads /\ c \notin Workers /\ CallerInv(c) /\ NoJob \notin Callers
      /\ asked \in [Callers -> Seq(Int)] /\ DOMAIN out = Callers /\ DOMAIN got = Callers
  BY Distinct DEF PoolInv, DataInv
<1>3. /\ asked'[c] = <<>> /\ \A d \in Callers : d # c => asked'[d] = asked[d]
      /\ asked' \in [Callers -> Seq(Int)]
  BY <1>1, <1>2
<1>4. /\ pc'[c] = "idle" /\ \A u \in Threads : u # c => pc'[u] = pc[u]
      /\ pc' \in [Threads -> Places]
  BY <1>1, <1>2, Types DEF PoolInv, Places
<1>5. /\ pc[c] = "wait" => job = c
      /\ pc[c] = "serial" => job # c
      /\ job' # c /\ job' \in Callers \cup {NoJob} /\ (job' = job \/ job' = NoJob)
  BY <1>2, Types DEF CallerInv, Holds, PoolInv, Serves
<1>6. \A w \in Workers : pc[w] \in InDrain => job' = job /\ job # c /\ work[w] = job
  BY <1>5 DEF PoolInv, WorkerInv
<1>7. PoolTypeOK' /\ (caller = job)' /\ CacheInv'
  BY <1>1, <1>4, <1>5 DEF PoolInv, PoolTypeOK, CacheInv
<1>8. DataInv'
  <2>1. /\ out'[c] = <<>> /\ DOMAIN out' = Callers /\ \A d \in Callers : d # c => out'[d] = out[d]
        /\ <<>> \in [1..Len(<<>>) -> Int] /\ DOMAIN got' = Callers
    BY <1>1, <1>2
  <2> QED
    BY <2>1, <1>1, <1>3 DEF PoolInv, DataInv
<1>9. \A d \in Callers : d # c => (Serial(d)' <=> Serial(d))
  BY <1>3 DEF Serial
<1>10. ~Claims(c) /\ ~Claims(c)' /\ \A u \in Threads : u # c => (Claims(u)' <=> Claims(u))
  <2>1. ~Claims(c) /\ ~Claims(c)'
    BY <1>4 DEF Claims, Serves
  <2>2. ASSUME NEW u \in Threads, u # c PROVE Claims(u)' <=> Claims(u)
    BY <2>2, <1>4, <1>9, Distinct DEF Claims, Pooled
  <2> QED
    BY <2>1, <2>2
<1>11. TicketInv'
  <2>1. ASSUME NEW u \in Threads, pc'[u] = "fill" PROVE Id(u)' \in Owned
    <3>1. u # c /\ pc[u] = "fill" /\ work'[u] = work[u] /\ Place(u)' = Place(u)
      BY <2>1, <1>4 DEF Place
    <3>2. work[u] # c /\ work[u] \in Callers
      <4>1. Pooled(u) => job = work[u]
        BY <3>1, Serving DEF Serves
      <4>2. ~Pooled(u) => work[u] = u
        BY <3>1, Serving DEF Serves
      <4>3. Pooled(u) => job # c
        <5>1. u \in Workers => pc[u] \in InDrain
          BY <3>1 DEF InDrain, Draining
        <5>2. ASSUME u \in Callers, Pooled(u) PROVE job = u
          BY <5>2, <3>1, Distinct DEF PoolInv, CallerInv, Holds, Serves, Pooled
        <5> QED
          BY <5>1, <5>2, <1>6, <3>1, Distinct
      <4> QED
        BY <4>1, <4>2, <4>3, <3>1, Serving DEF Serves
    <3>3. Id(u) \in Owned
      BY <3>1 DEF PoolInv, TicketInv
    <3> QED
      BY <3>1, <3>2, <3>3, <1>3 DEF Id
  <2>2. \A u \in Threads : Claims(u)' => u # c /\ Claims(u)
    BY <1>10
  <2> QED
    BY <2>1, <2>2 DEF PoolInv, TicketInv
<1>12. CountInv' /\ ActiveInv'
  <2>1. Uncounted' = Uncounted
    BY <1>10 DEF Uncounted, Place
  <2>2. \A w \in Workers : (pc'[w] \in InDrain <=> pc[w] \in InDrain)
    BY <1>2, <1>4, Distinct
  <2>3. ActiveInv'
    BY <2>2, SameDrainers
  <2> QED
    BY <2>1, <2>3, <1>2, <1>3, <1>5 DEF PoolInv, CountInv
<1>13. \A d \in Callers : CallerInv(d)'
  <2> TAKE d \in Callers
  <2>1. CASE d = c
    BY <2>1, <1>3, <1>4, <1>5 DEF CallerInv, Holds, Serves
  <2>2. CASE d # c
    <3>1. CallerInv(d) /\ d \in Threads /\ (Holds(d)' <=> Holds(d))
      BY <2>2, <1>4, <1>9, Distinct DEF PoolInv, Holds
    <3>2. job' = d <=> job = d
      BY <2>2, <1>2, <1>5
    <3> QED
      BY <2>2, <3>1, <3>2, <1>3, <1>4, <1>9 DEF CallerInv
  <2> QED
    BY <2>1, <2>2
<1>14. \A w \in Workers : WorkerInv(w)'
  <2> TAKE w \in Workers
  <2>1. w \in Threads /\ w # c /\ pc'[w] = pc[w] /\ WorkerInv(w)
    BY <1>2, <1>4, Distinct DEF PoolInv
  <2> QED
    BY <2>1, <1>6 DEF WorkerInv
<1>15. OutInv'
  <2> SUFFICES ASSUME NEW d \in Callers, NEW i \in 1..Len(asked'[d]) PROVE Due(d, i)' \/ Good(d, i)'
    BY DEF OutInv
  <2>1. d # c
    BY <1>3
  <2>2. asked'[d] = asked[d] /\ out'[d] = out[d] /\ d \in Threads
    BY <2>1, <1>1, <1>2, <1>3, Distinct
  <2>3. Good(d, i) => Good(d, i)'
    BY <2>2 DEF Good
  <2>4. job = d => job' = d
    BY <2>1, <1>5
  <2>5. Due(d, i) => Due(d, i)'
    BY <2>1, <2>2, <2>4, <1>4, <1>9, <1>10 DEF Due, Place
  <2> QED
    BY <2>2, <2>3, <2>5 DEF PoolInv, OutInv
<1> QED
  BY <1>7, <1>8, <1>11, <1>12, <1>13, <1>14, <1>15 DEF PoolInv

\* Every chunk is counted and no worker is in drain(): all is served.
LEMMA Finished ==
  ASSUME PoolInv, NEW c \in Callers, pc[c] = "wait", remaining = 0, active = 0
  PROVE  /\ job = c /\ \A w \in Workers : pc[w] \notin InDrain
         /\ \A i \in 1..Len(asked[c]) : Good(c, i)
<1>1. job = c /\ chunks = Len(asked[c]) /\ remaining = Cardinality(Uncounted)
  BY DEF PoolInv, CallerInv, Holds, CountInv
<1>2. Uncounted = {} /\ Drainers = {}
  BY <1>1, Finite, FS_EmptySet DEF PoolInv, ActiveInv
<1>3. \A w \in Workers : pc[w] \notin InDrain
  BY <1>2 DEF Drainers
<1>4. \A i \in 1..Len(asked[c]) : ~Due(c, i)
  <2> TAKE i \in 1..Len(asked[c])
  <2>1. i \notin Uncounted
    BY <1>2
  <2>2. ~(next < i) /\ ~\E t \in Threads : Claims(t) /\ Place(t) = i
    BY <2>1, <1>1 DEF Uncounted
  <2> QED
    BY <2>2 DEF Due, Serves
<1> QED
  BY <1>1, <1>3, <1>4 DEF PoolInv, OutInv

\* A serial caller has served the last position.
LEMMA FinishedAlone ==
  ASSUME PoolInv, NEW c \in Callers, pc[c] = "serial", ~(Place(c) < Len(asked[c]))
  PROVE  \A i \in 1..Len(asked[c]) : Good(c, i)
<1>1. Serial(c) /\ job # c /\ asked[c] \in Seq(Int) /\ ticket[c] \in Nat
  BY Types, Distinct DEF PoolInv, CallerInv, Holds, DataInv, Serves
<1>2. \A i \in 1..Len(asked[c]) : ~Due(c, i)
  BY <1>1 DEF Due, Serves, Place
<1> QED
  BY <1>2 DEF PoolInv, OutInv

LEMMA WaitStep ==
  ASSUME PoolInv, NEW c \in Callers, Wait(c)
  PROVE  PoolInv'
<1>1. /\ pc[c] = "wait"
      /\ UNCHANGED <<next, chunks, remaining, generation, active, seen, work, ticket>>
      /\ UNCHANGED cacheVars
  BY DEF Wait, At, cacheVars
<1>2. CASE remaining = 0 /\ active = 0
  <2>1. Return(c) /\ job' = NoJob /\ caller' = NoJob
    BY <1>2 DEF Wait
  <2> QED
    BY <1>1, <1>2, <2>1, Finished, Returning
<1>3. CASE ~(remaining = 0 /\ active = 0)
  <2>1. pc' = [pc EXCEPT ![c] = "asleep"] /\ UNCHANGED <<job, caller, interface, out, lookups>>
    BY <1>3 DEF Wait, Goto
  <2>2. c \in Threads /\ c \notin Workers
    BY Distinct
  <2>3. Wakes(c, "asleep")
    BY <2>1, <2>2, Types DEF Wakes, Places, PoolInv
  <2>4. ActiveInv'
    BY <2>1, <2>2, <1>1, SameDrainers, Types, Distinct DEF PoolInv
  <2>5. generation' \in Nat /\ seen' \in [Workers -> Nat] /\ active' \in Nat
    BY <1>1, Types DEF PoolInv
  <2> QED
    BY <1>1, <2>1, <2>2, <2>3, <2>4, <2>5, Waking DEF PoolInv
<1> QED
  BY <1>2, <1>3

LEMMA SerialNextStep ==
  ASSUME PoolInv, NEW c \in Callers, SerialNext(c)
  PROVE  PoolInv'
<1>1. /\ pc[c] = "serial"
      /\ UNCHANGED <<caller, job, next, chunks, remaining, generation, active, seen, work>>
      /\ UNCHANGED <<cache, victim>>
  BY DEF SerialNext, At, cacheVars, poolVars
<1>2. CASE ~(Place(c) < Len(asked[c]))
  <2>1. Return(c) /\ UNCHANGED ticket
    BY <1>2 DEF SerialNext
  <2>2. caller' = job' /\ UNCHANGED cacheVars
    BY <1>1 DEF PoolInv, cacheVars
  <2> QED
    BY <1>1, <2>1, <2>2, Returning
<1>3. CASE Place(c) < Len(asked[c])
  <2>1. /\ ticket' = [ticket EXCEPT ![c] = @ + 1] /\ pc' = [pc EXCEPT ![c] = "serve"]
        /\ UNCHANGED <<asked, got, aborted, out, lookups>>
    BY <1>3 DEF SerialNext, Goto, interface
  <2>2. /\ c \in Threads /\ c \notin Workers /\ CallerInv(c) /\ Serial(c)
        /\ ticket[c] \in Nat /\ asked[c] \in Seq(Int)
    BY <1>1, Types, Distinct DEF PoolInv, CallerInv, DataInv
  <2>3. /\ pc'[c] = "serve" /\ ticket'[c] = ticket[c] + 1
        /\ \A u \in Threads : u # c => pc'[u] = pc[u] /\ ticket'[u] = ticket[u]
        /\ pc' \in [Threads -> Places] /\ ticket' \in [Threads -> Nat]
    BY <2>1, <2>2, Types DEF PoolInv, Places
  <2>4. PoolTypeOK' /\ DataInv' /\ (caller = job)' /\ CacheInv'
    BY <1>1, <2>1, <2>3 DEF PoolInv, PoolTypeOK, DataInv, CacheInv
  <2>5. \A u \in Threads : (Serial(u)' <=> Serial(u)) /\ (Pooled(u)' <=> Pooled(u))
    BY <2>1 DEF Serial, Pooled
  <2>6. ~Claims(c) /\ ~Claims(c)'
    BY <1>1, <2>2, <2>5 DEF Claims, Pooled, Serves
  <2>7. \A u \in Threads : u # c => /\ (Claims(u)' <=> Claims(u))
                                    /\ Place(u)' = Place(u) /\ Id(u)' = Id(u)
    BY <1>1, <2>1, <2>3, <2>5 DEF Claims, Place, Id
  <2>8. TicketInv'
    <3>1. \A u \in Threads : pc'[u] = "fill" => u # c /\ pc[u] = "fill"
      BY <2>3
    <3>2. \A u \in Threads : Claims(u)' => u # c /\ Claims(u) /\ ticket'[u] = ticket[u]
      BY <2>3, <2>6, <2>7
    <3> QED
      BY <3>1, <3>2, <1>1, <2>7 DEF PoolInv, TicketInv
  <2>9. CountInv' /\ ActiveInv'
    <3>1. Uncounted' = Uncounted
      BY <1>1, <2>6, <2>7 DEF Uncounted
    <3>2. \A w \in Workers : (pc'[w] \in InDrain <=> pc[w] \in InDrain)
      BY <2>2, <2>3, Distinct
    <3>3. ActiveInv'
      BY <3>2, <1>1, SameDrainers
    <3> QED
      BY <3>1, <3>3, <1>1, <2>1 DEF PoolInv, CountInv
  <2>10. \A d \in Callers : CallerInv(d)'
    <3> TAKE d \in Callers
    <3>1. CASE d = c
      BY <3>1, <1>1, <1>3, <2>1, <2>2, <2>3, <2>5 DEF CallerInv, Holds, Serves, Place
    <3>2. CASE d # c
      BY <3>2, <1>1, <2>1, <2>3, <2>5, Distinct DEF PoolInv, CallerInv, Holds
    <3> QED
      BY <3>1, <3>2
  <2>11. \A w \in Workers : WorkerInv(w)'
    BY <1>1, <2>2, <2>3, Distinct DEF PoolInv, WorkerInv
  <2>12. OutInv'
    <3> SUFFICES ASSUME NEW d \in Callers, NEW i \in 1..Len(asked[d]) PROVE Due(d, i)' \/ Good(d, i)'
      BY <2>1 DEF OutInv
    <3>1. Good(d, i) => Good(d, i)'
      BY <2>1 DEF Good
    <3>2. CASE d = c
      <4>1. Due(c, i) => ticket[c] + 1 < i
        BY <1>1, <2>2, <2>6 DEF Due, Serves, Place, CallerInv, Holds
      <4>2. ticket[c] + 1 < i => Due(c, i)'
        BY <2>2, <2>3, <2>5 DEF Due, Serves
      <4> QED
        BY <3>1, <3>2, <4>1, <4>2 DEF PoolInv, OutInv
    <3>3. CASE d # c
      <4>1. Due(d, i) => Due(d, i)'
        BY <3>3, <1>1, <2>3, <2>5, <2>6, <2>7, Distinct DEF Due
      <4> QED
        BY <3>1, <4>1 DEF PoolInv, OutInv
    <3> QED
      BY <3>2, <3>3
  <2> QED
    BY <2>4, <2>8, <2>9, <2>10, <2>11, <2>12 DEF PoolInv
<1> QED
  BY <1>2, <1>3

-----------------------------------------------------------------------------
(* Pool::drain and Pool::loop *)

LEMMA DrawStep ==
  ASSUME PoolInv, NEW t \in Threads, Draw(t)
  PROVE  PoolInv'
<1> DEFINE place == IF next < chunks THEN "serve" ELSE IF t \in Callers THEN "wait" ELSE "leave"
<1>1. /\ pc[t] = "draw" /\ ticket' = [ticket EXCEPT ![t] = next] /\ next' = next + 1
      /\ pc' = [pc EXCEPT ![t] = place]
      /\ UNCHANGED <<asked, got, aborted, out, caller, job, chunks, remaining, generation>>
      /\ UNCHANGED <<active, seen, work, cache, victim, lookups>>
  BY DEF Draw, At, Goto, interface, cacheVars
<1>2. place \in {"serve", "wait", "leave"} /\ next \in Nat /\ chunks \in Nat
      /\ (place = "serve" <=> next < chunks)
      /\ (t \in Callers => place # "leave") /\ (t \in Workers => place # "wait")
  BY Types, Distinct DEF PoolInv
<1> HIDE DEF place
<1>3. /\ pc'[t] = place /\ ticket'[t] = next
      /\ \A u \in Threads : u # t => pc'[u] = pc[u] /\ ticket'[u] = ticket[u]
      /\ pc' \in [Threads -> Places] /\ ticket' \in [Threads -> Nat]
  BY <1>1, <1>2, Types DEF PoolInv, Places
<1>4. PoolTypeOK' /\ DataInv' /\ (caller = job)' /\ CacheInv'
  BY <1>1, <1>2, <1>3 DEF PoolInv, PoolTypeOK, DataInv, CacheInv
<1>5. \A u \in Threads : (Serial(u)' <=> Serial(u)) /\ (Pooled(u)' <=> Pooled(u))
  BY <1>1 DEF Serial, Pooled
<1>6. t \in Callers => CallerInv(t) /\ ~Serial(t) /\ t \notin Workers
  BY <1>1, Distinct DEF PoolInv, CallerInv
<1>7. ~Claims(t) /\ Pooled(t) /\ (Claims(t)' <=> next < chunks) /\ (t \in Callers => job = t)
  <2>1. Pooled(t)
    BY <1>6, Distinct DEF Pooled
  <2>2. t \in Callers => job = t
    BY <1>1, <1>6 DEF CallerInv, Holds
  <2> QED
    BY <2>1, <2>2, <1>1, <1>2, <1>3, <1>5 DEF Claims, Serves
<1>8. \A u \in Threads : u # t => /\ (Claims(u)' <=> Claims(u))
                                  /\ Place(u)' = Place(u) /\ Id(u)' = Id(u)
  BY <1>1, <1>3, <1>5 DEF Claims, Place, Id
<1>9. TicketInv'
  <2>1. \A u \in Threads : pc'[u] = "fill" => u # t /\ pc[u] = "fill"
    BY <1>2, <1>3
  <2>2. \A u \in Threads : Claims(u) => ticket[u] \in Nat /\ ticket[u] < next /\ ticket[u] < chunks
    BY Types DEF PoolInv, TicketInv
  <2>3. \A u \in Threads : Claims(u)' => ticket'[u] < next' /\ ticket'[u] < chunks'
    <3> TAKE u \in Threads
    <3>1. CASE u = t
      BY <3>1, <1>1, <1>2, <1>3, <1>7
    <3>2. CASE u # t
      BY <3>2, <2>2, <1>1, <1>2, <1>3, <1>8
    <3> QED
      BY <3>1, <3>2
  <2>4. \A u, v \in Threads : Claims(u)' /\ Claims(v)' /\ u # v => ticket'[u] # ticket'[v]
    <3> TAKE u, v \in Threads
    <3>1. CASE u # t /\ v # t
      BY <3>1, <1>3, <1>8 DEF PoolInv, TicketInv
    <3>2. CASE u = t /\ v # t
      BY <3>2, <2>2, <1>2, <1>3, <1>8
    <3>3. CASE u # t /\ v = t
      BY <3>3, <2>2, <1>2, <1>3, <1>8
    <3> QED
      BY <3>1, <3>2, <3>3
  <2> QED
    BY <2>1, <2>3, <2>4, <1>1, <1>8 DEF PoolInv, TicketInv
<1>10. Uncounted' = Uncounted
  <2> SUFFICES ASSUME NEW i \in 1..chunks PROVE i \in Uncounted' <=> i \in Uncounted
    BY <1>1 DEF Uncounted
  <2>1. i \in Uncounted' <=> next + 1 < i \/ \E u \in Threads : Claims(u)' /\ Place(u)' = i
    BY <1>1 DEF Uncounted
  <2>2. i \in Uncounted <=> next < i \/ \E u \in Threads : Claims(u) /\ Place(u) = i
    BY DEF Uncounted
  <2>3. (\E u \in Threads : Claims(u)' /\ Place(u)' = i)
          <=> (i = next + 1 \/ \E u \in Threads : Claims(u) /\ Place(u) = i)
    <3>1. Place(t)' = next + 1 /\ (Claims(t)' <=> next < chunks)
      BY <1>3, <1>7 DEF Place
    <3>2. i = next + 1 => next < chunks
      BY <1>2
    <3> QED
      BY <3>1, <3>2, <1>7, <1>8
  <2> QED
    BY <2>1, <2>2, <2>3, <1>2
<1>11. CountInv' /\ ActiveInv'
  <2>1. \A w \in Workers : (pc'[w] \in InDrain <=> pc[w] \in InDrain)
    BY <1>1, <1>2, <1>3, Distinct DEF InDrain, Draining
  <2>2. ActiveInv'
    BY <2>1, <1>1, SameDrainers
  <2> QED
    BY <2>2, <1>1, <1>10 DEF PoolInv, CountInv
<1>12. \A d \in Callers : CallerInv(d)'
  <2> TAKE d \in Callers
  <2>1. CASE d = t
    BY <2>1, <1>1, <1>2, <1>3, <1>5, <1>6 DEF CallerInv, Holds, Serves
  <2>2. CASE d # t
    BY <2>2, <1>1, <1>3, <1>5, Distinct DEF PoolInv, CallerInv, Holds
  <2> QED
    BY <2>1, <2>2
<1>13. \A w \in Workers : WorkerInv(w)'
  <2> TAKE w \in Workers
  <2>1. w \in Threads /\ WorkerInv(w)
    BY Distinct DEF PoolInv
  <2>2. CASE w = t
    BY <2>1, <2>2, <1>1, <1>2, <1>3 DEF WorkerInv, InDrain, Draining
  <2>3. CASE w # t
    BY <2>1, <2>3, <1>1, <1>3 DEF WorkerInv
  <2> QED
    BY <2>2, <2>3
<1>14. OutInv'
  <2> SUFFICES ASSUME NEW c \in Callers, NEW i \in 1..Len(asked[c]) PROVE Due(c, i)' \/ Good(c, i)'
    BY <1>1 DEF OutInv
  <2>1. Good(c, i) => Good(c, i)'
    BY <1>1 DEF Good
  <2>2. ASSUME Due(c, i) PROVE Due(c, i)'
    <3>1. c \in Threads /\ asked[c] \in Seq(Int)
      BY Distinct DEF PoolInv, DataInv
    <3>2. c = t => ~(pc[c] = "post" \/ pc[c] \in Serves \/ pc[c] = "serial")
      BY <1>1 DEF Serves
    <3>3. CASE job = c /\ next < i
      <4>1. CASE i = next + 1
        <5>1. chunks = Len(asked[c])
          BY <3>3 DEF PoolInv, CountInv
        <5>2. Claims(t)' /\ pc'[t] \in Serves /\ Place(t)' = i
          BY <4>1, <5>1, <3>1, <1>2, <1>3, <1>7 DEF Place, Serves
        <5> QED
          BY <3>3, <5>2, <1>1 DEF Due
      <4>2. CASE i # next + 1
        BY <3>3, <4>2, <1>1, <1>2 DEF Due
      <4> QED
        BY <4>1, <4>2
    <3>4. ASSUME job = c, NEW u \in Threads, Claims(u), pc[u] \in Serves, Place(u) = i
          PROVE  Due(c, i)'
      BY <3>4, <1>1, <1>3, <1>7, <1>8 DEF Due
    <3>5. CASE pc[c] = "post" \/ (Serial(c) /\ pc[c] \in Serves /\ ticket[c] < i)
               \/ (pc[c] = "serial" /\ Place(c) < i)
      BY <3>1, <3>2, <3>5, <1>1, <1>3, <1>5, <1>8 DEF Due
    <3> QED
      BY <2>2, <3>3, <3>4, <3>5 DEF Due
  <2> QED
    BY <2>1, <2>2 DEF PoolInv, OutInv
<1> QED
  BY <1>4, <1>9, <1>11, <1>12, <1>13, <1>14 DEF PoolInv

LEMMA CountStep ==
  ASSUME PoolInv, NEW t \in Threads, Count(t)
  PROVE  PoolInv'
<1> DEFINE place == IF remaining = 1 THEN "tell" ELSE "draw"
<1>1. /\ pc[t] = "count" /\ remaining' = remaining - 1 /\ pc' = [pc EXCEPT ![t] = place]
      /\ UNCHANGED <<asked, got, aborted, out, caller, job, next, chunks, generation>>
      /\ UNCHANGED <<active, seen, work, ticket, cache, victim, lookups>>
  BY DEF Count, At, Goto, interface, cacheVars
<1>2. place \in {"tell", "draw"}
  OBVIOUS
<1> HIDE DEF place
<1>3. /\ pc'[t] = place /\ \A u \in Threads : u # t => pc'[u] = pc[u]
      /\ pc' \in [Threads -> Places]
  BY <1>1, <1>2, Types DEF PoolInv, Places
<1>4. \A u \in Threads : /\ (Serial(u)' <=> Serial(u)) /\ (Pooled(u)' <=> Pooled(u))
                         /\ Place(u)' = Place(u) /\ Id(u)' = Id(u)
                         /\ (pc'[u] \in InDrain <=> pc[u] \in InDrain)
                         /\ (pc'[u] \in Serves <=> pc[u] \in Serves)
  BY <1>1, <1>2, <1>3 DEF Serial, Pooled, Place, Id, InDrain, Draining, Serves
<1>5. t \in Callers => CallerInv(t) /\ ~Serial(t) /\ t \notin Workers /\ job = t
  BY <1>1, Distinct DEF PoolInv, CallerInv, Holds
<1>6. Claims(t) /\ ~Claims(t)' /\ job \in Callers
  <2>1. t \in Workers => job \in Callers
    BY <1>1 DEF PoolInv, WorkerInv, InDrain, Draining
  <2> QED
    BY <2>1, <1>1, <1>2, <1>3, <1>5, Distinct DEF Claims, Pooled, Serves
<1>7. \A u \in Threads : u # t => (Claims(u)' <=> Claims(u))
  BY <1>3, <1>4 DEF Claims
<1>8. /\ remaining = Cardinality(Uncounted) /\ Place(t) \in Uncounted /\ Uncounted' = Uncounted \ {Place(t)}
      /\ remaining' = Cardinality(Uncounted') /\ remaining' \in Nat
  <2>1. ticket[t] \in Nat /\ ticket[t] < next /\ ticket[t] < chunks
        /\ next \in Nat /\ chunks \in Nat
    BY <1>6, Types DEF PoolInv, TicketInv
  <2>2. Place(t) \in 1..chunks /\ ~(next < Place(t)) /\ Place(t) \in Uncounted
    BY <2>1, <1>6 DEF Place, Uncounted
  <2>3. \A u \in Threads : u # t /\ Claims(u) => Place(u) # Place(t)
    <3> SUFFICES ASSUME NEW u \in Threads, u # t, Claims(u) PROVE Place(u) # Place(t)
      OBVIOUS
    <3>1. ticket[u] # ticket[t] /\ ticket[u] \in Nat
      BY <1>6, Types DEF PoolInv, TicketInv
    <3> QED
      BY <3>1, <2>1 DEF Place
  <2>4. Uncounted' = Uncounted \ {Place(t)}
    <3> SUFFICES ASSUME NEW i \in 1..chunks
                 PROVE  i \in Uncounted' <=> i \in Uncounted /\ i # Place(t)
      BY <1>1 DEF Uncounted
    <3>1. i \in Uncounted' <=> next < i \/ \E u \in Threads : Claims(u)' /\ Place(u)' = i
      BY <1>1 DEF Uncounted
    <3>2. i \in Uncounted <=> next < i \/ \E u \in Threads : Claims(u) /\ Place(u) = i
      BY DEF Uncounted
    <3>3. i # Place(t) =>
            ((\E u \in Threads : Claims(u)' /\ Place(u)' = i) <=> (\E u \in Threads : Claims(u) /\ Place(u) = i))
      BY <1>4, <1>6, <1>7
    <3>4. i = Place(t) => ~\E u \in Threads : Claims(u)' /\ Place(u)' = i
      BY <1>4, <1>6, <1>7, <2>3
    <3> QED
      BY <3>1, <3>2, <3>3, <3>4, <2>2
  <2>5. remaining = Cardinality(Uncounted)
    BY <1>6 DEF PoolInv, CountInv
  <2>6. Cardinality(Uncounted') = Cardinality(Uncounted) - 1 /\ IsFiniteSet(Uncounted')
    BY <2>2, <2>4, Finite, FS_RemoveElement DEF PoolInv
  <2>7. Cardinality(Uncounted') \in Nat
    BY <2>6, FS_CardinalityType
  <2> QED
    BY <2>2, <2>4, <2>5, <2>6, <2>7, <1>1
<1>9. PoolTypeOK' /\ DataInv' /\ (caller = job)' /\ CacheInv'
  BY <1>1, <1>3, <1>8 DEF PoolInv, PoolTypeOK, DataInv, CacheInv
<1>10. TicketInv'
  <2>1. \A u \in Threads : Claims(u)' => Claims(u)
    BY <1>6, <1>7
  <2>2. \A u \in Threads : pc'[u] = "fill" => pc[u] = "fill"
    BY <1>2, <1>3
  <2> QED
    BY <2>1, <2>2, <1>1, <1>4 DEF PoolInv, TicketInv
<1>11. CountInv'
  BY <1>1, <1>6, <1>8 DEF PoolInv, CountInv
<1>12. ActiveInv'
  BY <1>1, <1>4, SameDrainers, Distinct
<1>13. \A d \in Callers : CallerInv(d)'
  <2> TAKE d \in Callers
  <2>1. CASE d = t
    BY <2>1, <1>1, <1>2, <1>3, <1>4, <1>5 DEF CallerInv, Holds, Serves
  <2>2. CASE d # t
    BY <2>2, <1>1, <1>3, <1>4, Distinct DEF PoolInv, CallerInv, Holds
  <2> QED
    BY <2>1, <2>2
<1>14. \A w \in Workers : WorkerInv(w)'
  BY <1>1, <1>3, <1>4, Distinct, <1>2 DEF PoolInv, WorkerInv, InDrain, Draining
<1>15. OutInv'
  <2> SUFFICES ASSUME NEW c \in Callers, NEW i \in 1..Len(asked[c]) PROVE Due(c, i)' \/ Good(c, i)'
    BY <1>1 DEF OutInv
  <2>1. Good(c, i) => Good(c, i)'
    BY <1>1 DEF Good
  <2>2. Due(c, i) => Due(c, i)'
    <3>1. c \in Threads /\ (c = t => ~(pc[c] = "post" \/ pc[c] \in Serves \/ pc[c] = "serial"))
      BY <1>1, Distinct DEF Serves
    <3>2. \A u \in Threads : Claims(u) /\ pc[u] \in Serves => Claims(u)' /\ pc'[u] \in Serves
      BY <1>1, <1>4, <1>7 DEF Serves
    <3> QED
      BY <3>1, <3>2, <1>1, <1>3, <1>4 DEF Due
  <2> QED
    BY <2>1, <2>2 DEF PoolInv, OutInv
<1> QED
  BY <1>9, <1>10, <1>11, <1>12, <1>13, <1>14, <1>15 DEF PoolInv

LEMMA TellStep ==
  ASSUME PoolInv, NEW t \in Threads, Tell(t)
  PROVE  PoolInv'
<1>1. /\ pc[t] = "tell" /\ UNCHANGED <<interface, out, poolVars, ticket, cacheVars, lookups>>
      /\ pc' = [u \in Threads |-> IF u = t THEN "draw"
                                  ELSE IF u \in Callers /\ pc[u] = "asleep" THEN "wait" ELSE pc[u]]
  BY DEF Tell, At, NotifyDone
<1>2. Wakes(t, "draw")
  BY <1>1, Types, Distinct DEF Wakes, Places, PoolInv
<1>3. /\ UNCHANGED <<caller, job, next, chunks, remaining, work>> /\ active' = active
      /\ generation' \in Nat /\ seen' \in [Workers -> Nat] /\ active' \in Nat
  BY <1>1, Types DEF PoolInv, poolVars
<1>4. \A w \in Workers : (pc'[w] \in InDrain <=> pc[w] \in InDrain)
  BY <1>1, Distinct DEF InDrain, Draining
<1>5. ActiveInv'
  BY <1>3, <1>4, SameDrainers
<1> QED
  BY <1>1, <1>2, <1>3, <1>5, Waking DEF PoolInv

LEMMA LeaveStep ==
  ASSUME PoolInv, NEW w \in Workers, Leave(w)
  PROVE  PoolInv'
<1>1. /\ pc[w] = "leave" /\ active' = active - 1
      /\ UNCHANGED <<interface, out, caller, job, next, chunks, remaining, ticket, cacheVars, lookups>>
      /\ UNCHANGED <<work, generation, seen>>
      /\ pc' = [u \in Threads |-> IF u = w THEN "loop"
                                  ELSE IF u \in Callers /\ pc[u] = "asleep" THEN "wait" ELSE pc[u]]
  BY DEF Leave, At, NotifyDone
<1>2. w \in Threads
  BY Distinct
<1>3. Wakes(w, "loop")
  BY <1>1, <1>2, Types, Distinct DEF Wakes, Places, PoolInv
<1>4. w \in Drainers /\ Drainers' = Drainers \ {w}
  <2>1. \A u \in Workers : pc'[u] \in InDrain <=> pc[u] \in InDrain /\ u # w
    BY <1>1, Distinct DEF InDrain, Draining
  <2>2. pc[w] \in InDrain
    BY <1>1 DEF InDrain
  <2> QED
    BY <2>1, <2>2 DEF Drainers
<1>5. IsFiniteSet(Drainers') /\ Cardinality(Drainers') = Cardinality(Drainers) - 1
  BY <1>4, Finite, FS_RemoveElement DEF PoolInv
<1>6. ActiveInv' /\ active' \in Nat
  BY <1>1, <1>5, FS_CardinalityType DEF PoolInv, ActiveInv
<1>7. generation' \in Nat /\ seen' \in [Workers -> Nat]
  BY <1>1, Types DEF PoolInv
<1> QED
  BY <1>1, <1>2, <1>3, <1>6, <1>7, Waking DEF PoolInv

LEMMA LoopStep ==
  ASSUME PoolInv, NEW w \in Workers, Loop(w)
  PROVE  PoolInv'
<1>1. /\ pc[w] = "loop"
      /\ UNCHANGED <<interface, out, caller, job, next, chunks, remaining, generation>>
      /\ UNCHANGED <<ticket, cacheVars, lookups>>
  BY DEF Loop, At
<1>2. w \in Threads /\ w \notin Callers
  BY Distinct
<1>3. CASE generation = seen[w]
  <2>1. pc' = [pc EXCEPT ![w] = "asleep"] /\ UNCHANGED <<seen, work, active>>
    BY <1>3 DEF Loop, Goto
  <2>2. Wakes(w, "asleep")
    BY <2>1, <1>2, Types DEF Wakes, Places, PoolInv
  <2>3. \A u \in Workers : (pc'[u] \in InDrain <=> pc[u] \in InDrain)
    BY <2>1, <1>1, <1>2, Types, Distinct DEF InDrain, Draining, PoolInv
  <2>4. ActiveInv' /\ generation' \in Nat /\ seen' \in [Workers -> Nat] /\ active' \in Nat
    BY <2>1, <2>3, <1>1, SameDrainers, Types DEF PoolInv
  <2> QED
    BY <1>1, <1>2, <2>1, <2>2, <2>4, Waking DEF PoolInv
<1>4. CASE generation # seen[w]
  <2>1. seen' = [seen EXCEPT ![w] = generation] /\ work' = [work EXCEPT ![w] = job]
        /\ IF job = NoJob THEN UNCHANGED <<pc, active>>
           ELSE active' = active + 1 /\ pc' = [pc EXCEPT ![w] = "draw"]
    BY <1>4 DEF Loop, Goto
  <2>2. /\ UNCHANGED <<asked, got, aborted, out, caller, job, next, chunks, remaining, generation>>
        /\ UNCHANGED <<ticket, cache, victim, lookups>>
    BY <1>1 DEF interface, cacheVars
  <2>3. /\ pc'[w] = (IF job = NoJob THEN "loop" ELSE "draw") /\ work'[w] = job
        /\ \A u \in Threads : u # w => pc'[u] = pc[u] /\ work'[u] = work[u]
        /\ pc' \in [Threads -> Places] /\ work' \in [Threads -> Callers \cup {NoJob}]
        /\ seen' \in [Workers -> Nat]
    BY <2>1, <1>1, <1>2, Types DEF PoolInv, Places
  <2>4. ActiveInv' /\ active' \in Nat
    <3>1. CASE job = NoJob
      <4>1. active' = active /\ \A u \in Workers : (pc'[u] \in InDrain <=> pc[u] \in InDrain)
        BY <3>1, <2>1
      <4> QED
        BY <4>1, SameDrainers, Types DEF PoolInv
    <3>2. CASE job # NoJob
      <4>1. \A u \in Workers : pc'[u] \in InDrain <=> pc[u] \in InDrain \/ u = w
        BY <3>2, <2>3, Distinct DEF InDrain, Draining
      <4>2. Drainers' = Drainers \cup {w} /\ w \notin Drainers
        BY <4>1, <1>1 DEF Drainers, InDrain, Draining
      <4>3. Cardinality(Drainers') = Cardinality(Drainers) + 1
        BY <4>2, Finite, FS_AddElement DEF PoolInv
      <4> QED
        BY <4>3, <3>2, <2>1, Types DEF PoolInv, ActiveInv
    <3> QED
      BY <3>1, <3>2
  <2>5. PoolTypeOK' /\ DataInv' /\ (caller = job)' /\ CacheInv'
    BY <2>2, <2>3, <2>4 DEF PoolInv, PoolTypeOK, DataInv, CacheInv
  <2>6. \A u \in Threads : /\ (pc'[u] \in Serves \cup {"count"} <=> pc[u] \in Serves \cup {"count"})
                           /\ (pc'[u] \in Serves <=> pc[u] \in Serves)
                           /\ (Claims(u)' <=> Claims(u)) /\ Place(u)' = Place(u)
                           /\ (Serial(u)' <=> Serial(u))
    <3>1. pc'[w] \notin Serves \cup {"count"} /\ pc[w] \notin Serves \cup {"count"}
      BY <2>3, <1>1 DEF Serves
    <3> QED
      BY <3>1, <2>2, <2>3 DEF Claims, Pooled, Serial, Place
  <2>7. TicketInv'
    <3>1. \A u \in Threads : pc'[u] = "fill" => u # w /\ pc[u] = "fill" /\ Id(u)' = Id(u)
      BY <2>2, <2>3 DEF Id, Place
    <3> QED
      BY <3>1, <2>2, <2>6 DEF PoolInv, TicketInv
  <2>8. CountInv'
    <3>1. Uncounted' = Uncounted
      BY <2>2, <2>6 DEF Uncounted
    <3> QED
      BY <3>1, <2>2 DEF PoolInv, CountInv
  <2>9. \A d \in Callers : CallerInv(d)'
    <3> TAKE d \in Callers
    <3>1. d \in Threads /\ d # w /\ pc'[d] = pc[d] /\ work'[d] = work[d] /\ CallerInv(d)
      BY <1>2, <2>3, Distinct DEF PoolInv
    <3> QED
      BY <3>1, <2>2, <2>6 DEF CallerInv, Holds
  <2>10. \A u \in Workers : WorkerInv(u)'
    <3> TAKE u \in Workers
    <3>1. CASE u = w
      BY <3>1, <2>2, <2>3, Types DEF WorkerInv, InDrain, Draining, PoolInv
    <3>2. CASE u # w
      BY <3>2, <2>2, <2>3, Distinct DEF PoolInv, WorkerInv
    <3> QED
      BY <3>1, <3>2
  <2>11. OutInv'
    <3> SUFFICES ASSUME NEW c \in Callers, NEW i \in 1..Len(asked[c]) PROVE Due(c, i)' \/ Good(c, i)'
      BY <2>2 DEF OutInv
    <3>1. Good(c, i) => Good(c, i)'
      BY <2>2 DEF Good
    <3>2. c \in Threads /\ c # w /\ pc'[c] = pc[c]
      BY <1>2, <2>3, Distinct
    <3>3. Due(c, i) => Due(c, i)'
      BY <3>2, <2>2, <2>6 DEF Due
    <3> QED
      BY <3>1, <3>3 DEF PoolInv, OutInv
  <2> QED
    BY <2>4, <2>5, <2>7, <2>8, <2>9, <2>10, <2>11 DEF PoolInv
<1> QED
  BY <1>3, <1>4

-----------------------------------------------------------------------------
(* The theorems *)

LEMMA PoolInitially ==
  ASSUME Init
  PROVE  PoolInv
<1>1. /\ asked = [c \in Callers |-> <<>>] /\ got = [c \in Callers |-> <<>>] /\ aborted = FALSE
      /\ out = [c \in Callers |-> <<>>]
      /\ pc = [t \in Threads |-> IF t \in Callers THEN "idle" ELSE "loop"]
      /\ caller = NoJob /\ job = NoJob
      /\ next = 0 /\ chunks = 0 /\ remaining = 0 /\ generation = 0 /\ active = 0
      /\ seen = [w \in Workers |-> 0] /\ work = [t \in Threads |-> NoJob]
      /\ ticket = [t \in Threads |-> 0]
      /\ cache = [s \in 0..Sets-1 |-> [w \in 0..Ways-1 |-> NoSlot]]
      /\ victim = [s \in 0..Sets-1 |-> 0] /\ lookups = 0
  BY DEF Init, RL!LookupInit
<1>2. \A t \in Threads : ~Claims(t) /\ pc[t] \in {"idle", "loop"}
  BY <1>1 DEF Claims, Serves
<1>3. PoolTypeOK
  <2>1. victim \in [0..Sets-1 -> 0..Ways-1] /\ lookups \in 0..MaxLookups
    BY <1>1, Distinct
  <2>2. pc \in [Threads -> Places]
    BY <1>1 DEF Places
  <2>3. /\ {next, chunks, remaining, generation} \subseteq Nat /\ active \in Nat
        /\ seen \in [Workers -> Nat] /\ ticket \in [Threads -> Nat]
        /\ work \in [Threads -> Callers \cup {NoJob}]
    BY <1>1
  <2> QED
    BY <2>1, <2>2, <2>3, <1>1 DEF PoolTypeOK
<1>4. DataInv
  <2>1. NoSlot \in [key : Nat, row : Int] /\ <<>> \in Seq(Int) /\ <<>> \in [1..Len(<<>>) -> Int]
    BY DEF NoSlot, Zeros, RL!Zeros
  <2>2. cache \in [0..Sets-1 -> [0..Ways-1 -> [key : Nat, row : Int]]]
    BY <2>1, <1>1
  <2>3. asked \in [Callers -> Seq(Int)] /\ DOMAIN got = Callers /\ DOMAIN out = Callers
    BY <2>1, <1>1
  <2>4. \A c \in Callers : out[c] \in [1..Len(asked[c]) -> Int]
    BY <2>1, <1>1
  <2> QED
    BY <2>2, <2>3, <2>4 DEF DataInv
<1>5. CacheInv /\ TicketInv /\ CountInv
  BY <1>1, <1>2, Distinct DEF CacheInv, TicketInv, CountInv, NoSlot
<1>6. ActiveInv
  <2>1. Drainers = {}
    BY <1>2, Distinct DEF Drainers, InDrain, Draining
  <2> QED
    BY <2>1, <1>1, FS_EmptySet DEF ActiveInv
<1>7. OutInv
  BY <1>1 DEF OutInv
<1>8. \A c \in Callers : CallerInv(c)
  BY <1>1, Distinct DEF CallerInv, Holds, Serves
<1>9. \A w \in Workers : WorkerInv(w)
  BY <1>1, Distinct DEF WorkerInv, InDrain, Draining
<1> QED
  BY <1>1, <1>3, <1>4, <1>5, <1>6, <1>7, <1>8, <1>9 DEF PoolInv

LEMMA PoolStutters ==
  ASSUME PoolInv, UNCHANGED vars
  PROVE  PoolInv'
<1>1. /\ UNCHANGED <<asked, got, aborted, out, pc, caller, job, next, chunks, remaining>>
      /\ UNCHANGED <<generation, active, seen, work, ticket, cache, victim, lookups>>
  BY DEF vars, interface, poolVars, cacheVars
<1>2. PoolTypeOK' /\ DataInv' /\ (caller = job)' /\ CacheInv'
  BY <1>1 DEF PoolInv, PoolTypeOK, DataInv, CacheInv
<1>3. \A u \in Threads : (Claims(u)' <=> Claims(u)) /\ Place(u)' = Place(u) /\ Id(u)' = Id(u)
  BY <1>1 DEF Claims, Pooled, Serial, Place, Id
<1>4. TicketInv' /\ CountInv' /\ ActiveInv'
  <2>1. Uncounted' = Uncounted /\ Drainers' = Drainers
    BY <1>1, <1>3 DEF Uncounted, Drainers
  <2> QED
    BY <2>1, <1>1, <1>3 DEF PoolInv, TicketInv, CountInv, ActiveInv
<1>5. (\A c \in Callers : CallerInv(c)') /\ (\A w \in Workers : WorkerInv(w)')
  BY <1>1 DEF PoolInv, CallerInv, Holds, Serial, WorkerInv
<1>6. OutInv'
  BY <1>1, <1>3, Distinct DEF PoolInv, OutInv, Due, Good, Serial
<1> QED
  BY <1>2, <1>4, <1>5, <1>6 DEF PoolInv

\* What the threads of the store do keeps what the counters, the tickets and the
\* cache say of each other.
LEMMA PoolSteps ==
  ASSUME PoolInv, [Next]_vars
  PROVE  PoolInv'
<1>1. ASSUME NEW t \in Threads, Works(t) PROVE PoolInv'
  BY <1>1, DrawStep, ServeZerosStep, ServeAbortsStep, ServeHitStep, ServeMissStep, FillStep,
     CountStep, TellStep DEF Works
<1>2. ASSUME NEW c \in Callers, Lookup(c) \/ CallerStep(c) PROVE PoolInv'
  <2>1. c \in Threads
    BY Distinct
  <2> QED
    BY <1>1, <1>2, <2>1, LookupStep, PostStep, NotifyAllStep, SerialNextStep, WaitStep DEF CallerStep
<1>3. ASSUME NEW w \in Workers, WorkerStep(w) PROVE PoolInv'
  <2>1. w \in Threads
    BY Distinct
  <2> QED
    BY <1>1, <1>3, <2>1, LoopStep, LeaveStep DEF WorkerStep
<1> QED
  BY <1>2, <1>3, PoolStutters DEF Next

\* PoolInv holds in every state of the store: the counters of the pool are the
\* numbers of chunks uncounted and of workers in drain(), no two threads serve
\* one chunk, the cache keeps rows under their keys, what is served is exact.
THEOREM PoolInvariant == Spec => []PoolInv
<1>1. Init => PoolInv
  BY PoolInitially
<1>2. PoolInv /\ [Next]_vars => PoolInv'
  BY PoolSteps
<1> QED
  BY <1>1, <1>2, PTL DEF Spec

\* The state of the store is well typed: remaining_ and active_ never run below
\* zero, and a set's cursor stays among its ways.
THEOREM PoolTypes == Spec => []PoolTypeOK
<1>1. PoolInv => PoolTypeOK
  BY DEF PoolInv
<1> QED
  BY <1>1, PoolInvariant, PTL

\* A worker in drain() is on the Work that is posted, whose caller holds caller_.
THEOREM PoolWorkIsLive == Spec => []WorkIsLive
<1>1. PoolInv => WorkIsLive
  BY DEF PoolInv, WorkIsLive, WorkerInv, InDrain
<1> QED
  BY <1>1, PoolInvariant, PTL

-----------------------------------------------------------------------------
(* The store implements RowLookup. *)

\* What a lookup returns is the sequence of rows it promises.
LEMMA Answering ==
  ASSUME PoolInv, NEW c \in Callers, Return(c), ~aborted, pc[c] # "idle",
         \A i \in 1..Len(asked[c]) : Good(c, i)
  PROVE  RL!Answer(c)
<1>1. asked[c] # <<>> /\ out[c] \in [1..Len(asked[c]) -> Int]
  BY DEF PoolInv, CallerInv, DataInv
<1>2. out[c] = RL!Exact(asked[c])
  <2>1. RL!Exact(asked[c]) = [i \in 1..Len(asked[c]) |-> IF asked[c][i] \in Owned THEN asked[c][i] ELSE Zeros]
    BY DEF RL!Exact, RL!Row, Zeros
  <2>2. \A i \in 1..Len(asked[c]) :
          out[c][i] = IF asked[c][i] \in Owned THEN asked[c][i] ELSE Zeros
    BY DEF Good
  <2> HIDE DEF Zeros
  <2> QED
    BY <1>1, <2>1, <2>2
<1>3. \A i \in 1..Len(asked[c]) : ~RL!OutOfBounds(asked[c][i])
  <2>1. \A i \in 1..Len(asked[c]) : asked[c][i] \in Int
    BY DEF PoolInv, DataInv
  <2> QED
    BY <2>1, Distinct DEF Good, RL!OutOfBounds
<1> QED
  BY <1>1, <1>2, <1>3 DEF Return, RL!Answer

LEMMA WorksImplement ==
  ASSUME PoolInv, NEW t \in Threads, Works(t)
  PROVE  [RL!LookupNext]_(RL!lookupVars)
<1>1. ASSUME ServeAborts(t) PROVE RL!LookupNext
  <2>1. work[t] \in Callers /\ Place(t) \in 1..Len(asked[work[t]]) /\ RL!OutOfBounds(asked[work[t]][Place(t)])
    BY <1>1, Serving DEF ServeAborts, At, Serves, Id
  <2>2. aborted' = TRUE /\ UNCHANGED <<asked, got>>
    BY <1>1 DEF ServeAborts
  <2> QED
    BY <2>1, <2>2 DEF RL!LookupNext, RL!Abort
<1>2. ASSUME ~ServeAborts(t) PROVE UNCHANGED RL!lookupVars
  BY <1>2 DEF Works, Draw, ServeZeros, ServeHit, ServeMiss, Fill, Count, Tell, interface, RL!lookupVars
<1> QED
  BY <1>1, <1>2

LEMMA PoolImplements ==
  ASSUME PoolInv, [Next]_vars
  PROVE  [RL!LookupNext]_(RL!lookupVars)
<1>1. ASSUME NEW c \in Callers, Lookup(c) PROVE RL!LookupNext
  <2>1. ~aborted /\ asked[c] = <<>> /\ UNCHANGED <<got, aborted>>
    BY <1>1 DEF Lookup, At, PoolInv, CallerInv
  <2>2. \E s \in Inputs : asked' = [asked EXCEPT ![c] = s]
    BY <1>1 DEF Lookup
  <2> QED
    BY <2>1, <2>2 DEF RL!LookupNext, RL!AskFor
<1>2. ASSUME NEW c \in Callers, Wait(c) PROVE [RL!LookupNext]_(RL!lookupVars)
  <2>1. CASE remaining = 0 /\ active = 0
    <3>1. Return(c) /\ ~aborted /\ pc[c] = "wait"
      BY <1>2, <2>1 DEF Wait, At
    <3>2. RL!Answer(c)
      BY <2>1, <3>1, Finished, Answering
    <3> QED
      BY <3>2 DEF RL!LookupNext
  <2>2. CASE ~(remaining = 0 /\ active = 0)
    BY <1>2, <2>2 DEF Wait, interface, RL!lookupVars
  <2> QED
    BY <2>1, <2>2
<1>3. ASSUME NEW c \in Callers, SerialNext(c) PROVE [RL!LookupNext]_(RL!lookupVars)
  <2>1. CASE ~(Place(c) < Len(asked[c]))
    <3>1. Return(c) /\ ~aborted /\ pc[c] = "serial"
      BY <1>3, <2>1 DEF SerialNext, At
    <3>2. RL!Answer(c)
      BY <2>1, <3>1, FinishedAlone, Answering
    <3> QED
      BY <3>2 DEF RL!LookupNext
  <2>2. CASE Place(c) < Len(asked[c])
    BY <1>3, <2>2 DEF SerialNext, interface, RL!lookupVars
  <2> QED
    BY <2>1, <2>2
<1>4. ASSUME NEW c \in Callers, Post(c) \/ NotifyAll(c) PROVE UNCHANGED RL!lookupVars
  BY <1>4 DEF Post, NotifyAll, interface, RL!lookupVars
<1>5. ASSUME NEW w \in Workers, Loop(w) \/ Leave(w) PROVE UNCHANGED RL!lookupVars
  BY <1>5 DEF Loop, Leave, interface, RL!lookupVars
<1>6. ASSUME UNCHANGED vars PROVE UNCHANGED RL!lookupVars
  BY <1>6 DEF vars, interface, RL!lookupVars
<1>7. ASSUME NEW c \in Callers, Lookup(c) \/ CallerStep(c) PROVE [RL!LookupNext]_(RL!lookupVars)
  <2>1. c \in Threads
    BY Distinct
  <2> QED
    BY <1>1, <1>2, <1>3, <1>4, <1>7, <2>1, WorksImplement DEF CallerStep
<1>8. ASSUME NEW w \in Workers, WorkerStep(w) PROVE [RL!LookupNext]_(RL!lookupVars)
  <2>1. w \in Threads
    BY Distinct
  <2> QED
    BY <1>5, <1>8, <2>1, WorksImplement DEF WorkerStep
<1> QED
  BY <1>6, <1>7, <1>8 DEF Next

\* The store implements RowLookup: every lookup that returns has returned exactly
\* the rows asked for, and one with an ID beyond the table never returns.
THEOREM PoolIsExact == Spec => LookupIsExact
<1>1. Init => RL!LookupInit
  BY DEF Init
<1>2. PoolInv /\ [Next]_vars => [RL!LookupNext]_(RL!lookupVars)
  BY PoolImplements
<1> QED
  BY <1>1, <1>2, PoolInvariant, PTL DEF Spec, LookupIsExact, RL!LookupSpec


-----------------------------------------------------------------------------
(* No wakeup is lost. *)

\* A caller waits for its workers only when every chunk is drawn, and sleeps only
\* while a worker that will notify it is in drain().
WakeInv ==
  \A c \in Callers : /\ pc[c] \in {"wait", "asleep"} => chunks <= next
                     /\ pc[c] = "asleep" => Drainers # {}

\* The thread is where it need not wait for another: unless the process has
\* aborted, just when a step of a caller, or of a worker in drain(), is enabled.
Moves(t) ==
  \/ pc[t] \in InDrain \cup {"wake", "wait", "serial"}
  \/ pc[t] = "post" /\ caller = NoJob

\* While a lookup is unanswered, its caller, the holder of caller_ or a worker of
\* the posted job can step.
NeverStuck ==
  \A c \in Callers : asked[c] # <<>> => aborted \/ \E t \in (Workers \cup {c, caller}) \ {NoJob} : Moves(t)

\* Where a caller is that has nothing left to draw.
Waits == {"wait", "asleep"}

\* A caller comes to its wait by drawing in vain, and back to it by being woken;
\* it falls asleep by a test of its predicate that fails.
LEMMA WhoWaits ==
  ASSUME PoolInv, [Next]_vars, NEW c \in Callers, pc'[c] \in Waits
  PROVE  Draw(c) \/ Wait(c) \/ pc[c] = "asleep" \/ (pc[c] = "wait" /\ pc'[c] = "wait")
<1> DEFINE Stood == pc[c] = "asleep" \/ (pc[c] = "wait" /\ pc'[c] = "wait")
<1>1. c \in Threads /\ c \notin Workers /\ pc \in [Threads -> Places]
  BY Distinct, Types DEF PoolInv
<1>2. ASSUME NEW t \in Threads, Works(t), ~Draw(c)
      PROVE  Stood
  <2>1. ASSUME NEW place \in Places \ Waits, pc' = [pc EXCEPT ![t] = place]
        PROVE  Stood
    BY <1>1, <2>1 DEF Waits
  <2>2. CASE Draw(t)
    <3>1. t # c
      BY <1>2, <2>2
    <3> QED
      BY <1>1, <2>2, <3>1 DEF Draw, Goto, Waits
  <2>3. ASSUME NEW row, Put(t, row)
        PROVE  Stood
    BY <2>1, <2>3 DEF Put, Placed, Goto, Places, Waits
  <2>4. CASE ServeZeros(t)
    BY <2>3, <2>4 DEF ServeZeros
  <2>5. CASE ServeAborts(t)
    BY <2>5 DEF ServeAborts, Waits
  <2>6. CASE ServeHit(t)
    BY <2>3, <2>6 DEF ServeHit
  <2>7. CASE ServeMiss(t)
    BY <2>1, <2>7 DEF ServeMiss, Goto, Places, Waits
  <2>8. CASE Fill(t)
    BY <2>3, <2>8 DEF Fill
  <2>9. CASE Count(t)
    BY <2>1, <2>9 DEF Count, Goto, Places, Waits
  <2>10. CASE Tell(t)
    BY <1>1, <2>10 DEF Tell, NotifyDone, Waits
  <2> QED
    BY <1>2, <2>2, <2>4, <2>5, <2>6, <2>7, <2>8, <2>9, <2>10 DEF Works
<1>3. ASSUME NEW d \in Callers, Lookup(d) \/ Post(d) \/ NotifyAll(d) \/ SerialNext(d)
      PROVE  Stood
  <2>1. ASSUME NEW place \in Places \ Waits, pc' = [pc EXCEPT ![d] = place]
        PROVE  Stood
    BY <1>1, <2>1 DEF Waits
  <2>2. CASE Lookup(d)
    <3>1. PICK s \in Inputs : Goto(d, IF Len(s) < SerialBelow THEN "serve" ELSE "post")
      BY <2>2 DEF Lookup
    <3> QED
      BY <2>1, <3>1 DEF Goto, Places, Waits
  <2>3. CASE Post(d)
    BY <2>1, <2>3 DEF Post, Goto, Places, Waits
  <2>4. CASE NotifyAll(d)
    BY <1>1, <2>4 DEF NotifyAll, Waits
  <2>5. CASE SerialNext(d)
    BY <2>1, <2>5 DEF SerialNext, Goto, Return, Places, Waits
  <2> QED
    BY <1>3, <2>2, <2>3, <2>4, <2>5
<1>4. ASSUME NEW d \in Callers, Wait(d), d # c
      PROVE  Stood
  BY <1>1, <1>4 DEF Wait, Return, Goto, Waits
<1>5. ASSUME NEW w \in Workers, Loop(w) \/ Leave(w)
      PROVE  Stood
  <2>1. CASE Loop(w)
    BY <1>1, <2>1 DEF Loop, Goto, Waits
  <2>2. CASE Leave(w)
    BY <1>1, <2>2 DEF Leave, NotifyDone, Waits
  <2> QED
    BY <1>5, <2>1, <2>2
<1>6. CASE UNCHANGED vars
  BY <1>6 DEF vars, Waits
<1> QED
  BY <1>1, <1>2, <1>3, <1>4, <1>5, <1>6, Distinct DEF Next, CallerStep, WorkerStep

\* The last worker to leave drain() wakes whoever sleeps.
LEMMA WhoLeaves ==
  ASSUME PoolInv, [Next]_vars, NEW w \in Workers, pc[w] \in InDrain, pc'[w] \notin InDrain
  PROVE  \A c \in Callers : pc'[c] # "asleep"
<1>1. w \in Threads /\ w \notin Callers /\ pc \in [Threads -> Places]
  BY Distinct, Types DEF PoolInv
<1>2. ASSUME NEW t \in Threads, Works(t)
      PROVE  FALSE
  <2>1. ASSUME NEW place \in Places, pc' = [pc EXCEPT ![t] = place],
               t \in Workers => place \in InDrain
        PROVE  FALSE
    BY <1>1, <2>1
  <2>2. CASE Draw(t)
    BY <2>1, <2>2, Distinct DEF Draw, Goto, Places, InDrain, Draining
  <2>3. ASSUME NEW row, Put(t, row)
        PROVE  FALSE
    BY <2>1, <2>3, Distinct DEF Put, Placed, Goto, Places, InDrain, Draining
  <2>4. CASE ServeZeros(t)
    BY <2>3, <2>4 DEF ServeZeros
  <2>5. CASE ServeAborts(t)
    BY <2>5 DEF ServeAborts
  <2>6. CASE ServeHit(t)
    BY <2>3, <2>6 DEF ServeHit
  <2>7. CASE ServeMiss(t)
    BY <2>1, <2>7 DEF ServeMiss, Goto, Places, InDrain, Draining
  <2>8. CASE Fill(t)
    BY <2>3, <2>8 DEF Fill
  <2>9. CASE Count(t)
    BY <2>1, <2>9 DEF Count, Goto, Places, InDrain, Draining
  <2>10. CASE Tell(t)
    BY <1>1, <2>10 DEF Tell, NotifyDone, InDrain, Draining
  <2> QED
    BY <1>2, <2>2, <2>4, <2>5, <2>6, <2>7, <2>8, <2>9, <2>10 DEF Works
<1>3. ASSUME NEW d \in Callers, Lookup(d) \/ Post(d) \/ NotifyAll(d) \/ SerialNext(d) \/ Wait(d)
      PROVE  FALSE
  <2>1. d # w
    BY <1>1
  <2>2. ASSUME NEW place, pc' = [pc EXCEPT ![d] = place]
        PROVE  FALSE
    BY <1>1, <2>1, <2>2
  <2>3. CASE NotifyAll(d)
    BY <1>1, <2>1, <2>3 DEF NotifyAll, InDrain, Draining
  <2> QED
    BY <1>3, <2>2, <2>3 DEF Lookup, Post, SerialNext, Wait, Goto, Return
<1>4. ASSUME NEW u \in Workers, Loop(u)
      PROVE  FALSE
  <2>1. pc[u] = "loop" /\ u # w
    BY <1>4 DEF Loop, At, InDrain, Draining
  <2> QED
    BY <1>1, <1>4, <2>1 DEF Loop, Goto
<1>5. ASSUME NEW u \in Workers, Leave(u)
      PROVE  \A c \in Callers : pc'[c] # "asleep"
  BY <1>5, Distinct DEF Leave, NotifyDone
<1>6. CASE UNCHANGED vars
  BY <1>6 DEF vars
<1> QED
  BY <1>1, <1>2, <1>3, <1>4, <1>5, <1>6, Distinct DEF Next, CallerStep, WorkerStep

\* A caller with nothing left to draw that may not return leaves a worker behind.
LEMMA SomebodyDrains ==
  ASSUME PoolInv, WakeInv, NEW c \in Callers, pc[c] = "wait", ~(remaining = 0 /\ active = 0)
  PROVE  Drainers # {}
<1>1. job = c /\ chunks <= next /\ remaining = Cardinality(Uncounted)
  BY DEF PoolInv, WakeInv, CallerInv, Holds, CountInv
<1>2. CASE active # 0
  BY <1>2, FS_EmptySet DEF PoolInv, ActiveInv
<1>3. CASE remaining # 0
  <2>1. Uncounted # {}
    BY <1>1, <1>3, FS_EmptySet
  <2>2. PICK i \in 1..chunks : next < i \/ \E t \in Threads : Claims(t) /\ Place(t) = i
    BY <2>1 DEF Uncounted
  <2>3. PICK t \in Threads : Claims(t)
    BY <1>1, <2>2, Types DEF PoolInv
  <2>4. t \in Workers
    <3>1. ASSUME t \in Callers
          PROVE  FALSE
      <4>1. ~Serial(t) /\ Holds(t)
        BY <2>3, <3>1, Distinct DEF Claims, Pooled, Holds, Serves
      <4>2. t = c
        BY <1>1, <3>1, <4>1 DEF PoolInv, CallerInv
      <4> QED
        BY <2>3, <4>2 DEF Claims, Serves
    <3> QED
      BY <3>1, Distinct
  <2> QED
    BY <2>3, <2>4 DEF Drainers, Claims, Serves, InDrain, Draining
<1> QED
  BY <1>2, <1>3

\* Who waits has seen the tickets run out; who sleeps has tested his predicate.
LEMMA WakeStep ==
  ASSUME PoolInv, PoolInv', WakeInv, [Next]_vars
  PROVE  WakeInv'
<1>1. next \in Nat /\ chunks \in Nat /\ pc \in [Threads -> Places] /\ Callers \subseteq Threads
  BY Distinct, Types DEF PoolInv
<1>2. ASSUME NEW c \in Callers, pc'[c] \in Waits
      PROVE  chunks' <= next'
  <2>1. CASE Draw(c)
    <3>1. next' = next + 1 /\ chunks' = chunks /\ pc'[c] \in {"serve", "wait", "leave"}
          /\ (next < chunks => pc'[c] = "serve")
      BY <1>1, <2>1, Distinct DEF Draw, Goto
    <3> QED
      BY <1>1, <1>2, <3>1 DEF Waits
  <2>2. CASE ~Draw(c)
    <3>1. pc[c] \in Waits
      BY <1>2, <2>2, WhoWaits DEF Wait, At, Waits
    <3>2. chunks <= next /\ job = c
      BY <3>1 DEF WakeInv, PoolInv, CallerInv, Holds, Waits
    <3>3. \A d \in Callers : ~Post(d)
      BY <3>2, Distinct DEF Post, PoolInv
    <3>4. chunks' = chunks /\ (next' = next \/ next' = next + 1)
      BY <3>3 DEF Next, CallerStep, WorkerStep, Works, Lookup, NotifyAll, SerialNext, Wait, Draw,
         ServeZeros, ServeAborts, ServeHit, ServeMiss, Fill, Count, Tell, Loop, Leave, vars, poolVars
    <3> QED
      BY <1>1, <3>2, <3>4
  <2> QED
    BY <2>1, <2>2
<1>3. ASSUME NEW c \in Callers, pc'[c] = "asleep"
      PROVE  Drainers' # {}
  <2>1. Drainers # {}
    <3>1. CASE pc[c] = "asleep"
      BY <3>1 DEF WakeInv
    <3>2. CASE pc[c] # "asleep"
      <4>1. Wait(c)
        <5>1. ~Draw(c)
          BY <1>1, <1>3, Distinct DEF Draw, Goto
        <5> QED
          BY <1>3, <3>2, <5>1, WhoWaits DEF Waits
      <4>2. pc[c] = "wait" /\ ~(remaining = 0 /\ active = 0)
        BY <1>1, <1>3, <4>1 DEF Wait, At, Return, Goto
      <4> QED
        BY <4>2, SomebodyDrains DEF WakeInv
    <3> QED
      BY <3>1, <3>2
  <2>2. PICK w \in Workers : pc[w] \in InDrain
    BY <2>1 DEF Drainers
  <2>3. pc'[w] \in InDrain
    BY <1>3, <2>2, WhoLeaves
  <2> QED
    BY <2>3 DEF Drainers
<1> QED
  BY <1>2, <1>3 DEF WakeInv, Waits

\* Somebody serves a lookup until it is answered: its caller, the caller that
\* holds caller_, or a worker of that one's job that will notify it.
THEOREM NoWakeupIsLost == Spec => []NeverStuck
<1>1. Init => WakeInv
  BY Distinct DEF Init, WakeInv
<1>2. PoolInv /\ PoolInv' /\ WakeInv /\ [Next]_vars => WakeInv'
  BY WakeStep
<1>3. PoolInv /\ WakeInv => NeverStuck
  <2> SUFFICES ASSUME PoolInv, WakeInv, NEW c \in Callers, asked[c] # <<>>
               PROVE  \E t \in (Workers \cup {c, caller}) \ {NoJob} : Moves(t)
    BY DEF NeverStuck
  <2>1. \A d \in Callers : /\ d # NoJob /\ CallerInv(d) /\ pc[d] \in Places
                           /\ pc[d] = "asleep" => \E w \in Workers : pc[w] \in InDrain
    BY Distinct, Types DEF PoolInv, WakeInv, Drainers
  <2>2. \A w \in Workers : w # NoJob
    BY Distinct
  <2>3. ASSUME NEW d \in {c, caller}, d \in Callers, pc[d] \notin {"idle", "post"}
        PROVE  \E t \in (Workers \cup {c, caller}) \ {NoJob} : Moves(t)
    <3>1. CASE pc[d] = "asleep"
      BY <2>1, <2>2, <2>3, <3>1 DEF Moves
    <3>2. CASE pc[d] # "asleep"
      <4>1. pc[d] \in InDrain \cup {"wake", "wait", "serial"}
        BY <2>1, <2>3, <3>2 DEF CallerInv, Places, InDrain, Draining
      <4> QED
        BY <2>1, <2>3, <4>1 DEF Moves
    <3> QED
      BY <3>1, <3>2
  <2>4. CASE pc[c] # "post"
    BY <2>1, <2>3, <2>4 DEF CallerInv
  <2>5. CASE pc[c] = "post" /\ caller = NoJob
    BY <2>1, <2>5 DEF Moves
  <2>6. CASE pc[c] = "post" /\ caller # NoJob
    <3>1. caller \in Callers /\ job = caller
      BY <2>6 DEF PoolInv, PoolTypeOK
    <3>2. Holds(caller)
      BY <2>1, <3>1 DEF CallerInv
    <3> QED
      BY <2>3, <3>1, <3>2 DEF Holds, Serves
  <2> QED
    BY <2>4, <2>5, <2>6
<1> QED
  BY <1>1, <1>2, <1>3, PoolInvariant, PTL DEF Spec
=============================================================================
