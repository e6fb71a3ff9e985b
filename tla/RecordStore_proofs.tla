-------------------------- MODULE RecordStore_proofs --------------------------
(* Proofs about the vocabulary store and the draft store, for any number of  *)
(* helpers, any inputs, rows and cache, any reads that fail and a file that  *)
(* may change at any moment: StoreInv is inductive; the store is well typed, *)
(* its helpers work on the lookup in progress, and it implements             *)
(* CheckedLookup.                                                            *)
EXTENDS RecordStore, FiniteSetTheorems, TLAPS

Busy == {w \in Workers : pc[w] \in {"draw", "read", "leave"}}

\* The helpers that remaining counts: those in the job, and in the draft store
\* those who have yet to join it.
Owing == Busy \cup {w \in Workers : kind = "draft" /\ seen[w] # generation}

\* The job of the lookup has been handed to the helpers.
Posted == ~Serial /\ pc[Caller] \in {"wake", "draw", "read", "close", "wait", "asleep"}

\* The order, its slots, and what they have to do with the file.
SlotInv ==
  /\ order \in Seq(Ids) /\ DOMAIN slots = DOMAIN order
  /\ \A k \in DOMAIN order :
       \/ slots[k] \in {NoRow, Row(order[k], "opened")}
       \/ file = "changed" /\ slots[k] = Row(order[k], "changed")

\* Until a failure every position is a hit or a ticket of its row.
PlanInv ==
  /\ asked \in Seq(Int) /\ refusing \in BOOLEAN
  /\ DOMAIN mapped = DOMAIN asked /\ DOMAIN hit = DOMAIN asked
  /\ \A i \in DOMAIN asked : mapped[i] \in 0..Len(order)
  /\ failure = {} =>
       /\ ~refusing /\ ~Invalid(kind, asked)
       /\ \A i \in DOMAIN asked :
            IF mapped[i] = 0
            THEN hit[i] = IF asked[i] \in Ids THEN Row(asked[i], "opened") ELSE Zeros
            ELSE asked[i] \in Ids /\ order[mapped[i]] = asked[i]

\* The cache keeps rows of the opened file only.
CacheInv ==
  /\ DOMAIN cache = 0..CacheSlots-1
  /\ \A s \in DOMAIN cache : cache[s] = NoRow \/ \E id \in Ids : cache[s] = Row(id, "opened")

\* Until a failure each ticket is read, being read, or to be drawn.
Served(k) == slots[k] # NoRow \/ \E t \in Threads : pc[t] = "read" /\ ticket[t] = k
TicketInv ==
  /\ 0 < next
  /\ \A t \in Threads : pc[t] = "read" => ticket[t] \in DOMAIN order
  /\ pc[Caller] # "post" /\ failure = {} => \A k \in DOMAIN order : next <= k \/ Served(k)

CallerInv ==
  /\ pc[Caller] \notin {"loop", "leave"}
  /\ asked = <<>> <=> pc[Caller] = "idle"
  /\ pc[Caller] = "idle" => order = <<>>
  /\ pc[Caller] \in {"post", "wake", "close", "wait", "asleep"} => ~Serial
  /\ pc[Caller] = "post" => generation < lookups
  /\ pc[Caller] \in {"close", "wait", "asleep"} => Len(order) < next
  /\ pc[Caller] = "finish" => failure # {} \/ Len(order) < next
  /\ asked # <<>> => 0 < lookups
  /\ Posted => job = lookups \/ (kind = "vocab" /\ job = 0 /\ pc[Caller] \in {"wait", "asleep"})
  /\ ~Posted => job = 0 /\ Owing = {}

WorkerInv(w) ==
  /\ pc[w] \in {"loop", "asleep", "draw", "read", "leave"}
  /\ w \in Busy => Posted /\ work[w] = lookups /\ seen[w] = generation

StoreInv ==
  /\ StoreTypeOK /\ SlotInv /\ PlanInv /\ CacheInv /\ TicketInv /\ CallerInv
  /\ remaining = Cardinality(Owing)
  /\ \A w \in Workers : WorkerInv(w)

-----------------------------------------------------------------------------
(* Facts of every state *)

LEMMA Apart ==
  /\ IsFiniteSet(Workers) /\ Caller \notin Workers /\ Threads = Workers \cup {Caller}
  /\ Kinds \subseteq {"vocab", "draft"} /\ Ids \subseteq Nat
  /\ CacheSlots \in Nat \ {0} /\ MaxLookups \in Nat
  /\ Inputs \subseteq Seq(Int) /\ <<>> \notin Inputs
BY StoreAssumption DEF StoreAssumption, Threads

LEMMA Types ==
  ASSUME StoreTypeOK
  PROVE  /\ kind \in Kinds /\ file \in {"opened", "changed"} /\ failure \subseteq Reasons
         /\ lookups \in Nat /\ lookups <= MaxLookups /\ pc \in [Threads -> Places]
         /\ job \in Nat /\ job <= lookups /\ next \in Nat /\ remaining \in Nat
         /\ generation \in Nat /\ generation <= lookups
         /\ seen \in [Workers -> Nat] /\ (\A w \in Workers : seen[w] <= generation)
         /\ work \in [Workers -> Nat] /\ (\A w \in Workers : work[w] <= lookups)
         /\ ticket \in [Threads -> Nat]
<1>1. /\ kind \in Kinds /\ file \in {"opened", "changed"} /\ failure \subseteq Reasons
      /\ lookups \in 0..MaxLookups /\ pc \in [Threads -> Places]
      /\ job \in 0..lookups /\ next \in Nat /\ remaining \in 0..Cardinality(Workers)
      /\ generation \in 0..lookups /\ seen \in [Workers -> 0..generation]
      /\ work \in [Workers -> 0..lookups] /\ ticket \in [Threads -> Nat]
  BY DEF StoreTypeOK
<1>2. MaxLookups \in Nat /\ Cardinality(Workers) \in Nat
  BY Apart, FS_CardinalityType
<1> QED
  BY <1>1, <1>2

\* The types of the scheduling state, as every step has to restore them.
LEMMA TypesAgain ==
  ASSUME StoreInv, UNCHANGED <<kind, lookups, mapped, order, asked>>, file' = file \/ file' = "changed",
         failure' \subseteq Reasons, pc' \in [Threads -> Places], job' \in 0..lookups, next' \in Nat,
         generation' \in 0..lookups, seen' \in [Workers -> 0..generation'],
         work' \in [Workers -> 0..lookups], ticket' \in [Threads -> Nat],
         remaining' = Cardinality(Owing')
  PROVE  StoreTypeOK'
<1>1. Owing' \subseteq Workers
  BY DEF Owing, Busy
<1>2. Cardinality(Workers) \in Nat /\ Cardinality(Owing') \in Nat /\ Cardinality(Owing') <= Cardinality(Workers)
  BY <1>1, Apart, FS_Subset, FS_CardinalityType
<1>3. remaining' \in 0..Cardinality(Workers)
  BY <1>2
<1> QED
  BY <1>3 DEF StoreInv, StoreTypeOK

LEMMA Orders ==
  ASSUME StoreInv
  PROVE  /\ order \in Seq(Ids) /\ Len(order) \in Nat /\ DOMAIN order = 1..Len(order)
         /\ DOMAIN slots = 1..Len(order)
         /\ \A k \in 1..Len(order) : order[k] \in Ids
BY DEF StoreInv, SlotInv

LEMMA FiniteOwing == IsFiniteSet(Owing) /\ IsFiniteSet(Owing')
<1>1. Owing \subseteq Workers /\ Owing' \subseteq Workers
  BY DEF Owing, Busy
<1> QED
  BY <1>1, Apart, FS_Subset

LEMMA RowsAreNot ==
  ASSUME NEW id, NEW f
  PROVE  Row(id, f) # NoRow
<1>1. Len(<<id, f>>) = 2 /\ Len(<<"none">>) = 1
  OBVIOUS
<1> QED
  BY <1>1 DEF Row, NoRow

\* A set of naturals with a member has a least one.
LEMMA Least ==
  ASSUME NEW S \in SUBSET Nat, S # {}
  PROVE  \E x \in S : \A y \in S : x <= y
<1>1. PICK x \in S : \A y \in S : ~(<<y, x>> \in OpToRel(<, Nat))
  BY WFMin, NatLessThanWellFounded
<1>2. \A y \in S : ~(y < x)
  BY <1>1 DEF OpToRel
<1> QED
  BY <1>2

LEMMA Greatest ==
  ASSUME NEW n \in Nat, NEW S \in SUBSET (1..n), S # {}
  PROVE  \E x \in S : \A y \in S : y <= x
<1> DEFINE D == {n - x : x \in S}
<1>1. D \in SUBSET Nat /\ D # {}
  <2>1. PICK x : x \in S
    OBVIOUS
  <2>2. \A y \in S : n - y \in Nat
    OBVIOUS
  <2>3. n - x \in D
    BY <2>1
  <2> QED
    BY <2>2, <2>3
<1> HIDE DEF D
<1>2. PICK d \in D : \A e \in D : d <= e
  BY <1>1, Least
<1> USE DEF D
<1>3. PICK x \in S : d = n - x
  BY <1>2
<1>4. ASSUME NEW y \in S PROVE y <= x
  <2>1. d <= n - y
    BY <1>2
  <2> QED
    BY <2>1, <1>3
<1> QED
  BY <1>4

\* Tickets number the positions of a queue: each has one, and each is drawn.
LEMMA Queues ==
  ASSUME NEW n \in Nat, NEW P \in SUBSET (1..n)
  PROVE  /\ Cardinality(P) \in Nat
         /\ \A i \in P : Ticket(P, i) \in 1..Cardinality(P) /\ Position(P, Ticket(P, i)) = i
         /\ \A k \in 1..Cardinality(P) : Position(P, k) \in P
<1> DEFINE B(i) == {j \in P : j <= i}
<1>1. IsFiniteSet(P)
  <2>1. IsFiniteSet(1..n)
    BY FS_Interval
  <2> QED
    BY <2>1, FS_Subset
<1>2. Cardinality(P) \in Nat
  BY <1>1, FS_CardinalityType
<1>3. ASSUME NEW i \in P PROVE Ticket(P, i) \in 1..Cardinality(P)
  <2>1. B(i) \in SUBSET P /\ i \in B(i)
    OBVIOUS
  <2> HIDE DEF B
  <2>2. IsFiniteSet(B(i)) /\ Cardinality(B(i)) <= Cardinality(P)
    BY <2>1, <1>1, FS_Subset
  <2>3. Cardinality(B(i)) # 0 /\ Cardinality(B(i)) \in Nat
    BY <2>1, <2>2, FS_EmptySet, FS_CardinalityType
  <2>4. Ticket(P, i) = Cardinality(B(i))
    BY DEF Ticket, B
  <2> QED
    BY <1>2, <2>2, <2>3, <2>4
<1>4. ASSUME NEW i \in P, NEW j \in P, i < j PROVE Ticket(P, i) # Ticket(P, j)
  <2>1. B(j) \in SUBSET P /\ B(i) \in SUBSET B(j) /\ B(i) # B(j)
    <3>1. j \in B(j) /\ j \notin B(i)
      BY <1>4
    <3>2. \A k \in B(i) : k \in B(j)
      BY <1>4
    <3> QED
      BY <3>1, <3>2
  <2>2. Ticket(P, i) = Cardinality(B(i)) /\ Ticket(P, j) = Cardinality(B(j))
    BY DEF Ticket
  <2> HIDE DEF B
  <2>3. IsFiniteSet(B(j))
    BY <2>1, <1>1, FS_Subset
  <2> QED
    BY <2>1, <2>2, <2>3, FS_Subset
<1>5. \A i, j \in P : Ticket(P, i) = Ticket(P, j) => i = j
  <2> SUFFICES ASSUME NEW i \in P, NEW j \in P, i # j PROVE Ticket(P, i) # Ticket(P, j)
    OBVIOUS
  <2>1. i < j \/ j < i
    OBVIOUS
  <2> QED
    BY <2>1, <1>4
<1>6. \A i \in P : Position(P, Ticket(P, i)) = i
  BY <1>5 DEF Position
<1>7. \A k \in 1..Cardinality(P) : Position(P, k) \in P
  <2> DEFINE f == [i \in P |-> Ticket(P, i)]
  <2>1. f \in Injection(P, 1..Cardinality(P))
    BY <1>3, <1>5 DEF Injection, IsInjective
  <2>2. IsFiniteSet(1..Cardinality(P)) /\ Cardinality(1..Cardinality(P)) = Cardinality(P)
    BY <1>2, FS_Interval
  <2>3. f \in Surjection(P, 1..Cardinality(P))
    BY <2>1, <2>2, FS_Injection
  <2>4. \A k \in 1..Cardinality(P) : \E i \in P : Ticket(P, i) = k
    BY <2>3 DEF Surjection
  <2> QED
    BY <2>4 DEF Position
<1> QED
  BY <1>2, <1>3, <1>6, <1>7

-----------------------------------------------------------------------------
(* The steps of the threads around the reads *)

LEMMA DataKept ==
  ASSUME StoreInv, UNCHANGED <<kind, file, failure, interface, plan, slots, cache>>
  PROVE  SlotInv' /\ PlanInv' /\ CacheInv'
<1>1. UNCHANGED <<kind, file, failure, asked, refusing, order, mapped, hit, slots, cache>>
  BY DEF interface, plan
<1> QED
  BY <1>1 DEF StoreInv, SlotInv, PlanInv, Invalid, CacheInv

LEMMA TicketsKept ==
  ASSUME StoreInv, UNCHANGED <<failure, order, slots, next, ticket>>,
         \A t \in Threads : pc'[t] = "read" <=> pc[t] = "read",
         pc'[Caller] = "post" <=> pc[Caller] = "post"
  PROVE  TicketInv'
<1>1. \A k : Served(k)' <=> Served(k)
  BY DEF Served
<1> QED
  BY <1>1 DEF StoreInv, TicketInv

LEMMA PostStep ==
  ASSUME StoreInv, Post
  PROVE  StoreInv'
<1>1. /\ pc[Caller] = "post" /\ job' = lookups /\ next' = 1 /\ generation' = generation + 1
      /\ remaining' = (IF kind = "draft" THEN Cardinality(Workers) ELSE remaining)
      /\ pc' = [pc EXCEPT ![Caller] = "wake"]
      /\ UNCHANGED <<kind, file, failure, interface, plan, slots, cache>>
      /\ UNCHANGED <<lookups, seen, work, ticket>>
  BY DEF Post, Goto
<1>2. UNCHANGED <<kind, file, failure, asked, order, mapped, slots>>
  BY <1>1 DEF interface, plan
<1>3. ~Serial /\ ~Posted /\ Owing = {} /\ generation < lookups /\ asked # <<>> /\ 0 < lookups
  BY <1>1 DEF StoreInv, CallerInv, Posted
<1>4. /\ pc'[Caller] = "wake" /\ \A w \in Workers : pc'[w] = pc[w]
      /\ pc' \in [Threads -> Places]
  BY <1>1, Types, Apart DEF StoreInv, Places
<1>5. \A w \in Workers : seen'[w] # generation' /\ w \notin Busy'
  <2>1. \A w \in Workers : seen[w] \in Nat /\ seen[w] <= generation /\ w \notin Busy
    BY <1>3, Types DEF StoreInv, Owing
  <2> QED
    BY <2>1, <1>1, <1>4, Types DEF StoreInv, Busy
<1>6. remaining' = Cardinality(Owing')
  <2>1. CASE kind = "draft"
    <3>1. Owing' = Workers
      BY <2>1, <1>2, <1>5 DEF Owing, Busy
    <3> QED
      BY <2>1, <3>1, <1>1
  <2>2. CASE kind # "draft"
    <3>1. Owing' = {}
      BY <2>2, <1>2, <1>5 DEF Owing, Busy
    <3> QED
      BY <2>2, <3>1, <1>1, <1>3 DEF StoreInv
  <2> QED
    BY <2>1, <2>2
<1>7. StoreTypeOK'
  <2>1. /\ job' \in 0..lookups /\ generation' \in 0..lookups
        /\ seen' \in [Workers -> 0..generation'] /\ work' \in [Workers -> 0..lookups]
        /\ failure' \subseteq Reasons /\ ticket' \in [Threads -> Nat]
    BY <1>1, <1>3, Types DEF StoreInv
  <2> QED
    BY <2>1, <1>1, <1>2, <1>4, <1>6, TypesAgain
<1>8. SlotInv' /\ PlanInv' /\ CacheInv'
  BY <1>1, DataKept
<1>9. TicketInv'
  <2>1. \A t \in Threads : pc'[t] = "read" => pc[t] = "read"
    BY <1>1, <1>4, Apart
  <2>2. \A k \in DOMAIN order : 1 <= k
    BY Orders
  <2> QED
    BY <2>1, <2>2, <1>1, <1>2 DEF StoreInv, TicketInv
<1>10. CallerInv' /\ Posted'
  BY <1>1, <1>2, <1>3, <1>4 DEF CallerInv, Posted, Serial
<1>11. \A w \in Workers : WorkerInv(w)'
  BY <1>4, <1>5 DEF StoreInv, WorkerInv
<1> QED
  BY <1>6, <1>7, <1>8, <1>9, <1>10, <1>11 DEF StoreInv

\* Whoever is in the job stays in it, and nobody joins.
LEMMA OwingKept ==
  ASSUME UNCHANGED <<kind, seen, generation>>,
         \A w \in Workers : pc'[w] \in {"draw", "read", "leave"} <=> pc[w] \in {"draw", "read", "leave"}
  PROVE  Owing' = Owing /\ Busy' = Busy
BY DEF Owing, Busy

LEMMA WakeStep ==
  ASSUME StoreInv, Wake
  PROVE  StoreInv'
<1>1. PICK W \in SUBSET Asleep :
        pc' = [t \in Threads |-> IF t = Caller THEN "draw" ELSE IF t \in W THEN "loop" ELSE pc[t]]
  BY DEF Wake
<1>2. /\ pc[Caller] = "wake"
      /\ UNCHANGED <<kind, file, failure, interface, plan, slots, cache>>
      /\ UNCHANGED <<lookups, job, next, remaining, generation, seen, work, ticket>>
  BY DEF Wake
<1>3. UNCHANGED <<kind, file, failure, asked, order, mapped, slots>>
  BY <1>2 DEF interface, plan
<1>4. /\ pc'[Caller] = "draw" /\ pc' \in [Threads -> Places]
      /\ \A w \in Workers : pc'[w] = pc[w] \/ (pc[w] = "asleep" /\ pc'[w] = "loop")
  BY <1>1, Types, Apart DEF StoreInv, Places, Asleep
<1>5. Owing' = Owing /\ Busy' = Busy
  BY <1>2, <1>4, OwingKept
<1>6. StoreTypeOK' /\ remaining' = Cardinality(Owing')
  BY <1>2, <1>3, <1>4, <1>5, TypesAgain DEF StoreInv, StoreTypeOK
<1>7. SlotInv' /\ PlanInv' /\ CacheInv'
  BY <1>2, DataKept
<1>8. TicketInv'
  <2>1. \A t \in Threads : pc'[t] = "read" <=> pc[t] = "read"
    BY <1>2, <1>4, Apart
  <2> QED
    BY <2>1, <1>2, <1>3, <1>4, TicketsKept
<1>9. CallerInv' /\ (Posted' <=> Posted)
  BY <1>2, <1>3, <1>4, <1>5 DEF StoreInv, CallerInv, Posted, Serial
<1>10. \A w \in Workers : WorkerInv(w)'
  BY <1>2, <1>4, <1>5, <1>9 DEF StoreInv, WorkerInv
<1> QED
  BY <1>6, <1>7, <1>8, <1>9, <1>10 DEF StoreInv

LEMMA JoinStep ==
  ASSUME StoreInv, NEW w \in Workers, Join(w)
  PROVE  StoreInv'
<1>1. /\ pc[w] = "loop" /\ generation # seen[w] /\ (kind = "vocab" => job # 0)
      /\ seen' = [seen EXCEPT ![w] = generation] /\ work' = [work EXCEPT ![w] = job]
      /\ remaining' = (IF kind = "vocab" THEN remaining + 1 ELSE remaining)
      /\ pc' = [pc EXCEPT ![w] = "draw"]
      /\ UNCHANGED <<kind, file, failure, interface, plan, slots, cache>>
      /\ UNCHANGED <<lookups, job, next, generation, ticket>>
  BY DEF Join, Joins, Goto
<1>2. UNCHANGED <<kind, file, failure, asked, order, mapped, slots>>
  BY <1>1 DEF interface, plan
<1>3. w \in Threads /\ w # Caller /\ kind \in {"vocab", "draft"}
  BY Apart, Types DEF StoreInv
<1>4. /\ pc'[w] = "draw" /\ seen'[w] = generation /\ work'[w] = job
      /\ \A t \in Threads : t # w => pc'[t] = pc[t]
      /\ \A v \in Workers : v # w => seen'[v] = seen[v] /\ work'[v] = work[v]
      /\ pc' \in [Threads -> Places]
  BY <1>1, <1>3, Types DEF StoreInv, Places
<1>5. Posted /\ job = lookups
  <2>1. kind = "draft" => w \in Owing
    BY <1>1 DEF Owing
  <2>2. Posted
    BY <2>1, <1>1, <1>3 DEF StoreInv, CallerInv
  <2> QED
    BY <2>2, <1>1, <1>3 DEF StoreInv, CallerInv
<1>6. /\ w \notin Busy /\ Busy' = Busy \cup {w}
      /\ (kind = "vocab" => Owing' = Owing \cup {w} /\ w \notin Owing)
      /\ (kind = "draft" => Owing' = Owing)
  <2>1. w \notin Busy /\ Busy' = Busy \cup {w}
    BY <1>1, <1>3, <1>4, Apart DEF Busy
  <2>2. kind = "draft" => w \in Owing
    BY <1>1 DEF Owing
  <2>3. kind = "vocab" => Owing' = Busy' /\ Owing = Busy
    BY <1>2 DEF Owing
  <2>4. kind = "draft" => Owing' = Owing
    <3>1. \A v \in Workers : seen'[v] # generation' <=> seen[v] # generation /\ v # w
      BY <1>1, <1>4
    <3> QED
      BY <3>1, <2>1, <2>2, <1>2 DEF Owing
  <2> QED
    BY <2>1, <2>3, <2>4
<1>7. remaining' = Cardinality(Owing')
  <2>1. kind = "vocab" => Cardinality(Owing') = Cardinality(Owing) + 1
    BY <1>6, FiniteOwing, FS_AddElement
  <2> QED
    BY <2>1, <1>1, <1>3, <1>6 DEF StoreInv
<1>8. StoreTypeOK'
  <2>1. seen' \in [Workers -> 0..generation] /\ work' \in [Workers -> 0..lookups]
    BY <1>1, Types DEF StoreInv, StoreTypeOK
  <2> QED
    BY <2>1, <1>1, <1>2, <1>4, <1>7, TypesAgain DEF StoreInv, StoreTypeOK
<1>9. SlotInv' /\ PlanInv' /\ CacheInv'
  BY <1>1, DataKept
<1>10. TicketInv'
  <2>1. \A t \in Threads : pc'[t] = "read" <=> pc[t] = "read"
    BY <1>1, <1>4
  <2> QED
    BY <2>1, <1>1, <1>2, <1>3, <1>4, TicketsKept, Apart
<1>11. CallerInv' /\ Posted'
  BY <1>1, <1>2, <1>3, <1>4, <1>5, Apart DEF StoreInv, CallerInv, Posted, Serial
<1>12. \A v \in Workers : WorkerInv(v)'
  <2> TAKE v \in Workers
  <2>1. CASE v = w
    BY <2>1, <1>1, <1>4, <1>5, <1>11 DEF WorkerInv
  <2>2. CASE v # w
    BY <2>2, <1>1, <1>4, <1>6, <1>11, Apart DEF StoreInv, WorkerInv
  <2> QED
    BY <2>1, <2>2
<1> QED
  BY <1>7, <1>8, <1>9, <1>10, <1>11, <1>12 DEF StoreInv

LEMMA SleepStep ==
  ASSUME StoreInv, NEW w \in Workers, Sleep(w)
  PROVE  StoreInv'
<1>1. /\ pc[w] = "loop" /\ pc' = [pc EXCEPT ![w] = "asleep"]
      /\ UNCHANGED <<kind, file, failure, interface, plan, slots, cache>>
      /\ UNCHANGED <<lookups, job, next, remaining, generation, seen, work, ticket>>
  BY DEF Sleep, Goto
<1>2. UNCHANGED <<kind, file, failure, asked, order, mapped, slots>>
  BY <1>1 DEF interface, plan
<1>3. w \in Threads /\ w # Caller /\ Caller \in Threads
  BY Apart
<1>4. /\ pc'[w] = "asleep" /\ \A t \in Threads : t # w => pc'[t] = pc[t]
      /\ pc' \in [Threads -> Places]
  BY <1>1, <1>3, Types DEF StoreInv, Places
<1>5. Owing' = Owing /\ Busy' = Busy
  BY <1>1, <1>4, OwingKept, Apart
<1>6. StoreTypeOK' /\ remaining' = Cardinality(Owing')
  BY <1>1, <1>2, <1>4, <1>5, TypesAgain DEF StoreInv, StoreTypeOK
<1>7. SlotInv' /\ PlanInv' /\ CacheInv'
  BY <1>1, DataKept
<1>8. TicketInv'
  <2>1. \A t \in Threads : pc'[t] = "read" <=> pc[t] = "read"
    BY <1>1, <1>4
  <2> QED
    BY <2>1, <1>1, <1>2, <1>3, <1>4, TicketsKept
<1>9. CallerInv' /\ (Posted' <=> Posted)
  BY <1>1, <1>2, <1>3, <1>4, <1>5 DEF StoreInv, CallerInv, Posted, Serial
<1>10. \A v \in Workers : WorkerInv(v)'
  BY <1>1, <1>4, <1>5, <1>9, Apart DEF StoreInv, WorkerInv
<1> QED
  BY <1>6, <1>7, <1>8, <1>9, <1>10 DEF StoreInv

LEMMA LeaveStep ==
  ASSUME StoreInv, NEW w \in Workers, Leave(w)
  PROVE  StoreInv'
<1> DEFINE place == IF remaining = 1 /\ pc[Caller] = "asleep" THEN "wait" ELSE pc[Caller]
<1>1. /\ pc[w] = "leave" /\ remaining' = remaining - 1
      /\ pc' = [pc EXCEPT ![w] = "loop",
                          ![Caller] = IF remaining = 1 /\ @ = "asleep" THEN "wait" ELSE @]
      /\ UNCHANGED <<kind, file, failure, interface, plan, slots, cache>>
      /\ UNCHANGED <<lookups, job, next, generation, seen, work, ticket>>
  BY DEF Leave
<1>2. UNCHANGED <<kind, file, failure, asked, order, mapped, slots>>
  BY <1>1 DEF interface, plan
<1>3. w \in Threads /\ w # Caller /\ Caller \in Threads
  BY Apart
<1>4. /\ pc'[w] = "loop" /\ pc'[Caller] = place
      /\ \A t \in Threads : t # w /\ t # Caller => pc'[t] = pc[t]
      /\ pc' \in [Threads -> Places]
  BY <1>1, <1>3, Types DEF StoreInv, Places
<1>5. /\ w \in Busy /\ Posted /\ seen[w] = generation
      /\ pc[Caller] \in {"wake", "draw", "read", "close", "wait", "asleep"}
  <2>1. w \in Busy
    BY <1>1 DEF Busy
  <2> QED
    BY <2>1 DEF StoreInv, WorkerInv, Posted
<1>6. place = pc[Caller] \/ (pc[Caller] = "asleep" /\ place = "wait")
  OBVIOUS
<1> HIDE DEF place
<1>7. Owing' = Owing \ {w} /\ Busy' = Busy \ {w} /\ w \in Owing
  <2>1. \A v \in Workers : v \in Busy' <=> v \in Busy /\ v # w
    BY <1>3, <1>4, Apart DEF Busy
  <2>2. Busy' = Busy \ {w}
    BY <2>1 DEF Busy
  <2>3. Owing = Busy \cup {v \in Workers : kind = "draft" /\ seen[v] # generation}
        /\ Owing' = Busy' \cup {v \in Workers : kind = "draft" /\ seen[v] # generation}
    BY <1>1 DEF Owing
  <2> QED
    BY <2>2, <2>3, <1>5
<1>8. remaining' = Cardinality(Owing')
  <2>1. Cardinality(Owing') = Cardinality(Owing) - 1
    BY <1>7, FiniteOwing, FS_RemoveElement
  <2> QED
    BY <2>1, <1>1 DEF StoreInv
<1>9. StoreTypeOK'
  BY <1>1, <1>2, <1>4, <1>8, TypesAgain DEF StoreInv, StoreTypeOK
<1>10. SlotInv' /\ PlanInv' /\ CacheInv'
  BY <1>1, DataKept
<1>11. TicketInv'
  <2>1. \A t \in Threads : pc'[t] = "read" <=> pc[t] = "read"
    BY <1>1, <1>4, <1>6
  <2>2. pc'[Caller] = "post" <=> pc[Caller] = "post"
    BY <1>4, <1>6
  <2> QED
    BY <2>1, <2>2, <1>1, <1>2, TicketsKept
<1>12. CallerInv' /\ Posted'
  BY <1>1, <1>2, <1>4, <1>5, <1>6 DEF StoreInv, CallerInv, Posted, Serial
<1>13. \A v \in Workers : WorkerInv(v)'
  <2> TAKE v \in Workers
  <2>1. CASE v = w
    BY <2>1, <1>4, <1>7 DEF WorkerInv
  <2>2. CASE v # w
    BY <2>2, <1>1, <1>4, <1>7, <1>12, Apart DEF StoreInv, WorkerInv
  <2> QED
    BY <2>1, <2>2
<1> QED
  BY <1>8, <1>9, <1>10, <1>11, <1>12, <1>13 DEF StoreInv

LEMMA CloseStep ==
  ASSUME StoreInv, Close
  PROVE  StoreInv'
<1>1. /\ pc[Caller] = "close" /\ job' = (IF kind = "vocab" THEN 0 ELSE job)
      /\ pc' = [pc EXCEPT ![Caller] = "wait"]
      /\ UNCHANGED <<kind, file, failure, interface, plan, slots, cache>>
      /\ UNCHANGED <<lookups, next, remaining, generation, seen, work, ticket>>
  BY DEF Close, Goto
<1>2. UNCHANGED <<kind, file, failure, asked, order, mapped, slots>>
  BY <1>1 DEF interface, plan
<1>3. /\ pc'[Caller] = "wait" /\ \A w \in Workers : pc'[w] = pc[w]
      /\ pc' \in [Threads -> Places] /\ kind \in {"vocab", "draft"}
  BY <1>1, Types, Apart DEF StoreInv, Places
<1>4. Owing' = Owing /\ Busy' = Busy
  BY <1>1, <1>3, OwingKept
<1>5. job' \in 0..lookups
  BY <1>1, Types DEF StoreInv
<1>6. StoreTypeOK' /\ remaining' = Cardinality(Owing')
  BY <1>1, <1>2, <1>3, <1>4, <1>5, TypesAgain DEF StoreInv, StoreTypeOK
<1>7. SlotInv' /\ PlanInv' /\ CacheInv'
  BY <1>1, DataKept
<1>8. TicketInv'
  <2>1. \A t \in Threads : pc'[t] = "read" <=> pc[t] = "read"
    BY <1>1, <1>3, Apart
  <2> QED
    BY <2>1, <1>1, <1>2, <1>3, TicketsKept
<1>9. CallerInv' /\ Posted /\ Posted'
  BY <1>1, <1>2, <1>3 DEF StoreInv, CallerInv, Posted, Serial
<1>10. \A w \in Workers : WorkerInv(w)'
  BY <1>1, <1>3, <1>4, <1>9 DEF StoreInv, WorkerInv
<1> QED
  BY <1>6, <1>7, <1>8, <1>9, <1>10 DEF StoreInv

LEMMA WaitStep ==
  ASSUME StoreInv, Wait
  PROVE  StoreInv'
<1> DEFINE place == IF remaining = 0 THEN "finish" ELSE "asleep"
<1>1. /\ pc[Caller] = "wait" /\ job' = (IF remaining = 0 THEN 0 ELSE job)
      /\ pc' = [pc EXCEPT ![Caller] = place]
      /\ UNCHANGED <<kind, file, failure, interface, plan, slots, cache>>
      /\ UNCHANGED <<lookups, next, remaining, generation, seen, work, ticket>>
  BY DEF Wait, Goto
<1>2. UNCHANGED <<kind, file, failure, asked, order, mapped, slots>>
  BY <1>1 DEF interface, plan
<1>3. place \in {"finish", "asleep"} /\ (place = "finish" <=> remaining = 0)
  OBVIOUS
<1> HIDE DEF place
<1>4. /\ pc'[Caller] = place /\ \A w \in Workers : pc'[w] = pc[w]
      /\ pc' \in [Threads -> Places]
  BY <1>1, <1>3, Types, Apart DEF StoreInv, Places
<1>5. Owing' = Owing /\ Busy' = Busy
  BY <1>1, <1>4, OwingKept
<1>6. job' \in 0..lookups
  BY <1>1, Types DEF StoreInv
<1>7. StoreTypeOK' /\ remaining' = Cardinality(Owing')
  BY <1>1, <1>2, <1>4, <1>5, <1>6, TypesAgain DEF StoreInv, StoreTypeOK
<1>8. SlotInv' /\ PlanInv' /\ CacheInv'
  BY <1>1, DataKept
<1>9. TicketInv'
  <2>1. \A t \in Threads : pc'[t] = "read" <=> pc[t] = "read"
    BY <1>1, <1>3, <1>4, Apart
  <2> QED
    BY <2>1, <1>1, <1>2, <1>3, <1>4, TicketsKept
<1>10. Posted /\ (remaining = 0 => Owing = {}) /\ (Serial' <=> Serial)
  <2>1. remaining = 0 => Owing = {}
    BY FiniteOwing, FS_EmptySet DEF StoreInv
  <2> QED
    BY <2>1, <1>1, <1>2 DEF StoreInv, CallerInv, Posted, Serial
<1>11. CallerInv'
  <2>1. CASE remaining = 0
    BY <2>1, <1>1, <1>2, <1>3, <1>4, <1>5, <1>10 DEF StoreInv, CallerInv, Posted
  <2>2. CASE remaining # 0
    BY <2>2, <1>1, <1>2, <1>3, <1>4, <1>10 DEF StoreInv, CallerInv, Posted
  <2> QED
    BY <2>1, <2>2
<1>12. \A w \in Workers : WorkerInv(w)'
  <2>1. remaining = 0 => Busy = {}
    BY <1>10 DEF Owing
  <2>2. remaining # 0 => Posted'
    BY <1>3, <1>4, <1>10 DEF Posted
  <2> QED
    BY <2>1, <2>2, <1>1, <1>4, <1>5 DEF StoreInv, WorkerInv
<1> QED
  BY <1>7, <1>8, <1>9, <1>11, <1>12 DEF StoreInv

-----------------------------------------------------------------------------
(* The reads *)

LEMMA DrawStep ==
  ASSUME StoreInv, NEW t \in Threads, Draw(t)
  PROVE  StoreInv'
<1> DEFINE place == IF next <= Len(order) THEN "read"
                    ELSE IF t # Caller THEN "leave"
                    ELSE IF Serial THEN "finish" ELSE "close"
<1>1. /\ pc[t] = "draw" /\ ticket' = [ticket EXCEPT ![t] = next] /\ next' = next + 1
      /\ pc' = [pc EXCEPT ![t] = place]
      /\ UNCHANGED <<kind, file, failure, interface, plan, slots, cache>>
      /\ UNCHANGED <<lookups, job, remaining, generation, seen, work>>
  BY DEF Draw, Goto
<1>2. UNCHANGED <<kind, file, failure, asked, order, mapped, slots>>
  BY <1>1 DEF interface, plan
<1>3. /\ place \in {"read", "leave", "finish", "close"}
      /\ (place = "read" <=> next <= Len(order))
      /\ (place \in {"finish", "close"} => t = Caller /\ Len(order) < next)
      /\ (place = "finish" => Serial) /\ (place = "close" => ~Serial)
      /\ (place = "leave" => t # Caller)
      /\ next \in Nat /\ 0 < next /\ Len(order) \in Nat
  BY Types, Orders DEF StoreInv, TicketInv
<1> HIDE DEF place
<1>4. /\ pc'[t] = place /\ ticket'[t] = next
      /\ \A u \in Threads : u # t => pc'[u] = pc[u] /\ ticket'[u] = ticket[u]
      /\ pc' \in [Threads -> Places] /\ ticket' \in [Threads -> Nat]
  BY <1>1, <1>3, Types DEF StoreInv, Places
<1>5. Owing' = Owing /\ Busy' = Busy
  <2>1. \A w \in Workers : pc'[w] \in {"draw", "read", "leave"} <=> pc[w] \in {"draw", "read", "leave"}
    BY <1>1, <1>3, <1>4, Apart
  <2> QED
    BY <2>1, <1>1, <1>2, OwingKept
<1>6. StoreTypeOK' /\ remaining' = Cardinality(Owing')
  BY <1>1, <1>2, <1>3, <1>4, <1>5, TypesAgain DEF StoreInv, StoreTypeOK
<1>7. SlotInv' /\ PlanInv' /\ CacheInv'
  BY <1>1, DataKept
<1>8. TicketInv'
  <2>1. ASSUME NEW u \in Threads, pc'[u] = "read" PROVE ticket'[u] \in DOMAIN order
    <3>1. CASE u = t
      BY <2>1, <3>1, <1>3, <1>4, Orders
    <3>2. CASE u # t
      BY <2>1, <3>2, <1>4 DEF StoreInv, TicketInv
    <3> QED
      BY <3>1, <3>2
  <2>2. pc[Caller] # "post" <=> pc'[Caller] # "post"
    BY <1>1, <1>3, <1>4, Apart
  <2>3. ASSUME failure = {}, pc[Caller] # "post", NEW k \in DOMAIN order PROVE next + 1 <= k \/ Served(k)'
    <3>1. next <= k \/ Served(k)
      BY <2>3 DEF StoreInv, TicketInv
    <3>2. CASE k = next
      <4>1. pc'[t] = "read" /\ ticket'[t] = k
        BY <3>2, <2>3, <1>3, <1>4, Orders
      <4> QED
        BY <4>1 DEF Served
    <3>3. CASE k # next /\ next <= k
      BY <3>3, <1>3, Orders
    <3>4. CASE Served(k)
      <4>1. ASSUME NEW u \in Threads, pc[u] = "read", ticket[u] = k PROVE pc'[u] = "read" /\ ticket'[u] = k
        BY <4>1, <1>1, <1>4
      <4> QED
        BY <3>4, <4>1, <1>2 DEF Served
    <3> QED
      BY <3>1, <3>2, <3>3, <3>4
  <2> QED
    BY <2>1, <2>2, <2>3, <1>1, <1>2, <1>3 DEF StoreInv, TicketInv
<1>9. CallerInv' /\ (Posted' <=> Posted)
  <2>1. Serial' <=> Serial
    BY <1>2 DEF Serial
  <2>2. Posted' <=> Posted
    <3>1. CASE t = Caller
      BY <3>1, <2>1, <1>1, <1>3, <1>4 DEF Posted
    <3>2. CASE t # Caller
      BY <3>2, <2>1, <1>4, Apart DEF Posted
    <3> QED
      BY <3>1, <3>2
  <2>3. CASE t = Caller
    BY <2>1, <2>2, <2>3, <1>1, <1>2, <1>3, <1>4, <1>5 DEF StoreInv, CallerInv
  <2>4. CASE t # Caller
    <3>1. pc'[Caller] = pc[Caller] /\ (Len(order) < next => Len(order) < next')
      BY <2>4, <1>1, <1>3, <1>4, Apart
    <3> QED
      BY <2>1, <2>2, <3>1, <1>1, <1>2, <1>5 DEF StoreInv, CallerInv
  <2> QED
    BY <2>2, <2>3, <2>4
<1>10. \A w \in Workers : WorkerInv(w)'
  <2> TAKE w \in Workers
  <2>1. WorkerInv(w) /\ w \in Threads /\ w # Caller
    BY Apart DEF StoreInv
  <2>2. pc'[w] \in {"loop", "asleep", "draw", "read", "leave"}
    BY <2>1, <1>3, <1>4 DEF WorkerInv
  <2> QED
    BY <2>1, <2>2, <1>1, <1>5, <1>9 DEF WorkerInv
<1> QED
  BY <1>6, <1>7, <1>8, <1>9, <1>10 DEF StoreInv

LEMMA ReadStep ==
  ASSUME StoreInv, NEW t \in Threads, Read(t)
  PROVE  StoreInv'
<1>1. /\ pc[t] = "read" /\ pc' = [pc EXCEPT ![t] = "draw"]
      /\ UNCHANGED <<kind, file, interface, lookups, job, plan, next, remaining, generation>>
      /\ UNCHANGED <<seen, work, ticket, cache>>
  BY DEF Read, Goto
<1>2. \/ UNCHANGED <<failure, slots>> /\ failure # {}
      \/ slots' = [slots EXCEPT ![ticket[t]] = Row(order[ticket[t]], file)] /\ failure' = failure
      \/ failure' = {"io"} /\ slots' = slots
  BY DEF Read
<1>3. UNCHANGED <<kind, file, asked, refusing, order, mapped, hit>>
  BY <1>1 DEF interface, plan
<1>4. /\ pc'[t] = "draw" /\ \A u \in Threads : u # t => pc'[u] = pc[u]
      /\ pc' \in [Threads -> Places] /\ failure' \subseteq Reasons
      /\ (failure' = {} => failure = {} /\ slots' = [slots EXCEPT ![ticket[t]] = Row(order[ticket[t]], file)])
  BY <1>1, <1>2, Types DEF StoreInv, Places, Reasons
<1>5. ticket[t] \in DOMAIN order /\ DOMAIN order = 1..Len(order) /\ DOMAIN slots = DOMAIN order
  BY <1>1, Orders DEF StoreInv, TicketInv
<1>6. Owing' = Owing /\ Busy' = Busy
  BY <1>1, <1>4, OwingKept, Apart
<1>7. StoreTypeOK' /\ remaining' = Cardinality(Owing')
  BY <1>1, <1>3, <1>4, <1>6, TypesAgain DEF StoreInv, StoreTypeOK
<1>8. SlotInv'
  <2>1. CASE slots' = slots
    BY <2>1, <1>1, <1>3 DEF StoreInv, SlotInv
  <2>2. CASE slots' = [slots EXCEPT ![ticket[t]] = Row(order[ticket[t]], file)]
    <3>1. file \in {"opened", "changed"}
      BY Types DEF StoreInv
    <3>2. DOMAIN slots' = DOMAIN slots
      BY <2>2
    <3>3. ASSUME NEW k \in DOMAIN order
          PROVE  \/ slots'[k] \in {NoRow, Row(order[k], "opened")}
                 \/ file = "changed" /\ slots'[k] = Row(order[k], "changed")
      <4>1. CASE k = ticket[t]
        BY <4>1, <3>1, <2>2, <1>5
      <4>2. CASE k # ticket[t]
        BY <4>2, <2>2, <1>5 DEF StoreInv, SlotInv
      <4> QED
        BY <4>1, <4>2
    <3> QED
      BY <3>2, <3>3, <1>1, <1>3 DEF StoreInv, SlotInv
  <2> QED
    BY <1>2, <2>1, <2>2
<1>9. PlanInv' /\ CacheInv'
  BY <1>1, <1>3, <1>4 DEF StoreInv, PlanInv, Invalid, CacheInv
<1>10. TicketInv'
  <2>1. \A u \in Threads : pc'[u] = "read" => u # t /\ pc[u] = "read"
    BY <1>4
  <2>2. pc[Caller] # "post" <=> pc'[Caller] # "post"
    BY <1>1, <1>4, Apart
  <2>3. ASSUME failure' = {}, pc[Caller] # "post", NEW k \in DOMAIN order PROVE next <= k \/ Served(k)'
    <3>1. next <= k \/ Served(k)
      BY <2>3, <1>4 DEF StoreInv, TicketInv
    <3>2. CASE k = ticket[t]
      <4>1. slots'[k] = Row(order[k], file)
        BY <3>2, <2>3, <1>4, <1>5
      <4> QED
        BY <4>1, RowsAreNot DEF Served
    <3>3. CASE k # ticket[t]
      <4>1. slots'[k] = slots[k]
        BY <3>3, <2>3, <1>4, <1>5
      <4>2. ASSUME NEW u \in Threads, pc[u] = "read", ticket[u] = k PROVE pc'[u] = "read" /\ ticket'[u] = k
        BY <4>2, <3>3, <1>1, <1>4
      <4> QED
        BY <3>1, <4>1, <4>2 DEF Served
    <3> QED
      BY <3>2, <3>3
  <2> QED
    BY <2>1, <2>2, <2>3, <1>1, <1>3 DEF StoreInv, TicketInv
<1>11. CallerInv' /\ (Posted' <=> Posted)
  <2>1. Serial' <=> Serial
    BY <1>3 DEF Serial
  <2>2. Posted' <=> Posted
    <3>1. CASE t = Caller
      BY <3>1, <2>1, <1>1, <1>4 DEF Posted
    <3>2. CASE t # Caller
      BY <3>2, <2>1, <1>4, Apart DEF Posted
    <3> QED
      BY <3>1, <3>2
  <2>3. CASE t = Caller
    BY <2>1, <2>2, <2>3, <1>1, <1>3, <1>4, <1>6 DEF StoreInv, CallerInv
  <2>4. CASE t # Caller
    <3>1. pc'[Caller] = pc[Caller] /\ (failure # {} => failure' # {})
      BY <2>4, <1>4, Apart
    <3> QED
      BY <2>1, <2>2, <3>1, <1>1, <1>3, <1>6 DEF StoreInv, CallerInv
  <2> QED
    BY <2>2, <2>3, <2>4
<1>12. \A w \in Workers : WorkerInv(w)'
  <2> TAKE w \in Workers
  <2>1. WorkerInv(w) /\ w \in Threads
    BY Apart DEF StoreInv
  <2>2. pc'[w] \in {"loop", "asleep", "draw", "read", "leave"}
    BY <2>1, <1>4 DEF WorkerInv
  <2> QED
    BY <2>1, <2>2, <1>1, <1>6, <1>11 DEF WorkerInv
<1> QED
  BY <1>7, <1>8, <1>9, <1>10, <1>11, <1>12 DEF StoreInv

LEMMA FileStep ==
  ASSUME StoreInv, FileChanges
  PROVE  StoreInv'
<1>1. /\ file' = "changed"
      /\ UNCHANGED <<kind, failure, interface, lookups, pc, job, plan, slots, next, remaining>>
      /\ UNCHANGED <<generation, seen, work, ticket, cache>>
  BY DEF FileChanges
<1>2. UNCHANGED <<kind, failure, asked, refusing, order, mapped, hit, slots>>
  BY <1>1 DEF interface, plan
<1>3. Owing' = Owing /\ Busy' = Busy
  BY <1>1, OwingKept
<1>4. StoreTypeOK' /\ remaining' = Cardinality(Owing')
  BY <1>1, <1>2, <1>3, TypesAgain DEF StoreInv, StoreTypeOK
<1>5. SlotInv'
  BY <1>1, <1>2 DEF StoreInv, SlotInv
<1>6. PlanInv' /\ CacheInv'
  BY <1>1, <1>2 DEF StoreInv, PlanInv, Invalid, CacheInv
<1>7. TicketInv'
  BY <1>1, <1>2, TicketsKept
<1>8. CallerInv' /\ (Posted' <=> Posted)
  BY <1>1, <1>2, <1>3 DEF StoreInv, CallerInv, Posted, Serial
<1>9. \A w \in Workers : WorkerInv(w)'
  BY <1>1, <1>3, <1>8 DEF StoreInv, WorkerInv
<1> QED
  BY <1>4, <1>5, <1>6, <1>7, <1>8, <1>9 DEF StoreInv

-----------------------------------------------------------------------------
(* The plan of a lookup *)

LEMMA QueueOf ==
  ASSUME NEW s \in Seq(Int), NEW P \in SUBSET (DOMAIN s), \A i \in P : s[i] \in Ids
  PROVE  /\ Queued(P, s) \in Seq(Ids)
         /\ \A i \in P : /\ Ticket(P, i) \in 1..Len(Queued(P, s)) /\ Ticket(P, i) # 0
                         /\ Queued(P, s)[Ticket(P, i)] = s[i]
<1>1. Len(s) \in Nat /\ P \in SUBSET (1..Len(s))
  OBVIOUS
<1>2. /\ Cardinality(P) \in Nat
      /\ \A i \in P : Ticket(P, i) \in 1..Cardinality(P) /\ Position(P, Ticket(P, i)) = i
      /\ \A k \in 1..Cardinality(P) : Position(P, k) \in P
  BY <1>1, Queues
<1>3. Queued(P, s) = [k \in 1..Cardinality(P) |-> s[Position(P, k)]]
  BY DEF Queued
<1>4. Queued(P, s) \in [1..Cardinality(P) -> Ids]
  BY <1>2, <1>3
<1>5. Queued(P, s) \in Seq(Ids) /\ Len(Queued(P, s)) = Cardinality(P)
  BY <1>2, <1>4
<1>6. \A i \in P : Queued(P, s)[Ticket(P, i)] = s[i]
  BY <1>2, <1>3
<1> QED
  BY <1>2, <1>5, <1>6

LEMMA CachedRow ==
  ASSUME StoreInv, NEW id \in Ids, Cached(id)
  PROVE  cache[SlotOf(id)] = Row(id, "opened")
<1>1. id \in Nat /\ SlotOf(id) \in 0..CacheSlots-1
  BY Apart DEF SlotOf
<1>2. PICK other \in Ids : cache[SlotOf(id)] = Row(other, "opened")
  BY <1>1 DEF StoreInv, CacheInv, Cached
<1>3. other = id
  BY <1>2 DEF Cached, Row
<1> QED
  BY <1>2, <1>3

\* Every position of a plan is a hit, zeros, or the ticket of its row.
PlannedAs(s) ==
  /\ order' \in Seq(Ids) /\ DOMAIN mapped' = DOMAIN s /\ DOMAIN hit' = DOMAIN s
  /\ \A i \in DOMAIN s :
       /\ mapped'[i] \in 0..Len(order')
       /\ IF mapped'[i] = 0
          THEN hit'[i] = IF s[i] \in Ids THEN Row(s[i], "opened") ELSE Zeros
          ELSE s[i] \in Ids /\ order'[mapped'[i]] = s[i]

LEMMA VocabPlans ==
  ASSUME StoreInv, NEW s \in Seq(Int), VocabPlan(s)
  PROVE  PlannedAs(s)
<1> DEFINE P == Misses(s)
<1>1. P \in SUBSET (DOMAIN s) /\ \A i \in P : s[i] \in Ids
  BY DEF Misses
<1>2. /\ order' = Queued(P, s)
      /\ mapped' = [i \in DOMAIN s |-> IF i \in P THEN Ticket(P, i) ELSE 0]
      /\ hit' = [i \in DOMAIN s |-> IF s[i] \in Ids /\ Cached(s[i]) THEN cache[SlotOf(s[i])] ELSE Zeros]
  BY DEF VocabPlan
<1>3. \A i \in DOMAIN s : i \in P <=> s[i] \in Ids /\ ~Cached(s[i])
  BY DEF Misses
<1> HIDE DEF P
<1>4. /\ order' \in Seq(Ids) /\ Len(order') \in Nat
      /\ \A i \in P : /\ Ticket(P, i) \in 1..Len(order') /\ Ticket(P, i) # 0
                      /\ order'[Ticket(P, i)] = s[i]
  BY <1>1, <1>2, QueueOf
<1>5. ASSUME NEW i \in DOMAIN s
      PROVE  /\ mapped'[i] \in 0..Len(order')
             /\ IF mapped'[i] = 0
                THEN hit'[i] = IF s[i] \in Ids THEN Row(s[i], "opened") ELSE Zeros
                ELSE s[i] \in Ids /\ order'[mapped'[i]] = s[i]
  <2>1. CASE i \in P
    BY <2>1, <1>1, <1>2, <1>4
  <2>2. CASE i \notin P
    <3>1. mapped'[i] = 0 /\ hit'[i] = IF s[i] \in Ids /\ Cached(s[i]) THEN cache[SlotOf(s[i])] ELSE Zeros
      BY <2>2, <1>2
    <3>2. s[i] \in Ids => Cached(s[i]) /\ cache[SlotOf(s[i])] = Row(s[i], "opened")
      BY <2>2, <1>3, CachedRow
    <3> QED
      BY <3>1, <3>2, <1>4
  <2> QED
    BY <2>1, <2>2
<1> QED
  BY <1>2, <1>4, <1>5 DEF PlannedAs

LEMMA DraftPlans ==
  ASSUME StoreInv, NEW s \in Seq(Int), kind = "draft", ~Invalid(kind, s), DraftPlan(s)
  PROVE  PlannedAs(s)
<1> DEFINE P == Distinct(s)
<1>1. \A i \in DOMAIN s : s[i] \in Ids \cup {-1}
  BY DEF Invalid
<1>2. P \in SUBSET (DOMAIN s) /\ (\A i \in P : s[i] \in Ids) /\ -1 \notin Ids
  BY <1>1, Apart DEF Distinct
<1>3. /\ order' = Queued(P, s)
      /\ mapped' = [i \in DOMAIN s |-> IF s[i] = -1 THEN 0 ELSE Ticket(P, First(s, s[i]))]
      /\ hit' = [i \in DOMAIN s |-> Zeros]
  BY DEF DraftPlan
<1>4. ASSUME NEW i \in DOMAIN s, s[i] # -1 PROVE First(s, s[i]) \in P /\ s[First(s, s[i])] = s[i]
  <2> DEFINE E == {j \in DOMAIN s : s[j] = s[i]}
  <2>1. E \in SUBSET Nat /\ E # {} /\ DOMAIN s = 1..Len(s) /\ Len(s) \in Nat
    OBVIOUS
  <2> HIDE DEF E
  <2>2. PICK j \in E : \A k \in E : j <= k
    BY <2>1, Least
  <2>3. j \in DOMAIN s /\ s[j] = s[i] /\ \A k \in DOMAIN s : s[k] = s[i] => j <= k
    BY <2>2 DEF E
  <2>4. \A k \in 1..j-1 : s[k] # s[j]
    <3> SUFFICES ASSUME NEW k \in 1..j-1 PROVE s[k] # s[j]
      OBVIOUS
    <3>1. k \in DOMAIN s /\ ~(j <= k)
      BY <2>1, <2>3
    <3> QED
      BY <3>1, <2>3
  <2>5. j \in P /\ s[j] = s[i]
    BY <2>3, <2>4, <1>4 DEF Distinct
  <2> QED
    BY <2>5 DEF First
<1> HIDE DEF P
<1>5. /\ order' \in Seq(Ids) /\ Len(order') \in Nat
      /\ \A i \in P : /\ Ticket(P, i) \in 1..Len(order') /\ Ticket(P, i) # 0
                      /\ order'[Ticket(P, i)] = s[i]
  BY <1>2, <1>3, QueueOf
<1>6. ASSUME NEW i \in DOMAIN s
      PROVE  /\ mapped'[i] \in 0..Len(order')
             /\ IF mapped'[i] = 0
                THEN hit'[i] = IF s[i] \in Ids THEN Row(s[i], "opened") ELSE Zeros
                ELSE s[i] \in Ids /\ order'[mapped'[i]] = s[i]
  <2>1. CASE s[i] = -1
    BY <2>1, <1>2, <1>3, <1>5
  <2>2. CASE s[i] # -1
    <3>1. mapped'[i] = Ticket(P, First(s, s[i])) /\ s[i] \in Ids
      BY <2>2, <1>1, <1>3
    <3>2. First(s, s[i]) \in P /\ s[First(s, s[i])] = s[i]
      BY <2>2, <1>4
    <3> QED
      BY <3>1, <3>2, <1>5
  <2> QED
    BY <2>1, <2>2
<1> QED
  BY <1>3, <1>5, <1>6 DEF PlannedAs

LEMMA LookupStep ==
  ASSUME StoreInv, NEW s \in Inputs, Lookup(s)
  PROVE  StoreInv'
<1> DEFINE place == IF failure' # {} THEN "finish"
                    ELSE IF Len(order') < 2 \/ Workers = {} THEN "draw" ELSE "post"
<1>1. /\ pc[Caller] = "idle" /\ lookups < MaxLookups /\ lookups' = lookups + 1 /\ asked' = s
      /\ pc' = [pc EXCEPT ![Caller] = place]
      /\ slots' = [k \in DOMAIN order' |-> NoRow]
      /\ next' = (IF pc'[Caller] = "draw" THEN 1 ELSE next)
      /\ UNCHANGED <<kind, file, refusing, job, remaining, generation, seen, work, ticket, cache>>
  BY DEF Lookup, Goto
<1>2. /\ place \in {"finish", "draw", "post"} /\ (place = "finish" <=> failure' # {})
      /\ (place = "draw" => Len(order') < 2 \/ Workers = {})
      /\ (place = "post" => ~(Len(order') < 2 \/ Workers = {}))
  OBVIOUS
<1> HIDE DEF place
<1>3. failure' = Standing \cup (IF Standing # {} THEN {}
                                ELSE IF file = "changed" THEN {"changed"}
                                ELSE IF Invalid(kind, s) THEN {"invalid"} ELSE {})
  BY DEF Lookup
<1>4. /\ failure' \subseteq Reasons
      /\ (failure' = {} => failure = {} /\ ~Invalid(kind, s))
  BY <1>3, Types DEF StoreInv, Standing, Reasons
<1>5. s \in Seq(Int) /\ s # <<>>
  BY Apart
<1>6. failure' # {} => /\ order' = <<>> /\ mapped' = [i \in DOMAIN s |-> 0]
                       /\ hit' = [i \in DOMAIN s |-> Zeros]
  BY DEF Lookup
<1>7. failure' = {} => PlannedAs(s)
  <2>1. failure' = {} /\ kind = "vocab" => VocabPlan(s)
    BY DEF Lookup
  <2>2. failure' = {} /\ kind # "vocab" => DraftPlan(s)
    BY DEF Lookup
  <2>3. kind \in {"vocab", "draft"}
    BY Apart, Types DEF StoreInv
  <2> QED
    BY <2>1, <2>2, <2>3, <1>4, <1>5, VocabPlans, DraftPlans
<1>8. /\ order' \in Seq(Ids) /\ Len(order') \in Nat /\ DOMAIN order' = 1..Len(order')
      /\ DOMAIN mapped' = DOMAIN s /\ DOMAIN hit' = DOMAIN s
      /\ \A i \in DOMAIN s : mapped'[i] \in 0..Len(order')
  <2>1. CASE failure' # {}
    <3>1. <<>> \in Seq(Ids) /\ Len(<<>>) = 0 /\ DOMAIN <<>> = {} /\ 1..0 = {}
      OBVIOUS
    <3>2. order' = <<>> /\ mapped' = [i \in DOMAIN s |-> 0] /\ hit' = [i \in DOMAIN s |-> Zeros]
      BY <2>1, <1>6
    <3>3. DOMAIN mapped' = DOMAIN s /\ DOMAIN hit' = DOMAIN s /\ \A i \in DOMAIN s : mapped'[i] = 0
      BY <3>2
    <3> QED
      BY <3>1, <3>2, <3>3
  <2>2. CASE failure' = {}
    BY <2>2, <1>7 DEF PlannedAs
  <2> QED
    BY <2>1, <2>2
<1>9. /\ pc'[Caller] = place /\ \A w \in Workers : pc'[w] = pc[w]
      /\ pc' \in [Threads -> Places] /\ next' \in Nat /\ 0 < next'
  BY <1>1, <1>2, Types, Apart DEF StoreInv, Places, TicketInv
<1>10. Owing' = Owing /\ Busy' = Busy
  BY <1>1, <1>9, OwingKept
<1>11. ~Posted /\ ~Posted' /\ job = 0 /\ Owing = {}
  <2>1. ~Posted
    BY <1>1 DEF Posted
  <2>2. ~Posted'
    BY <1>2, <1>9 DEF Posted, Serial
  <2> QED
    BY <2>1, <2>2 DEF StoreInv, CallerInv
<1>12. StoreTypeOK'
  <2>1. lookups' \in 0..MaxLookups /\ job' \in 0..lookups' /\ generation' \in 0..lookups'
    BY <1>1, Types, Apart DEF StoreInv
  <2>2. work' \in [Workers -> 0..lookups'] /\ seen' \in [Workers -> 0..generation']
    <3>1. 0..lookups \subseteq 0..lookups'
      BY <1>1, Types DEF StoreInv
    <3> QED
      BY <3>1, <1>1 DEF StoreInv, StoreTypeOK
  <2> QED
    BY <2>1, <2>2, <1>1, <1>4, <1>8, <1>9 DEF StoreInv, StoreTypeOK
<1>13. SlotInv'
  BY <1>1, <1>8 DEF SlotInv
<1>14. PlanInv'
  BY <1>1, <1>4, <1>5, <1>7, <1>8 DEF StoreInv, PlanInv, PlannedAs
<1>15. CacheInv'
  BY <1>1 DEF StoreInv, CacheInv
<1>16. TicketInv'
  <2>1. \A t \in Threads : pc'[t] # "read"
    <3>1. \A w \in Workers : w \notin Busy
      BY <1>11 DEF Owing
    <3> QED
      BY <3>1, <1>2, <1>9, Apart DEF Busy
  <2>2. pc'[Caller] # "post" /\ failure' = {} => next' = 1
    BY <1>1, <1>2, <1>9
  <2> QED
    BY <2>1, <2>2, <1>8, <1>9 DEF TicketInv
<1>17. CallerInv'
  <2>1. Serial' <=> Len(order') < 2 \/ Workers = {}
    BY DEF Serial
  <2> QED
    BY <2>1, <1>1, <1>2, <1>5, <1>9, <1>10, <1>11, Types DEF StoreInv, CallerInv
<1>18. \A w \in Workers : WorkerInv(w)'
  <2>1. Busy = {}
    BY <1>11 DEF Owing
  <2> QED
    BY <2>1, <1>9, <1>10 DEF StoreInv, WorkerInv
<1> QED
  BY <1>1, <1>10, <1>12, <1>13, <1>14, <1>15, <1>16, <1>17, <1>18 DEF StoreInv

-----------------------------------------------------------------------------
(* The end of a lookup *)

\* Nothing failed, so everything was read, from the file that was opened.
LEMMA AllRead ==
  ASSUME StoreInv, pc[Caller] = "finish", failure = {}, file # "changed"
  PROVE  \A k \in DOMAIN order : slots[k] = Row(order[k], "opened")
<1>1. ~Posted /\ Len(order) < next
  BY DEF Posted, StoreInv, CallerInv
<1>2. Busy = {}
  BY <1>1 DEF StoreInv, CallerInv, Owing
<1>3. \A t \in Threads : pc[t] # "read"
  BY <1>2, Apart DEF Busy
<1>4. ASSUME NEW k \in DOMAIN order PROVE slots[k] # NoRow
  <2>1. ~(next <= k)
    BY <1>1, Orders, Types DEF StoreInv
  <2> QED
    BY <2>1, <1>3 DEF StoreInv, TicketInv, Served
<1> QED
  BY <1>4 DEF StoreInv, SlotInv

LEMMA FinishStep ==
  ASSUME StoreInv, Finish
  PROVE  StoreInv'
<1>1. /\ pc[Caller] = "finish" /\ failure' = Rechecked /\ refusing' = (failure' # {})
      /\ asked' = <<>> /\ mapped' = <<>> /\ hit' = <<>> /\ order' = <<>> /\ slots' = <<>>
      /\ pc' = [pc EXCEPT ![Caller] = "idle"]
      /\ UNCHANGED <<kind, file, lookups, job, next, remaining, generation, seen, work, ticket>>
  BY DEF Finish, Goto
<1>2. /\ failure' \subseteq Reasons
      /\ (failure' = {} => failure = {} /\ file # "changed")
  BY <1>1, Types DEF StoreInv, Rechecked, Reasons
<1>3. /\ pc'[Caller] = "idle" /\ \A w \in Workers : pc'[w] = pc[w]
      /\ pc' \in [Threads -> Places]
  BY <1>1, Types, Apart DEF StoreInv, Places
<1>4. Owing' = Owing /\ Busy' = Busy
  BY <1>1, <1>3, OwingKept
<1>5. ~Posted /\ ~Posted' /\ job = 0 /\ Owing = {}
  BY <1>1, <1>3 DEF Posted, StoreInv, CallerInv
<1>6. StoreTypeOK'
  BY <1>1, <1>2, <1>3 DEF StoreInv, StoreTypeOK
<1>7. SlotInv'
  BY <1>1 DEF SlotInv
<1>8. PlanInv'
  <2>1. <<>> \in Seq(Int) /\ DOMAIN <<>> = {}
    OBVIOUS
  <2> QED
    BY <2>1, <1>1 DEF PlanInv, Invalid
<1>9. CacheInv'
  <2> DEFINE filled(s) == {k \in DOMAIN order : SlotOf(order[k]) = s}
  <2> DEFINE last(s) == CHOOSE k \in filled(s) : \A j \in filled(s) : j <= k
  <2>1. CASE failure' # {} \/ kind = "draft"
    <3>1. cache' = cache
      BY <2>1 DEF Finish
    <3> QED
      BY <3>1 DEF StoreInv, CacheInv
  <2>2. CASE ~(failure' # {} \/ kind = "draft")
    <3>1. cache' = [s \in DOMAIN cache |-> IF filled(s) = {} THEN cache[s] ELSE slots[last(s)]]
      BY <2>2 DEF Finish
    <3>2. ASSUME NEW s \in DOMAIN cache, filled(s) # {}
          PROVE  \E id \in Ids : slots[last(s)] = Row(id, "opened")
      <4>1. filled(s) \in SUBSET (1..Len(order)) /\ Len(order) \in Nat
        BY Orders
      <4> HIDE DEF filled
      <4>2. \E k \in filled(s) : \A j \in filled(s) : j <= k
        BY <4>1, <3>2, Greatest
      <4>3. last(s) \in filled(s)
        BY <4>2
      <4> HIDE DEF last
      <4>4. last(s) \in DOMAIN order /\ order[last(s)] \in Ids
        BY <4>1, <4>3, Orders
      <4>5. slots[last(s)] = Row(order[last(s)], "opened")
        BY <4>4, <2>2, <1>1, <1>2, AllRead
      <4> QED
        BY <4>4, <4>5
    <3> HIDE DEF filled, last
    <3>3. DOMAIN cache' = DOMAIN cache
      BY <3>1
    <3>4. ASSUME NEW s \in DOMAIN cache PROVE cache'[s] = NoRow \/ \E id \in Ids : cache'[s] = Row(id, "opened")
      <4>1. CASE filled(s) = {}
        BY <4>1, <3>1 DEF StoreInv, CacheInv
      <4>2. CASE filled(s) # {}
        BY <4>2, <3>1, <3>2
      <4> QED
        BY <4>1, <4>2
    <3> QED
      BY <3>3, <3>4 DEF StoreInv, CacheInv
  <2> QED
    BY <2>1, <2>2
<1>10. TicketInv'
  <2>1. \A t \in Threads : pc'[t] # "read"
    BY <1>3, <1>4, <1>5, Apart DEF Owing, Busy
  <2>2. DOMAIN order' = {} /\ 0 < next'
    BY <1>1 DEF StoreInv, TicketInv
  <2> QED
    BY <2>1, <2>2 DEF TicketInv
<1>11. CallerInv'
  BY <1>1, <1>3, <1>4, <1>5 DEF CallerInv
<1>12. \A w \in Workers : WorkerInv(w)'
  <2>1. Busy = {}
    BY <1>5 DEF Owing
  <2> QED
    BY <2>1, <1>3, <1>4 DEF StoreInv, WorkerInv
<1> QED
  BY <1>1, <1>4, <1>6, <1>7, <1>8, <1>9, <1>10, <1>11, <1>12 DEF StoreInv

-----------------------------------------------------------------------------
(* The theorems *)

LEMMA StoreInitially ==
  ASSUME Init
  PROVE  StoreInv
<1>1. /\ kind \in Kinds /\ file = "opened" /\ failure = {} /\ lookups = 0 /\ job = 0
      /\ asked = <<>> /\ refusing = FALSE
      /\ pc = [t \in Threads |-> IF t = Caller THEN "idle" ELSE "loop"]
      /\ order = <<>> /\ slots = <<>> /\ mapped = <<>> /\ hit = <<>>
      /\ next = 1 /\ remaining = 0 /\ generation = 0
      /\ seen = [w \in Workers |-> 0] /\ work = [w \in Workers |-> 0]
      /\ ticket = [t \in Threads |-> 0] /\ cache = [s \in 0..CacheSlots-1 |-> NoRow]
  BY DEF Init, CL!LookupInit
<1>2. pc[Caller] = "idle" /\ \A w \in Workers : pc[w] = "loop"
  BY <1>1, Apart
<1>3. Owing = {} /\ Busy = {} /\ ~Posted
  BY <1>1, <1>2 DEF Owing, Busy, Posted
<1>4. remaining = Cardinality(Owing)
  BY <1>1, <1>3, FS_EmptySet
<1>5. StoreTypeOK
  <2>1. /\ lookups \in 0..MaxLookups /\ job \in 0..lookups /\ generation \in 0..lookups /\ next \in Nat
        /\ remaining \in 0..Cardinality(Workers) /\ failure \subseteq Reasons
    BY <1>1, Apart, FS_CardinalityType
  <2>2. /\ pc \in [Threads -> Places] /\ seen \in [Workers -> 0..generation]
        /\ work \in [Workers -> 0..lookups] /\ ticket \in [Threads -> Nat]
    BY <1>1 DEF Places
  <2>3. DOMAIN mapped = DOMAIN asked /\ \A i \in DOMAIN mapped : mapped[i] \in 0..Len(order)
    BY <1>1
  <2> QED
    BY <2>1, <2>2, <2>3, <1>1 DEF StoreTypeOK
<1>6. SlotInv /\ CacheInv
  BY <1>1 DEF SlotInv, CacheInv
<1>7. PlanInv
  <2>1. <<>> \in Seq(Int) /\ DOMAIN <<>> = {}
    OBVIOUS
  <2> QED
    BY <2>1, <1>1 DEF PlanInv, Invalid
<1>8. TicketInv
  <2>1. \A t \in Threads : pc[t] # "read"
    BY <1>2, Apart
  <2> QED
    BY <2>1, <1>1 DEF TicketInv
<1>9. CallerInv
  BY <1>1, <1>2, <1>3 DEF CallerInv
<1>10. \A w \in Workers : WorkerInv(w)
  BY <1>2, <1>3 DEF WorkerInv
<1> QED
  BY <1>4, <1>5, <1>6, <1>7, <1>8, <1>9, <1>10 DEF StoreInv

LEMMA StoreStutters ==
  ASSUME StoreInv, UNCHANGED vars
  PROVE  StoreInv'
<1>1. /\ UNCHANGED <<kind, file, failure, interface, plan, slots, cache>>
      /\ UNCHANGED <<lookups, pc, job, next, remaining, generation, seen, work, ticket>>
  BY DEF vars
<1>2. UNCHANGED <<kind, file, failure, asked, order, mapped, slots>>
  BY <1>1 DEF interface, plan
<1>3. Owing' = Owing /\ Busy' = Busy
  BY <1>1, OwingKept
<1>4. StoreTypeOK' /\ remaining' = Cardinality(Owing')
  BY <1>1, <1>2, <1>3, TypesAgain DEF StoreInv, StoreTypeOK
<1>5. SlotInv' /\ PlanInv' /\ CacheInv'
  BY <1>1, DataKept
<1>6. TicketInv'
  BY <1>1, <1>2, TicketsKept
<1>7. CallerInv' /\ (Posted' <=> Posted)
  BY <1>1, <1>2, <1>3 DEF StoreInv, CallerInv, Posted, Serial
<1>8. \A w \in Workers : WorkerInv(w)'
  BY <1>1, <1>3, <1>7 DEF StoreInv, WorkerInv
<1> QED
  BY <1>4, <1>5, <1>6, <1>7, <1>8 DEF StoreInv

LEMMA StoreSteps ==
  ASSUME StoreInv, [Next]_vars
  PROVE  StoreInv'
<1>1. ASSUME NEW t \in Threads, Works(t) PROVE StoreInv'
  BY <1>1, DrawStep, ReadStep DEF Works
<1>2. ASSUME CallerStep PROVE StoreInv'
  <2>1. Caller \in Threads
    BY Apart
  <2> QED
    BY <1>1, <1>2, <2>1, PostStep, WakeStep, CloseStep, WaitStep, FinishStep DEF CallerStep
<1>3. ASSUME NEW w \in Workers, WorkerStep(w) PROVE StoreInv'
  <2>1. w \in Threads
    BY Apart
  <2> QED
    BY <1>1, <1>3, <2>1, JoinStep, SleepStep, LeaveStep DEF WorkerStep
<1> QED
  BY <1>2, <1>3, LookupStep, FileStep, StoreStutters DEF Next

\* StoreInv holds in every state of both stores: remaining is the number of
\* helpers a lookup still has to wait for, each ticket is read, being read or to
\* be drawn until something fails, and the cache holds rows of the opened file.
THEOREM StoreInvariant == Spec => []StoreInv
<1>1. Init => StoreInv
  BY StoreInitially
<1>2. StoreInv /\ [Next]_vars => StoreInv'
  BY StoreSteps
<1> QED
  BY <1>1, <1>2, PTL DEF Spec

\* The state is well typed; remaining never runs below zero or past the helpers,
\* and every planned record has its place in the order.
THEOREM StoreTypes == Spec => []StoreTypeOK
<1>1. StoreInv => StoreTypeOK
  BY DEF StoreInv
<1> QED
  BY <1>1, StoreInvariant, PTL

\* A helper in the job works on the Work of the lookup in progress, which returns
\* only when the helper has left.
THEOREM StoreWorkIsLive == Spec => []WorkIsLive
<1>1. StoreInv => WorkIsLive
  <2> SUFFICES ASSUME StoreInv, NEW w \in Workers, pc[w] \in {"draw", "read", "leave"}
               PROVE  /\ asked # <<>> /\ work[w] = lookups
                      /\ pc[Caller] \notin {"idle", "post", "finish"}
    BY DEF WorkIsLive
  <2>1. Posted /\ work[w] = lookups
    BY DEF StoreInv, WorkerInv, Busy
  <2> QED
    BY <2>1 DEF StoreInv, CallerInv, Posted
<1> QED
  BY <1>1, StoreInvariant, PTL

-----------------------------------------------------------------------------
(* The stores implement CheckedLookup. *)

LEMMA FinishImplements ==
  ASSUME StoreInv, Finish
  PROVE  CL!LookupNext
<1>1. /\ pc[Caller] = "finish" /\ failure' = Rechecked /\ refusing' = (failure' # {})
      /\ reply' = (IF failure' = {} THEN [i \in DOMAIN asked |-> Output(i)] ELSE <<>>)
      /\ asked' = <<>> /\ kind' = kind
  BY DEF Finish
<1>2. asked # <<>>
  BY <1>1 DEF StoreInv, CallerInv
<1>3. CASE failure' # {}
  BY <1>1, <1>2, <1>3 DEF CL!LookupNext, CL!Refuse
<1>4. CASE failure' = {}
  <2>1. failure = {} /\ file # "changed"
    BY <1>1, <1>4 DEF Rechecked
  <2>2. ~refusing /\ ~Invalid(kind, asked) /\ refusing' = FALSE
    BY <1>1, <1>4, <2>1 DEF StoreInv, PlanInv
  <2>3. refusing = FALSE
    BY <2>2
  <2>4. \A k \in DOMAIN order : slots[k] = Row(order[k], "opened")
    BY <1>1, <2>1, AllRead
  <2>5. \A i \in DOMAIN asked : Output(i) = IF asked[i] \in Ids THEN Row(asked[i], "opened") ELSE Zeros
    <3> SUFFICES ASSUME NEW i \in DOMAIN asked
                 PROVE  Output(i) = IF asked[i] \in Ids THEN Row(asked[i], "opened") ELSE Zeros
      OBVIOUS
    <3>1. mapped[i] \in 0..Len(order)
      BY DEF StoreInv, PlanInv
    <3>2. CASE mapped[i] = 0
      BY <3>2, <2>1 DEF StoreInv, PlanInv, Output
    <3>3. CASE mapped[i] # 0
      <4>1. asked[i] \in Ids /\ order[mapped[i]] = asked[i]
        BY <3>3, <2>1 DEF StoreInv, PlanInv
      <4>2. mapped[i] \in DOMAIN order
        BY <3>1, <3>3, Orders
      <4> QED
        BY <3>3, <4>1, <4>2, <2>4 DEF Output
    <3> QED
      BY <3>2, <3>3
  <2>6. reply' = Exact(asked)
    BY <1>1, <1>4, <2>5 DEF Exact
  <2> QED
    BY <1>1, <1>2, <2>2, <2>3, <2>6 DEF CL!LookupNext, CL!Serve
<1> QED
  BY <1>3, <1>4

LEMMA StoreImplements ==
  ASSUME StoreInv, [Next]_vars
  PROVE  [CL!LookupNext]_(CL!lookupVars)
<1>1. ASSUME NEW s \in Inputs, Lookup(s) PROVE CL!LookupNext
  <2>1. asked = <<>> /\ asked' = s /\ UNCHANGED <<kind, reply, refusing>>
    BY <1>1 DEF Lookup, StoreInv, CallerInv
  <2> QED
    BY <2>1 DEF CL!LookupNext, CL!AskFor
<1>2. ASSUME NEW t \in Threads, Works(t) PROVE UNCHANGED CL!lookupVars
  BY <1>2 DEF Works, Draw, Read, interface, CL!lookupVars
<1>3. ASSUME Post \/ Wake \/ Close \/ Wait PROVE UNCHANGED CL!lookupVars
  BY <1>3 DEF Post, Wake, Close, Wait, interface, CL!lookupVars
<1>4. ASSUME CallerStep PROVE [CL!LookupNext]_(CL!lookupVars)
  <2>1. Caller \in Threads
    BY Apart
  <2> QED
    BY <1>2, <1>3, <1>4, <2>1, FinishImplements DEF CallerStep
<1>5. ASSUME NEW w \in Workers, WorkerStep(w) PROVE UNCHANGED CL!lookupVars
  <2>1. w \in Threads
    BY Apart
  <2>2. ASSUME Join(w) \/ Sleep(w) \/ Leave(w) PROVE UNCHANGED CL!lookupVars
    BY <2>2 DEF Join, Sleep, Leave, interface, CL!lookupVars
  <2> QED
    BY <1>2, <1>5, <2>1, <2>2 DEF WorkerStep
<1>6. ASSUME FileChanges PROVE UNCHANGED CL!lookupVars
  BY <1>6 DEF FileChanges, interface, CL!lookupVars
<1>7. ASSUME UNCHANGED vars PROVE UNCHANGED CL!lookupVars
  BY <1>7 DEF vars, interface, CL!lookupVars
<1> QED
  BY <1>1, <1>4, <1>5, <1>6, <1>7 DEF Next

\* Both stores implement CheckedLookup: a lookup that ends with status 0 has the
\* exact rows of the file that was opened, and after any other status none does.
THEOREM StoreIsChecked == Spec => LookupIsChecked
<1>1. Init => CL!LookupInit
  BY DEF Init
<1>2. StoreInv /\ [Next]_vars => [CL!LookupNext]_(CL!lookupVars)
  BY StoreImplements
<1> QED
  BY <1>1, <1>2, StoreInvariant, PTL DEF Spec, LookupIsChecked, CL!LookupSpec


-----------------------------------------------------------------------------
(* No wakeup is lost. *)

\* Where the caller is between its notification and the end of its wait.
Notified == {"draw", "read", "close", "wait", "asleep"}

\* The caller sleeps only while remaining counts somebody, and nobody who is
\* counted without having joined sleeps.
WakeInv ==
  /\ pc[Caller] = "asleep" => remaining # 0
  /\ kind = "draft" /\ pc[Caller] \in Notified =>
       \A w \in Workers : seen[w] # generation => pc[w] # "asleep"

\* A helper that need not wait for anybody: just when Join, Works or Leave is
\* enabled for it.
Moves(w) == pc[w] \in {"draw", "read", "leave"} \/ (pc[w] = "loop" /\ Joins(w))

\* A caller that sleeps is owed a report by a helper that can step.
NeverStuck == pc[Caller] = "asleep" => \E w \in Workers : Moves(w)

\* A thread that draws or reads does not go to sleep.
LEMMA WorksWake ==
  ASSUME StoreInv, WakeInv, NEW t \in Threads, Works(t)
  PROVE  WakeInv'
<1>1. Caller \in Threads /\ Workers \subseteq Threads /\ pc \in [Threads -> Places]
  BY Apart, Types DEF StoreInv
<1>2. /\ pc[t] \in {"draw", "read"} /\ UNCHANGED <<kind, remaining, seen, generation>>
      /\ pc'[t] # "asleep" /\ \A u \in Threads : u # t => pc'[u] = pc[u]
  BY <1>1 DEF Works, Draw, Read, Goto
<1> QED
  BY <1>1, <1>2 DEF WakeInv, Notified

\* The steps of the caller: it notifies every helper that sleeps, and sleeps
\* itself only when somebody is counted.
LEMMA CallerWakes ==
  ASSUME StoreInv, StoreInv', WakeInv, CallerStep
  PROVE  WakeInv'
<1>1. Caller \in Threads /\ Caller \notin Workers /\ Workers \subseteq Threads /\ pc \in [Threads -> Places]
  BY Apart, Types DEF StoreInv
<1>2. CASE Works(Caller)
  BY <1>1, <1>2, WorksWake
<1>3. CASE Post \/ Finish
  <2>1. pc' = [pc EXCEPT ![Caller] = "wake"] \/ pc' = [pc EXCEPT ![Caller] = "idle"]
    BY <1>3 DEF Post, Finish, Goto
  <2>2. pc'[Caller] \notin Notified
    BY <1>1, <2>1 DEF Notified
  <2> QED
    BY <2>2 DEF WakeInv, Notified
<1>4. CASE Wake
  <2>1. PICK W \in SUBSET Asleep :
          /\ Woken(W)
          /\ pc' = [u \in Threads |-> IF u = Caller THEN "draw" ELSE IF u \in W THEN "loop" ELSE pc[u]]
    BY <1>4 DEF Wake
  <2>2. kind' = kind /\ pc'[Caller] = "draw"
    BY <1>1, <1>4, <2>1 DEF Wake
  <2>3. kind = "draft" => \A w \in Workers : pc'[w] # "asleep"
    BY <1>1, <2>1 DEF Woken, Asleep
  <2> QED
    BY <2>2, <2>3 DEF WakeInv
<1>5. CASE Close \/ Wait
  <2>1. /\ pc[Caller] \in {"close", "wait"} /\ UNCHANGED <<kind, remaining, seen, generation>>
        /\ pc'[Caller] = "asleep" => remaining # 0
        /\ \A w \in Workers : pc'[w] = pc[w]
    BY <1>1, <1>5 DEF Close, Wait, Goto
  <2> QED
    BY <2>1 DEF WakeInv, Notified
<1> QED
  BY <1>2, <1>3, <1>4, <1>5 DEF CallerStep

\* The steps of a helper: the last one to report wakes the caller, and none
\* sleeps that has a generation to join.
LEMMA HelperWakes ==
  ASSUME StoreInv, StoreInv', WakeInv, NEW w \in Workers, WorkerStep(w)
  PROVE  WakeInv'
<1>1. /\ w \in Threads /\ w # Caller /\ Caller \in Threads /\ Workers \subseteq Threads
      /\ pc \in [Threads -> Places] /\ remaining \in Nat /\ kind \in {"vocab", "draft"}
      /\ seen \in [Workers -> Nat]
  BY Apart, Types DEF StoreInv
<1>2. CASE Works(w)
  BY <1>1, <1>2, WorksWake
<1>3. CASE Join(w)
  <2>1. /\ pc' = [pc EXCEPT ![w] = "draw"] /\ seen' = [seen EXCEPT ![w] = generation]
        /\ UNCHANGED <<kind, generation>>
        /\ remaining' = remaining \/ remaining' = remaining + 1
    BY <1>3 DEF Join, Goto
  <2>2. pc'[Caller] = pc[Caller] /\ \A v \in Workers : v # w => pc'[v] = pc[v] /\ seen'[v] = seen[v]
    BY <1>1, <2>1
  <2>3. pc'[w] = "draw"
    BY <1>1, <2>1
  <2> QED
    BY <1>1, <2>1, <2>2, <2>3 DEF WakeInv
<1>4. CASE Sleep(w)
  <2>1. ~Joins(w) /\ pc' = [pc EXCEPT ![w] = "asleep"] /\ UNCHANGED <<kind, generation, seen, remaining>>
    BY <1>4 DEF Sleep, Goto
  <2>2. kind = "draft" => seen[w] = generation
    BY <1>1, <2>1 DEF Joins
  <2>3. pc'[Caller] = pc[Caller] /\ \A v \in Workers : v # w => pc'[v] = pc[v]
    BY <1>1, <2>1
  <2> QED
    BY <2>1, <2>2, <2>3 DEF WakeInv
<1>5. CASE Leave(w)
  <2>1. /\ UNCHANGED <<kind, generation, seen>> /\ remaining' = remaining - 1
        /\ pc' = [pc EXCEPT ![w] = "loop",
                            ![Caller] = IF remaining = 1 /\ @ = "asleep" THEN "wait" ELSE @]
    BY <1>5 DEF Leave
  <2>2. /\ pc'[Caller] = (IF remaining = 1 /\ pc[Caller] = "asleep" THEN "wait" ELSE pc[Caller])
        /\ pc'[w] = "loop"
        /\ \A v \in Workers : v # w => pc'[v] = pc[v]
    BY <1>1, <2>1, Apart
  <2>3. pc'[Caller] = "asleep" => remaining' # 0
    BY <1>1, <2>1, <2>2 DEF WakeInv
  <2>4. pc'[Caller] \in Notified => pc[Caller] \in Notified
    BY <2>2 DEF Notified
  <2> QED
    BY <2>1, <2>2, <2>3, <2>4 DEF WakeInv
<1> QED
  BY <1>2, <1>3, <1>4, <1>5 DEF WorkerStep

\* A new lookup finds no helper behind.
LEMMA LookupWakes ==
  ASSUME StoreInv, StoreInv', NEW s \in Inputs, Lookup(s)
  PROVE  WakeInv'
<1>1. Caller \in Threads /\ pc \in [Threads -> Places]
  BY Apart, Types DEF StoreInv
<1>2. /\ \/ pc' = [pc EXCEPT ![Caller] = "finish"]
         \/ pc' = [pc EXCEPT ![Caller] = IF Len(order') < 2 \/ Workers = {} THEN "draw" ELSE "post"]
      /\ UNCHANGED <<kind, seen, generation>>
  BY DEF Lookup, Goto
<1>3. pc'[Caller] \in {"finish", "draw", "post"} /\ (pc'[Caller] = "draw" => Serial')
  BY <1>1, <1>2 DEF Serial
<1>4. pc'[Caller] \in Notified => Owing' = {}
  BY <1>3 DEF Notified, StoreInv, CallerInv, Posted
<1> QED
  BY <1>3, <1>4 DEF WakeInv, Owing

\* While the caller of a lookup sleeps, a helper it waits for is at work, or is
\* awake and about to join.
THEOREM NoWakeupIsLost == Spec => []NeverStuck
<1>1. Init => WakeInv
  BY Apart DEF Init, WakeInv, Notified
<1>2. StoreInv /\ StoreInv' /\ WakeInv /\ [Next]_vars => WakeInv'
  <2> SUFFICES ASSUME StoreInv, StoreInv', WakeInv, [Next]_vars
               PROVE  WakeInv'
    OBVIOUS
  <2>1. ASSUME FileChanges \/ UNCHANGED vars
        PROVE  WakeInv'
    <3>1. UNCHANGED <<pc, kind, remaining, seen, generation>>
      BY <2>1 DEF FileChanges, vars
    <3> QED
      BY <3>1 DEF WakeInv
  <2> QED
    BY <2>1, CallerWakes, HelperWakes, LookupWakes DEF Next
<1>3. StoreInv /\ WakeInv => NeverStuck
  <2> SUFFICES ASSUME StoreInv, WakeInv, pc[Caller] = "asleep"
               PROVE  \E w \in Workers : Moves(w)
    BY DEF NeverStuck
  <2>1. PICK w \in Workers : w \in Owing
    BY FiniteOwing, FS_EmptySet DEF StoreInv, WakeInv, Owing, Busy
  <2>2. CASE w \in Busy
    BY <2>2 DEF Busy, Moves
  <2>3. CASE w \notin Busy
    <3>1. kind = "draft" /\ seen[w] # generation /\ pc[w] # "asleep"
      BY <2>1, <2>3 DEF Owing, WakeInv, Notified
    <3>2. pc[w] = "loop"
      BY <2>3, <3>1 DEF StoreInv, WorkerInv, Busy
    <3> QED
      BY <3>1, <3>2 DEF Moves, Joins
  <2> QED
    BY <2>2, <2>3
<1> QED
  BY <1>1, <1>2, <1>3, StoreInvariant, PTL DEF Spec
=============================================================================
