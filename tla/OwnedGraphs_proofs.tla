------------------------- MODULE OwnedGraphs_proofs -------------------------
(* Proofs about the deferred validation of graphs, for any number of steps,  *)
(* any plan, any lead over the outputs and any number of errors: GraphInv is *)
(* inductive, and every safety property of the module follows from it.       *)
EXTENDS OwnedGraphs, TLAPS

Planned == {id \in Ids : GraphOf(id) \in plan[StepOf(id)]}
Front(r) == Id(step[r], at[r])
Inside == {"entered", "drain", "replay", "defer"}
Good(r, id) == id \in done[r] /\ id \notin WrongReplays

\* A thread inside an execution has a graph to replay.
BusyInv(r) == main[r] \in Inside => Here(r) # {} /\ step[r] <= Steps

\* What was issued is the plan up to here, and the replay under way.
StreamInv(r) ==
  /\ issued[r] \subseteq Planned
  /\ \A id \in issued[r] :
       \/ id < Front(r)
       \/ Here(r) # {} /\ id = Current(r) /\ (main[r] = "defer" \/ r \in broken)
  /\ \A id \in Planned : id < Front(r) => id \in issued[r]
  /\ main[r] = "defer" => Current(r) \in issued[r]
  /\ \A id \in Ids : <<r, id>> \in bad => id \in issued[r]

\* The GPU finishes in order, and only what both ranks have issued.
DoneInv(r) ==
  /\ done[r] \subseteq issued[r] /\ done[r] \subseteq issued[Peer(r)]
  /\ \A id \in done[r], j \in issued[r] : j < id => j \in done[r]

\* A host buffer holds the last replay of its owner.
BufferInv(r) ==
  /\ \A g \in Graphs : buffer[r][g] \in issued[r] \cup {0}
  /\ \A g \in pending[r] : buffer[r][g] # 0
  /\ \A id \in issued[r] :
       \/ id <= buffer[r][GraphOf(id)]
       \/ main[r] = "defer" /\ id = Current(r)
       \/ r \in broken

\* Who has raised is poisoned, and who is poisoned has raised.
PoisonInv(r) ==
  /\ main[r] = "raised" => failed[r] # {}
  /\ failed[r] # {} => main[r] = "raised" \/ (r = Head /\ out = "raised")
  /\ r \in broken => main[r] = "raised"
  /\ r \in destroyed <=> main[r] = "cleared"

\* Every replay is still to be looked at, or was found good, or was reported.
KeptInv(r) ==
  \A id \in issued[r] :
    \/ \E g \in pending[r] : buffer[r][g] = id
    \/ main[r] = "defer" /\ id = Current(r)
    \/ Good(r, id) \/ main[r] = "raised" \/ out = "raised"

\* Nothing is issued behind a replay that was not found good.
PastInv(r) == \A id, j \in issued[r] : id < j => Good(r, id) \/ out = "raised"

\* A thread that raised and was not broken has seen an error.
CulpritInv(r) ==
  main[r] = "raised" /\ r \notin broken =>
    out = "raised" \/ \E id \in done[r] : id \in WrongReplays

\* The outputs that have left.
LeftInv ==
  /\ returned < step[Head]
  /\ out = "drain" => returned + 1 < step[Head]
  /\ \A id \in issued[Head] :
       StepOf(id) <= returned =>
         \/ Good(Head, id)
         \/ main[Head] = "raised" /\ \A g \in plan[StepOf(id)] : g <= GraphOf(id)

GraphInv ==
  /\ GraphTypeOK /\ DrainedBeforeReplay /\ DestroyedIdle /\ LeftInv
  /\ \A r \in Ranks :
       /\ BusyInv(r) /\ StreamInv(r) /\ DoneInv(r) /\ BufferInv(r) /\ PoisonInv(r)
       /\ KeptInv(r) /\ PastInv(r) /\ CulpritInv(r)

-----------------------------------------------------------------------------
(* Numbers of replays.                                                       *)
LEMMA Numbers ==
  /\ \A k \in Nat, g \in Graphs : StepOf(Id(k, g)) = k /\ GraphOf(Id(k, g)) = g /\ Id(k, g) \in Nat
  /\ \A k \in 1..Steps, g \in Graphs : Id(k, g) \in Ids
  /\ \A id \in Ids : /\ id \in Nat \ {0} /\ StepOf(id) \in 1..Steps /\ GraphOf(id) \in Graphs
                     /\ id = Id(StepOf(id), GraphOf(id))
BY GraphAssumption DEF Id, Ids, StepOf, GraphOf, Graphs

LEMMA RankFacts ==
  /\ \A r \in Ranks : Peer(r) \in Ranks /\ Peer(r) # r /\ Peer(Peer(r)) = r /\ (r = Head \/ r = Peer(Head))
  /\ Head \in Ranks /\ Ranks = {Head, Peer(Head)}
BY DEF Ranks, Peer, Head

(* The step and the place of a rank are numbers.                             *)
LEMMA Counts ==
  ASSUME GraphInv, NEW r \in Ranks
  PROVE  step[r] \in Nat /\ at[r] \in Nat
<1>1. step \in [Ranks -> 1..(Steps + 1)] /\ at \in [Ranks -> 0..2]
  BY DEF GraphInv, GraphTypeOK
<1>2. step[r] \in 1..(Steps + 1) /\ at[r] \in 0..2
  BY <1>1
<1> QED
  BY <1>2, GraphAssumption

(* The first graph of a step that is still to come.                          *)
LEMMA UpcomingFirst ==
  ASSUME GraphTypeOK, NEW r \in Ranks, Here(r) # {}, step[r] <= Steps
  PROVE  /\ Upcoming(r) \in Graphs /\ Upcoming(r) \in plan[step[r]] /\ at[r] <= Upcoming(r)
         /\ \A g \in plan[step[r]] : g < Upcoming(r) => g < at[r]
         /\ Current(r) \in Planned /\ Current(r) >= Front(r)
         /\ StepOf(Current(r)) = step[r] /\ GraphOf(Current(r)) = Upcoming(r)
<1>1. step[r] \in 1..Steps /\ plan[step[r]] \subseteq Graphs /\ at[r] \in 0..2
  BY GraphAssumption DEF GraphTypeOK
<1>2. \E g \in Here(r) : \A h \in Here(r) : g <= h
  <2>1. Here(r) \subseteq {0, 1}
    BY <1>1 DEF Here, Graphs
  <2> QED
    BY <2>1
<1>3. Upcoming(r) \in Here(r) /\ \A h \in Here(r) : Upcoming(r) <= h
  BY <1>2 DEF Upcoming
<1>4. Upcoming(r) \in Graphs /\ Upcoming(r) \in plan[step[r]] /\ at[r] <= Upcoming(r)
  BY <1>1, <1>3 DEF Here
<1>5. \A g \in plan[step[r]] : g < Upcoming(r) => g < at[r]
  BY <1>1, <1>3, <1>4 DEF Here, Graphs
<1>6. Current(r) \in Ids /\ StepOf(Current(r)) = step[r] /\ GraphOf(Current(r)) = Upcoming(r)
  BY <1>1, <1>4, Numbers DEF Current
<1>7. Current(r) >= Front(r)
  BY <1>1, <1>4 DEF Current, Front, Id, Graphs
<1> QED
  BY <1>4, <1>5, <1>6, <1>7 DEF Planned

(* Steps that leave the position of the threads alone leave the next replay alone. *)
LEMMA SamePlace ==
  ASSUME UNCHANGED <<plan, step, at>>, NEW r \in Ranks
  PROVE  /\ Here(r)' = Here(r) /\ Current(r)' = Current(r)
         /\ Front(r)' = Front(r) /\ Planned' = Planned
BY DEF Here, Upcoming, Current, Front, Planned

(* What is good stays good.                                                  *)
LEMMA GoodStays ==
  ASSUME GraphTypeOK, bad' = bad, done' \in [Ranks -> SUBSET Ids],
         \A r \in Ranks : done[r] \subseteq done'[r]
  PROVE  /\ WrongReplays' = WrongReplays
         /\ \A r \in Ranks, id \in Ids : Good(r, id) => Good(r, id)'
BY DEF GraphTypeOK, Good, WrongReplays

(* An execution begins, or is refused: somebody has seen an error before.    *)
LEMMA EnterKeeps ==
  ASSUME GraphInv, NEW r \in Ranks, Enter(r)
  PROVE  GraphInv'
<1>1. GraphTypeOK' /\ DrainedBeforeReplay' /\ DestroyedIdle'
  BY RankFacts DEF GraphInv, Enter, Turn, ends, gpu, GraphTypeOK, DrainedBeforeReplay,
     DestroyedIdle, PoisonInv, LeftInv, Running
<1>2. LeftInv'
  BY GoodStays, SamePlace, RankFacts DEF GraphInv, Enter, Turn, ends, gpu, GraphTypeOK,
     PoisonInv, LeftInv
<1>3. ASSUME NEW s \in Ranks
      PROVE  BusyInv(s)' /\ StreamInv(s)' /\ DoneInv(s)' /\ BufferInv(s)'
  BY <1>3, SamePlace, RankFacts DEF GraphInv, Enter, Turn, ends, gpu, GraphTypeOK, PoisonInv,
     BusyInv, StreamInv, DoneInv, BufferInv, Inside
<1>4. ASSUME NEW s \in Ranks
      PROVE  PoisonInv(s)' /\ KeptInv(s)' /\ PastInv(s)' /\ CulpritInv(s)'
  BY <1>4, SamePlace, GoodStays, RankFacts DEF GraphInv, Enter, Turn, ends, gpu, GraphTypeOK,
     PoisonInv, KeptInv, PastInv, CulpritInv
<1> QED
  BY <1>1, <1>2, <1>3, <1>4 DEF GraphInv

(* The executing thread takes the lock.                                      *)
LEMMA TakePendingKeeps ==
  ASSUME GraphInv, NEW r \in Ranks, TakePending(r)
  PROVE  GraphInv'
<1>1. GraphTypeOK' /\ DrainedBeforeReplay' /\ DestroyedIdle'
  BY RankFacts DEF GraphInv, TakePending, Hold, Turn, ends, gpu, GraphTypeOK,
     DrainedBeforeReplay, DestroyedIdle, PoisonInv, LeftInv, Running
<1>2. LeftInv'
  BY GoodStays, SamePlace, RankFacts DEF GraphInv, TakePending, Hold, Turn, ends, gpu,
     GraphTypeOK, PoisonInv, LeftInv
<1>3. ASSUME NEW s \in Ranks
      PROVE  BusyInv(s)' /\ StreamInv(s)' /\ DoneInv(s)' /\ BufferInv(s)'
  BY <1>3, SamePlace, RankFacts DEF GraphInv, TakePending, Hold, Turn, ends, gpu, GraphTypeOK,
     PoisonInv, BusyInv, StreamInv, DoneInv, BufferInv, Inside
<1>4. ASSUME NEW s \in Ranks
      PROVE  PoisonInv(s)' /\ KeptInv(s)' /\ PastInv(s)' /\ CulpritInv(s)'
  BY <1>4, SamePlace, GoodStays, RankFacts DEF GraphInv, TakePending, Hold, Turn, ends, gpu,
     GraphTypeOK, PoisonInv, KeptInv, PastInv, CulpritInv
<1> QED
  BY <1>1, <1>2, <1>3, <1>4 DEF GraphInv

(* The executing thread releases the lock when nothing is pending.           *)
LEMMA DrainedKeeps ==
  ASSUME GraphInv, NEW r \in Ranks, Drained(r)
  PROVE  GraphInv'
<1>1. GraphTypeOK' /\ DrainedBeforeReplay' /\ DestroyedIdle'
  BY RankFacts DEF GraphInv, Drained, Hold, Turn, ends, gpu, GraphTypeOK, DrainedBeforeReplay,
     DestroyedIdle, PoisonInv, LeftInv, Running
<1>2. LeftInv'
  BY GoodStays, SamePlace, RankFacts DEF GraphInv, Drained, Hold, Turn, ends, gpu, GraphTypeOK,
     PoisonInv, LeftInv
<1>3. ASSUME NEW s \in Ranks
      PROVE  BusyInv(s)' /\ StreamInv(s)' /\ DoneInv(s)' /\ BufferInv(s)'
  BY <1>3, SamePlace, RankFacts DEF GraphInv, Drained, Hold, Turn, ends, gpu, GraphTypeOK,
     PoisonInv, BusyInv, StreamInv, DoneInv, BufferInv, Inside
<1>4. ASSUME NEW s \in Ranks
      PROVE  PoisonInv(s)' /\ KeptInv(s)' /\ PastInv(s)' /\ CulpritInv(s)'
  BY <1>4, SamePlace, GoodStays, RankFacts DEF GraphInv, Drained, Hold, Turn, ends, gpu,
     GraphTypeOK, PoisonInv, KeptInv, PastInv, CulpritInv
<1> QED
  BY <1>1, <1>2, <1>3, <1>4 DEF GraphInv

(* The output thread takes the lock, for a step that has ended.              *)
LEMMA GetOutputKeeps ==
  ASSUME GraphInv, GetOutput
  PROVE  GraphInv'
<1>1. GraphTypeOK' /\ DrainedBeforeReplay' /\ DestroyedIdle'
  BY RankFacts DEF GraphInv, GetOutput, Hold, Turn, ends, gpu, GraphTypeOK, DrainedBeforeReplay,
     DestroyedIdle, PoisonInv, LeftInv, Running
<1>2. LeftInv'
  BY GoodStays, SamePlace, RankFacts DEF GraphInv, GetOutput, Hold, Turn, ends, gpu, GraphTypeOK,
     PoisonInv, LeftInv
<1>3. ASSUME NEW s \in Ranks
      PROVE  BusyInv(s)' /\ StreamInv(s)' /\ DoneInv(s)' /\ BufferInv(s)'
  BY <1>3, SamePlace, RankFacts DEF GraphInv, GetOutput, Hold, Turn, ends, gpu, GraphTypeOK,
     PoisonInv, BusyInv, StreamInv, DoneInv, BufferInv, Inside
<1>4. ASSUME NEW s \in Ranks
      PROVE  PoisonInv(s)' /\ KeptInv(s)' /\ PastInv(s)' /\ CulpritInv(s)'
  BY <1>4, SamePlace, GoodStays, RankFacts DEF GraphInv, GetOutput, Hold, Turn, ends, gpu,
     GraphTypeOK, PoisonInv, KeptInv, PastInv, CulpritInv
<1> QED
  BY <1>1, <1>2, <1>3, <1>4 DEF GraphInv

(* What the threads compare is what the invariant calls wrong.               *)
LEMMA WrongMeans ==
  ASSUME GraphInv, NEW r \in Ranks, NEW g \in pending[r]
  PROVE  /\ buffer[r][g] \in Ids /\ buffer[r][g] \in issued[r]
         /\ Wrong(r, buffer[r][g]) <=> buffer[r][g] \in WrongReplays
<1>1. g \in Graphs /\ buffer[r][g] \in Ids /\ buffer[r][g] \in issued[r]
  BY DEF GraphInv, GraphTypeOK, BufferInv
<1> QED
  BY <1>1, RankFacts DEF Wrong, WrongReplays

(* The check of one owner, by the executing thread.                          *)
LEMMA DrainKeeps ==
  ASSUME GraphInv, NEW r \in Ranks, NEW g \in Graphs, Drain(r, g)
  PROVE  GraphInv'
<1>1. GraphTypeOK' /\ DrainedBeforeReplay' /\ DestroyedIdle'
  BY RankFacts
  DEF GraphInv, Drain, Turn, Hold, ends, gpu, GraphTypeOK, DrainedBeforeReplay, DestroyedIdle,
     Running
<1>2. LeftInv'
  BY GoodStays, SamePlace, RankFacts DEF GraphInv, Drain, Turn, Hold, ends, gpu, GraphTypeOK,
     LeftInv
<1>3. ASSUME NEW s \in Ranks
      PROVE  BusyInv(s)' /\ StreamInv(s)' /\ DoneInv(s)' /\ BufferInv(s)' /\ PoisonInv(s)'
  BY <1>3, SamePlace, RankFacts
  DEF GraphInv, Drain, Turn, Hold, ends, gpu, GraphTypeOK, BusyInv, StreamInv, DoneInv,
     BufferInv, PoisonInv, Inside
<1>4. ASSUME NEW s \in Ranks
      PROVE  KeptInv(s)'
  <2>1. g \in pending[r] /\ buffer[r][g] \in done[r] /\ buffer' = buffer /\ issued' = issued /\ out' = out
    BY DEF Drain, gpu
  <2>2. buffer[r][g] \in WrongReplays => main'[r] = "raised"
    BY <2>1, WrongMeans DEF Drain, Turn, GraphInv, GraphTypeOK
  <2>3. pending'[r] = pending[r] \ {g} /\ \A q \in Ranks \ {r} : pending'[q] = pending[q]
    BY DEF Drain, GraphInv, GraphTypeOK
  <2>4. \A q \in Ranks : main'[q] # main[q] => main'[q] = "raised"
    BY DEF Drain, Turn, GraphInv, GraphTypeOK
  <2>5. \A id \in issued[s] : id \in Ids /\ (Good(s, id) => Good(s, id)')
    BY <1>4, GoodStays DEF Drain, gpu, GraphInv, GraphTypeOK
  <2>6. buffer[r][g] \notin WrongReplays => Good(r, buffer[r][g])
    BY <2>1 DEF Good
  <2> QED
    BY <1>4, <2>1, <2>2, <2>3, <2>4, <2>5, <2>6, SamePlace DEF KeptInv, GraphInv, Drain
<1>5. ASSUME NEW s \in Ranks
      PROVE  PastInv(s)' /\ CulpritInv(s)'
  <2>1. PastInv(s)'
    BY <1>5, GoodStays DEF GraphInv, Drain, gpu, GraphTypeOK, PastInv
  <2>2. main'[r] = "raised" => buffer[r][g] \in WrongReplays /\ buffer[r][g] \in done[r]
    BY WrongMeans DEF GraphInv, Drain, GraphTypeOK
  <2>3. \A q \in Ranks \ {r} : main'[q] = main[q]
    BY DEF Drain, Turn, GraphInv, GraphTypeOK
  <2>4. WrongReplays' = WrongReplays
    BY GoodStays DEF GraphInv, Drain, gpu, GraphTypeOK
  <2>5. CulpritInv(s)'
    BY <1>5, <2>2, <2>3, <2>4 DEF GraphInv, CulpritInv, Drain, gpu, ends
  <2> QED
    BY <2>1, <2>5
<1> QED
  BY <1>1, <1>2, <1>3, <1>4, <1>5 DEF GraphInv

(* The check of one owner, by the thread that fetches outputs.               *)
LEMMA OutputDrainKeeps ==
  ASSUME GraphInv, NEW g \in Graphs, OutputDrain(g)
  PROVE  GraphInv'
<1>1. GraphTypeOK' /\ DrainedBeforeReplay' /\ DestroyedIdle'
  BY RankFacts
  DEF GraphInv, OutputDrain, Hold, ends, gpu, GraphTypeOK, DrainedBeforeReplay, DestroyedIdle,
     Running
<1>2. LeftInv'
  BY GoodStays, SamePlace, RankFacts DEF GraphInv, OutputDrain, Hold, ends, gpu, GraphTypeOK,
     LeftInv
<1>3. ASSUME NEW s \in Ranks
      PROVE  BusyInv(s)' /\ StreamInv(s)' /\ DoneInv(s)' /\ BufferInv(s)' /\ PoisonInv(s)'
  BY <1>3, SamePlace, RankFacts
  DEF GraphInv, OutputDrain, Hold, ends, gpu, GraphTypeOK, BusyInv, StreamInv, DoneInv,
     BufferInv, PoisonInv, Inside
<1>4. ASSUME NEW s \in Ranks
      PROVE  KeptInv(s)' /\ PastInv(s)' /\ CulpritInv(s)'
  <2>1. /\ g \in pending[Head] /\ buffer[Head][g] \in done[Head] /\ main' = main
        /\ buffer' = buffer /\ issued' = issued /\ done' = done /\ broken' = broken
    BY DEF OutputDrain, gpu, ends
  <2>2. buffer[Head][g] \in WrongReplays => out' = "raised"
    BY <2>1, WrongMeans, RankFacts DEF OutputDrain
  <2>3. pending'[Head] = pending[Head] \ {g} /\ \A q \in Ranks \ {Head} : pending'[q] = pending[q]
    BY RankFacts DEF OutputDrain, GraphInv, GraphTypeOK
  <2>4. out' # out => out' = "raised"
    BY DEF OutputDrain
  <2>5. WrongReplays' = WrongReplays /\ \A id \in issued[s] : id \in Ids /\ (Good(s, id) => Good(s, id)')
    BY <1>4, GoodStays DEF OutputDrain, gpu, GraphInv, GraphTypeOK
  <2>6. buffer[Head][g] \notin WrongReplays => Good(Head, buffer[Head][g])
    BY <2>1 DEF Good
  <2>7. KeptInv(s)'
    BY <1>4, <2>1, <2>2, <2>3, <2>4, <2>5, <2>6, SamePlace DEF KeptInv, GraphInv, OutputDrain
  <2>8. PastInv(s)' /\ CulpritInv(s)'
    BY <1>4, <2>1, <2>4, <2>5 DEF GraphInv, PastInv, CulpritInv
  <2> QED
    BY <2>7, <2>8
<1> QED
  BY <1>1, <1>2, <1>3, <1>4 DEF GraphInv

(* A thread that breaks poisons its owner and raises.                        *)
LEMMA BreaksKeeps ==
  ASSUME GraphInv, NEW r \in Ranks, Breaks(r)
  PROVE  GraphInv'
<1>0. main[r] \in Inside /\ Here(r) # {} /\ step[r] <= Steps /\ Upcoming(r) \in Graphs
  BY UpcomingFirst DEF GraphInv, BusyInv, Breaks, Inside
<1>1. GraphTypeOK' /\ DrainedBeforeReplay' /\ DestroyedIdle'
  BY <1>0 DEF GraphInv, Breaks, Turn, gpu, GraphTypeOK, DrainedBeforeReplay, DestroyedIdle, Running
<1>2. LeftInv'
  BY GoodStays, SamePlace, RankFacts DEF GraphInv, Breaks, Turn, gpu, GraphTypeOK, LeftInv
<1>3. ASSUME NEW s \in Ranks
      PROVE  BusyInv(s)' /\ StreamInv(s)' /\ DoneInv(s)' /\ BufferInv(s)'
  BY <1>3, SamePlace, RankFacts
  DEF GraphInv, Breaks, Turn, gpu, GraphTypeOK, BusyInv, StreamInv, DoneInv, BufferInv, Inside
<1>4. ASSUME NEW s \in Ranks
      PROVE  PoisonInv(s)' /\ KeptInv(s)' /\ PastInv(s)' /\ CulpritInv(s)'
  BY <1>0, <1>4, SamePlace, GoodStays, RankFacts
  DEF GraphInv, Breaks, Turn, gpu, GraphTypeOK, PoisonInv, KeptInv, PastInv, CulpritInv
<1> QED
  BY <1>1, <1>2, <1>3, <1>4 DEF GraphInv

(* Graphs are destroyed: the last replay of every owner is done, and with it *)
(* all that were issued before.                                              *)
LEMMA ClearKeeps ==
  ASSUME GraphInv, NEW r \in Ranks, Clear(r)
  PROVE  GraphInv'
<1>1. main[r] = "idle" /\ r \notin broken
  BY DEF Clear, GraphInv, PoisonInv
<1>2. issued[r] \subseteq done[r]
  <2> SUFFICES ASSUME NEW id \in issued[r]
               PROVE  id \in done[r]
    OBVIOUS
  <2>1. id \in Ids /\ GraphOf(id) \in Graphs /\ id # 0 /\ id \in Nat
    BY Numbers DEF GraphInv, GraphTypeOK
  <2>2. id <= buffer[r][GraphOf(id)]
    BY <1>1 DEF GraphInv, BufferInv
  <2>3. buffer[r][GraphOf(id)] \in done[r]
    BY <2>1, <2>2 DEF Clear
  <2>4. buffer[r][GraphOf(id)] \in Nat
    BY <2>3, Numbers DEF GraphInv, GraphTypeOK
  <2> QED
    BY <2>1, <2>2, <2>3, <2>4 DEF GraphInv, DoneInv
<1>3. GraphTypeOK' /\ DrainedBeforeReplay' /\ DestroyedIdle'
  BY <1>1, <1>2 DEF GraphInv, Clear, Turn, gpu, GraphTypeOK, DrainedBeforeReplay, DestroyedIdle,
     Running
<1>4. LeftInv'
  BY <1>1, GoodStays, SamePlace, RankFacts DEF GraphInv, Clear, Turn, gpu, GraphTypeOK, LeftInv
<1>5. ASSUME NEW s \in Ranks
      PROVE  BusyInv(s)' /\ StreamInv(s)' /\ DoneInv(s)' /\ BufferInv(s)'
  BY <1>1, <1>5, SamePlace, RankFacts
  DEF GraphInv, Clear, Turn, gpu, GraphTypeOK, BusyInv, StreamInv, DoneInv, BufferInv, Inside
<1>6. ASSUME NEW s \in Ranks
      PROVE  PoisonInv(s)' /\ KeptInv(s)' /\ PastInv(s)' /\ CulpritInv(s)'
  BY <1>1, <1>6, SamePlace, GoodStays, RankFacts
  DEF GraphInv, Clear, Turn, gpu, GraphTypeOK, PoisonInv, KeptInv, PastInv, CulpritInv
<1> QED
  BY <1>3, <1>4, <1>5, <1>6 DEF GraphInv

(* The GPU finishes the first replay that both ranks have issued.            *)
LEMMA GpuRunsKeeps ==
  ASSUME GraphInv, NEW r \in Ranks, GpuRuns(r)
  PROVE  GraphInv'
<1> PICK id \in issued[r] \ done[r] :
      /\ \A other \in issued[r] \ done[r] : id <= other
      /\ id \in issued[Peer(r)]
      /\ done' = [done EXCEPT ![r] = @ \cup {id}]
  BY DEF GpuRuns
<1>1. GraphTypeOK' /\ DrainedBeforeReplay' /\ DestroyedIdle'
  BY DEF GraphInv, GpuRuns, threads, ends, GraphTypeOK, DrainedBeforeReplay, DestroyedIdle, Running
<1>2. LeftInv'
  BY GoodStays, SamePlace, RankFacts DEF GraphInv, GpuRuns, threads, ends, GraphTypeOK, LeftInv
<1>3. ASSUME NEW s \in Ranks
      PROVE  BusyInv(s)' /\ StreamInv(s)' /\ BufferInv(s)'
  BY <1>3, SamePlace, RankFacts
  DEF GraphInv, GpuRuns, threads, ends, GraphTypeOK, BusyInv, StreamInv, BufferInv, Inside
<1>4. ASSUME NEW s \in Ranks
      PROVE  DoneInv(s)'
  <2>1. issued' = issued /\ done'[s] \subseteq done[s] \cup {id} /\ (s # r => done'[s] = done[s])
    BY <1>4 DEF GraphInv, GpuRuns, GraphTypeOK
  <2>2. \A j \in issued[r] : j < id => j \in done[r]
    BY Numbers DEF GraphInv, GraphTypeOK
  <2>3. done[s] \subseteq done'[s]
    BY <1>4 DEF GraphInv, GraphTypeOK
  <2> QED
    BY <1>4, <2>1, <2>2, <2>3 DEF GraphInv, DoneInv
<1>5. ASSUME NEW s \in Ranks
      PROVE  PoisonInv(s)' /\ KeptInv(s)' /\ PastInv(s)' /\ CulpritInv(s)'
  BY <1>5, SamePlace, GoodStays, RankFacts
  DEF GraphInv, GpuRuns, threads, ends, GraphTypeOK, PoisonInv, KeptInv, PastInv, CulpritInv
<1> QED
  BY <1>1, <1>2, <1>3, <1>4, <1>5 DEF GraphInv

(* An output leaves when nothing is pending: every replay of its step was    *)
(* found good, or the thread that executes has taken the check of the last   *)
(* one and raised.                                                           *)
LEMMA OutputLeavesKeeps ==
  ASSUME GraphInv, OutputLeaves
  PROVE  GraphInv'
<1>0. /\ returned + 1 < step[Head] /\ returned' = returned + 1 /\ pending[Head] = {}
      /\ step[Head] \in 1..(Steps + 1) /\ returned \in 0..Steps
      /\ Steps \in Nat /\ step[Head] \in Nat /\ returned \in Nat
  BY RankFacts, GraphAssumption DEF OutputLeaves, GraphInv, LeftInv, GraphTypeOK
<1>1. GraphTypeOK' /\ DrainedBeforeReplay' /\ DestroyedIdle'
  <2>1. returned' \in 0..Steps
    BY <1>0, GraphAssumption
  <2> QED
    BY <2>1, RankFacts
    DEF GraphInv, OutputLeaves, Hold, gpu, GraphTypeOK, DrainedBeforeReplay, DestroyedIdle, Running
<1>2. LeftInv'
  <2>1. returned' < step'[Head] /\ out' # "drain"
    BY <1>0 DEF OutputLeaves
  <2>2. UNCHANGED <<plan, step, at, main, gpu>> /\ WrongReplays' = WrongReplays
    BY DEF OutputLeaves, gpu, WrongReplays
  <2>3. ASSUME NEW id \in issued[Head], StepOf(id) <= returned'
        PROVE  \/ Good(Head, id)
               \/ main[Head] = "raised" /\ \A g \in plan[StepOf(id)] : g <= GraphOf(id)
    <3>1. id \in Ids /\ id \in Planned /\ StepOf(id) \in 1..Steps /\ id = Id(StepOf(id), GraphOf(id))
      <4>1. id \in Ids /\ id \in Planned
        BY <2>3, RankFacts DEF GraphInv, StreamInv, Planned
      <4> QED
        BY <4>1, Numbers
    <3>2. StepOf(id) < step[Head]
      <4>1. StepOf(id) \in Nat /\ StepOf(id) <= returned + 1
        BY <1>0, <2>3, <3>1
      <4> QED
        BY <1>0, <4>1
    <3>3. Good(Head, id) \/ main[Head] = "raised"
      <4>1. ~ (main[Head] = "defer" /\ id = Current(Head))
        BY <1>0, <3>1, <3>2, RankFacts, UpcomingFirst DEF GraphInv, BusyInv, Inside
      <4>2. out # "raised"
        BY DEF OutputLeaves
      <4> QED
        BY <1>0, <2>3, <4>1, <4>2, RankFacts DEF GraphInv, KeptInv
    <3>4. ASSUME ~ Good(Head, id), NEW g \in plan[StepOf(id)]
          PROVE  g <= GraphOf(id)
      <4>1. g \in Graphs /\ GraphOf(id) \in Graphs
        BY <3>1, <3>4, Numbers DEF GraphInv, GraphTypeOK
      <4>2. Id(StepOf(id), g) \in Planned
        <5>1. StepOf(id) \in Nat /\ Id(StepOf(id), g) \in Ids
          BY <1>0, <3>1, <4>1, Numbers
        <5>2. StepOf(Id(StepOf(id), g)) = StepOf(id) /\ GraphOf(Id(StepOf(id), g)) = g
          BY <4>1, <5>1, Numbers
        <5> QED
          BY <3>4, <5>1, <5>2 DEF Planned
      <4>3. Id(StepOf(id), g) < Front(Head)
        BY <1>0, <3>1, <3>2, <4>1, RankFacts DEF Id, Front, Graphs, GraphInv, GraphTypeOK
      <4>4. Id(StepOf(id), g) \in issued[Head]
        BY <4>2, <4>3, RankFacts DEF GraphInv, StreamInv
      <4>5. ~ (id < Id(StepOf(id), g))
        BY <2>3, <3>4, <4>4, RankFacts DEF GraphInv, PastInv, OutputLeaves
      <4> QED
        BY <3>1, <4>1, <4>5 DEF Id, Graphs
    <3> QED
      BY <3>3, <3>4
  <2> QED
    BY <2>1, <2>2, <2>3 DEF LeftInv, Good, gpu
<1>3. ASSUME NEW s \in Ranks
      PROVE  BusyInv(s)' /\ StreamInv(s)' /\ DoneInv(s)' /\ BufferInv(s)'
  BY <1>3, SamePlace, RankFacts
  DEF GraphInv, OutputLeaves, gpu, GraphTypeOK, BusyInv, StreamInv, DoneInv, BufferInv, Inside
<1>4. ASSUME NEW s \in Ranks
      PROVE  PoisonInv(s)' /\ KeptInv(s)' /\ PastInv(s)' /\ CulpritInv(s)'
  BY <1>4, SamePlace, GoodStays, RankFacts
  DEF GraphInv, OutputLeaves, gpu, GraphTypeOK, PoisonInv, KeptInv, PastInv, CulpritInv
<1> QED
  BY <1>1, <1>2, <1>3, <1>4 DEF GraphInv

(* A replay is issued behind replays that were all found good.               *)
LEMMA ReplayKeeps ==
  ASSUME GraphInv, NEW r \in Ranks, Replay(r)
  PROVE  GraphInv'
<1> DEFINE c == Current(r)
<1>0. /\ main[r] = "replay" /\ main' = [main EXCEPT ![r] = "defer"] /\ out' = out
      /\ issued' = [issued EXCEPT ![r] = @ \cup {c}] /\ done' = done
      /\ bad \subseteq bad' /\ bad' \subseteq bad \cup {<<r, c>>}
      /\ UNCHANGED <<plan, step, at, holder, pending, buffer, failed, ends>>
  BY DEF Replay, Turn
<1>1. /\ c \in Planned /\ c \in Ids /\ c >= Front(r) /\ StepOf(c) = step[r]
      /\ Here(r) # {} /\ r \notin broken /\ pending[r] = {}
  BY <1>0, UpcomingFirst DEF GraphInv, BusyInv, Inside, PoisonInv, Planned, DrainedBeforeReplay
<1>2. \A id \in issued[r] : id \in Ids /\ id \in Nat /\ id < Front(r) /\ id < c /\ id # c
  <2>1. \A id \in issued[r] : id \in Ids /\ id < Front(r)
    BY <1>0, <1>1 DEF GraphInv, GraphTypeOK, StreamInv
  <2>2. Front(r) \in Nat
    <3>1. step[r] \in Nat /\ at[r] \in Nat
      BY Counts
    <3> QED
      BY <3>1 DEF Front, Id
  <2> QED
    BY <1>1, <2>1, <2>2, Numbers
<1>3. \A s \in Ranks, id \in Ids : Good(s, id) => Good(s, id)'
  <2> SUFFICES ASSUME NEW s \in Ranks, NEW id \in done[s], id \notin WrongReplays, id \in Ids
               PROVE  id \in done'[s] /\ id \notin WrongReplays'
    BY DEF Good
  <2>1. id \in issued[r]
    BY RankFacts DEF GraphInv, DoneInv
  <2> QED
    BY <1>0, <1>2, <2>1 DEF WrongReplays
<1>4. /\ issued'[r] = issued[r] \cup {c} /\ main'[r] = "defer"
      /\ \A s \in Ranks \ {r} : issued'[s] = issued[s] /\ main'[s] = main[s]
  BY <1>0 DEF GraphInv, GraphTypeOK
<1>5. GraphTypeOK' /\ DrainedBeforeReplay' /\ DestroyedIdle'
  <2>1. issued' \in [Ranks -> SUBSET Ids] /\ bad' \subseteq Ranks \X Ids
    BY <1>0, <1>1 DEF GraphInv, GraphTypeOK
  <2>2. r \notin destroyed
    BY <1>0 DEF GraphInv, PoisonInv
  <2>3. GraphTypeOK'
    BY <1>0, <1>4, <2>1 DEF GraphInv, GraphTypeOK, ends, Running
  <2> QED
    BY <1>0, <1>4, <2>2, <2>3 DEF GraphInv, DrainedBeforeReplay, DestroyedIdle, ends, GraphTypeOK
<1>6. LeftInv'
  <2>1. Head \in Ranks /\ (r = Head => returned < StepOf(c))
    BY <1>1, RankFacts DEF GraphInv, LeftInv
  <2>2. ASSUME NEW id \in issued[Head], StepOf(id) <= returned
        PROVE  \/ Good(Head, id)'
               \/ main'[Head] = "raised" /\ \A g \in plan'[StepOf(id)] : g <= GraphOf(id)
    <3>1. id \in Ids
      BY <2>1 DEF GraphInv, GraphTypeOK
    <3>2. main[Head] = "raised" => main'[Head] = "raised"
      BY <1>0, <1>4, <2>1
    <3> QED
      BY <1>0, <1>3, <2>1, <2>2, <3>1, <3>2 DEF GraphInv, LeftInv
  <2>3. returned \in Nat /\ StepOf(c) \in Nat
    BY <1>1, Numbers, GraphAssumption DEF GraphInv, GraphTypeOK
  <2> QED
    BY <1>0, <1>4, <2>1, <2>2, <2>3 DEF GraphInv, LeftInv, ends
<1>7. ASSUME NEW s \in Ranks
      PROVE  BusyInv(s)' /\ StreamInv(s)' /\ DoneInv(s)'
  <2>1. Here(s)' = Here(s) /\ Current(s)' = Current(s) /\ Front(s)' = Front(s) /\ Planned' = Planned
    BY <1>0, <1>7, SamePlace
  <2>2. BusyInv(s)'
    BY <1>0, <1>4, <1>7, <2>1 DEF GraphInv, BusyInv, Inside
  <2>3. StreamInv(s)'
    BY <1>0, <1>1, <1>4, <1>7, <2>1 DEF GraphInv, StreamInv, ends
  <2>4. DoneInv(s)'
    <3>1. \A id \in done[s] : id \in issued[r] /\ id < c
      BY <1>2, <1>7, RankFacts DEF GraphInv, DoneInv
    <3>2. \A id \in done[s] : id \in Nat /\ c \in Nat
      BY <1>1, <1>7, Numbers DEF GraphInv, GraphTypeOK
    <3>3. \A q \in Ranks : issued[q] \subseteq issued'[q]
      BY <1>4
    <3> QED
      BY <1>0, <1>4, <1>7, <3>1, <3>2, <3>3, RankFacts DEF GraphInv, DoneInv
  <2> QED
    BY <2>2, <2>3, <2>4
<1>8. ASSUME NEW s \in Ranks
      PROVE  BufferInv(s)' /\ PoisonInv(s)' /\ CulpritInv(s)'
  <2>1. Current(s)' = Current(s)
    BY <1>0, <1>8, SamePlace
  <2>2. BufferInv(s)'
    BY <1>0, <1>4, <1>8, <2>1 DEF GraphInv, BufferInv, ends
  <2>3. PoisonInv(s)'
    BY <1>0, <1>4, <1>8, <1>1 DEF GraphInv, PoisonInv, ends
  <2>4. WrongReplays \subseteq WrongReplays'
    BY <1>0 DEF WrongReplays
  <2>5. CulpritInv(s)'
    BY <1>0, <1>4, <1>8, <2>4 DEF GraphInv, CulpritInv, ends
  <2> QED
    BY <2>2, <2>3, <2>5
<1>9. ASSUME NEW s \in Ranks
      PROVE  KeptInv(s)' /\ PastInv(s)'
  <2>1. Current(s)' = Current(s) /\ issued[s] \subseteq Ids
    BY <1>0, <1>9, SamePlace DEF GraphInv, GraphTypeOK
  <2>2. KeptInv(s)'
    BY <1>0, <1>3, <1>4, <1>9, <2>1 DEF GraphInv, KeptInv
  <2>3. \A id \in issued[r] : Good(r, id) \/ out = "raised"
    BY <1>0, <1>1 DEF GraphInv, KeptInv
  <2>4. \A id \in issued[r] : ~ (c < id)
    BY <1>1, <1>2, Numbers
  <2>5. c \in Nat
    BY <1>1, Numbers
  <2>6. PastInv(s)'
    BY <1>0, <1>3, <1>4, <1>9, <2>1, <2>3, <2>4, <2>5 DEF GraphInv, PastInv
  <2> QED
    BY <2>2, <2>6
<1> QED
  BY <1>5, <1>6, <1>7, <1>8, <1>9 DEF GraphInv

(* A replay becomes pending: its owner's buffer holds it from now on.        *)
LEMMA DeferKeeps ==
  ASSUME GraphInv, NEW r \in Ranks, Defer(r)
  PROVE  GraphInv'
<1> DEFINE c == Current(r)
           u == Upcoming(r)
<1>0. /\ main[r] = "defer" /\ main' = [main EXCEPT ![r] = "idle"] /\ out' = out
      /\ pending' = [pending EXCEPT ![r] = @ \cup {u}]
      /\ buffer' = [buffer EXCEPT ![r][u] = c]
      /\ at' = [at EXCEPT ![r] = u + 1]
      /\ UNCHANGED <<plan, step, holder, failed, gpu, ends>>
  BY DEF Defer, Turn
<1>1. /\ u \in Graphs /\ u \in plan[step[r]] /\ at[r] <= u
      /\ \A g \in plan[step[r]] : g < u => g < at[r]
      /\ c \in Planned /\ c \in Ids /\ c >= Front(r) /\ StepOf(c) = step[r] /\ GraphOf(c) = u
      /\ Here(r) # {} /\ r \notin broken /\ pending[r] = {} /\ c \in issued[r] /\ step[r] <= Steps
  BY <1>0, UpcomingFirst
  DEF GraphInv, BusyInv, StreamInv, Inside, PoisonInv, Planned, DrainedBeforeReplay
<1>2. /\ step[r] \in Nat /\ at[r] \in Nat /\ u \in Nat /\ u + 1 \in 0..2
      /\ c = Id(step[r], u) /\ Front(r) = Id(step[r], at[r]) /\ Front(r)' = Id(step[r], u + 1)
      /\ c \in Nat /\ c # 0
  <2>1. step[r] \in Nat /\ at[r] \in Nat /\ u \in Nat /\ u + 1 \in 0..2
    <3>1. step[r] \in Nat /\ at[r] \in Nat
      BY Counts
    <3>2. u \in {0, 1}
      BY <1>1 DEF Graphs
    <3> QED
      BY <3>1, <3>2
  <2>2. step'[r] = step[r] /\ at'[r] = u + 1
    BY <1>0 DEF GraphInv, GraphTypeOK
  <2> QED
    BY <1>1, <2>1, <2>2, Numbers DEF Front, Current
<1>3. /\ \A id \in issued[r] : id \in Ids /\ id \in Nat /\ (id < Front(r) \/ id = c)
      /\ \A id \in issued[r] : id < Front(r)' /\ id <= c
  <2>1. \A id \in issued[r] : id \in Ids /\ id \in Nat /\ (id < Front(r) \/ id = c)
    BY <1>1, Numbers DEF GraphInv, GraphTypeOK, StreamInv
  <2> QED
    BY <1>1, <1>2, <2>1 DEF Id
<1>4. \A s \in Ranks \ {r} : Here(s)' = Here(s) /\ Front(s)' = Front(s) /\ Current(s)' = Current(s)
  <2>1. \A s \in Ranks \ {r} : step'[s] = step[s] /\ at'[s] = at[s] /\ plan' = plan
    BY <1>0 DEF GraphInv, GraphTypeOK
  <2> QED
    BY <2>1 DEF Here, Front, Current, Upcoming
<1>5. Planned' = Planned /\ issued' = issued /\ done' = done /\ bad' = bad /\ WrongReplays' = WrongReplays
  BY <1>0 DEF Planned, gpu, WrongReplays
<1>6. /\ main'[r] = "idle" /\ pending'[r] = {u} /\ buffer'[r][u] = c
      /\ \A g \in Graphs \ {u} : buffer'[r][g] = buffer[r][g]
      /\ \A s \in Ranks \ {r} : main'[s] = main[s] /\ pending'[s] = pending[s] /\ buffer'[s] = buffer[s]
  BY <1>0, <1>1 DEF GraphInv, GraphTypeOK
<1>7. GraphTypeOK' /\ DrainedBeforeReplay' /\ DestroyedIdle'
  <2>1. at' \in [Ranks -> 0..2] /\ pending' \in [Ranks -> SUBSET Graphs]
    BY <1>0, <1>1, <1>2 DEF GraphInv, GraphTypeOK
  <2>2. buffer' \in [Ranks -> [Graphs -> Ids \cup {0}]]
    BY <1>0, <1>1 DEF GraphInv, GraphTypeOK
  <2>3. GraphTypeOK'
    BY <1>0, <1>6, <2>1, <2>2 DEF GraphInv, GraphTypeOK, ends, gpu, Running
  <2> QED
    BY <1>0, <1>6, <2>3 DEF GraphInv, DrainedBeforeReplay, DestroyedIdle, ends, gpu
<1>8. LeftInv'
  BY <1>0, <1>5, <1>6, RankFacts DEF GraphInv, LeftInv, ends, Good
<1>9. ASSUME NEW s \in Ranks
      PROVE  BusyInv(s)' /\ DoneInv(s)' /\ PoisonInv(s)' /\ CulpritInv(s)' /\ PastInv(s)'
  BY <1>0, <1>4, <1>5, <1>6, <1>9 DEF GraphInv, BusyInv, DoneInv, PoisonInv, CulpritInv, PastInv,
     Good, Inside, ends
<1>10. ASSUME NEW s \in Ranks
       PROVE  StreamInv(s)'
  <2>1. CASE s # r
    BY <1>0, <1>4, <1>5, <1>6, <1>10, <2>1 DEF GraphInv, StreamInv, ends
  <2>2. CASE s = r
    <3>1. ASSUME NEW id \in Planned, id < Front(r)'
          PROVE  id \in issued[r]
      <4>1. id \in Ids /\ StepOf(id) \in Nat /\ GraphOf(id) \in Graphs /\ id = Id(StepOf(id), GraphOf(id))
        BY Numbers, GraphAssumption DEF Planned
      <4>2. CASE id < Front(r)
        BY <4>2 DEF GraphInv, StreamInv
      <4>3. CASE ~ (id < Front(r))
        <5>1. StepOf(id) = step[r] /\ at[r] <= GraphOf(id) /\ GraphOf(id) <= u
          BY <1>1, <1>2, <3>1, <4>1, <4>3 DEF Id, Graphs
        <5>2. GraphOf(id) = u
          BY <1>1, <1>2, <4>1, <5>1 DEF Planned, Graphs
        <5> QED
          BY <1>1, <1>2, <4>1, <5>1, <5>2
      <4> QED
        BY <4>2, <4>3
    <3> QED
      BY <1>0, <1>3, <1>5, <1>6, <2>2, <3>1 DEF GraphInv, StreamInv
  <2> QED
    BY <2>1, <2>2
<1>11. ASSUME NEW s \in Ranks
       PROVE  BufferInv(s)'
  <2>1. CASE s # r
    BY <1>0, <1>4, <1>5, <1>6, <1>11, <2>1 DEF GraphInv, BufferInv, ends
  <2>2. CASE s = r
    <3>1. \A g \in Graphs : buffer'[r][g] \in issued[r] \cup {0}
      BY <1>1, <1>6 DEF GraphInv, BufferInv
    <3>2. \A id \in issued[r] : id <= buffer'[r][GraphOf(id)]
      <4> TAKE id \in issued[r]
      <4>1. id \in Ids /\ GraphOf(id) \in Graphs
        BY <1>3, Numbers
      <4>2. CASE GraphOf(id) = u
        BY <1>3, <1>6, <4>2
      <4>3. CASE GraphOf(id) # u
        BY <1>1, <1>6, <4>1, <4>3 DEF GraphInv, BufferInv
      <4> QED
        BY <4>2, <4>3
    <3> QED
      BY <1>2, <1>5, <1>6, <2>2, <3>1, <3>2 DEF BufferInv
  <2> QED
    BY <2>1, <2>2
<1>12. ASSUME NEW s \in Ranks
       PROVE  KeptInv(s)'
  BY <1>0, <1>1, <1>4, <1>5, <1>6, <1>12 DEF GraphInv, KeptInv, Good
<1> QED
  BY <1>7, <1>8, <1>9, <1>10, <1>11, <1>12 DEF GraphInv

(* A step ends when nothing of its plan is left.                             *)
LEMMA EndStepKeeps ==
  ASSUME GraphInv, NEW r \in Ranks, EndStep(r)
  PROVE  GraphInv'
<1>0. /\ main[r] = "idle" /\ Here(r) = {} /\ step[r] <= Steps
      /\ step' = [step EXCEPT ![r] = @ + 1] /\ at' = [at EXCEPT ![r] = 0]
      /\ UNCHANGED <<plan, main, out, holder, pending, buffer, failed, gpu, ends>>
      /\ step[r] \in Nat /\ at[r] \in 0..2 /\ step[r] >= 1
  BY GraphAssumption DEF EndStep, GraphInv, GraphTypeOK
<1>1. /\ step'[r] = step[r] + 1 /\ at'[r] = 0
      /\ \A s \in Ranks \ {r} : step'[s] = step[s] /\ at'[s] = at[s]
  BY <1>0 DEF GraphInv, GraphTypeOK
<1>2. \A s \in Ranks \ {r} : Here(s)' = Here(s) /\ Front(s)' = Front(s) /\ Current(s)' = Current(s)
  BY <1>0, <1>1 DEF Here, Front, Current, Upcoming
<1>3. Front(r) = Id(step[r], at[r]) /\ Front(r)' = Id(step[r] + 1, 0)
  BY <1>1 DEF Front
<1>4. Planned' = Planned /\ WrongReplays' = WrongReplays
  BY <1>0 DEF Planned, gpu, WrongReplays
<1>5. GraphTypeOK' /\ DrainedBeforeReplay' /\ DestroyedIdle'
  <2>1. step' \in [Ranks -> 1..(Steps + 1)] /\ at' \in [Ranks -> 0..2]
    BY <1>0, GraphAssumption DEF GraphInv, GraphTypeOK
  <2> QED
    BY <1>0, <2>1 DEF GraphInv, GraphTypeOK, DrainedBeforeReplay, DestroyedIdle, ends, gpu, Running
<1>6. LeftInv'
  <2>1. step'[Head] = step[Head] \/ step'[Head] = step[Head] + 1
    BY <1>1, RankFacts
  <2>2. step[Head] \in Nat /\ returned \in Nat
    BY RankFacts, GraphAssumption DEF GraphInv, GraphTypeOK
  <2> QED
    BY <1>0, <1>4, <2>1, <2>2 DEF GraphInv, LeftInv, Good, ends, gpu
<1>7. ASSUME NEW s \in Ranks
      PROVE  DoneInv(s)' /\ PoisonInv(s)' /\ CulpritInv(s)' /\ PastInv(s)'
  BY <1>0, <1>4, <1>7 DEF GraphInv, DoneInv, PoisonInv, CulpritInv, PastInv, Good, ends, gpu
<1>8. ASSUME NEW s \in Ranks
      PROVE  BusyInv(s)' /\ KeptInv(s)' /\ BufferInv(s)'
  <2>1. CASE s # r
    BY <1>0, <1>1, <1>2, <1>4, <1>8, <2>1 DEF GraphInv, BusyInv, KeptInv, BufferInv, Good, ends, gpu
  <2>2. CASE s = r
    BY <1>0, <1>4, <2>2 DEF GraphInv, BusyInv, KeptInv, BufferInv, Good, Inside, ends, gpu
  <2> QED
    BY <2>1, <2>2
<1>9. ASSUME NEW s \in Ranks
      PROVE  StreamInv(s)'
  <2>1. CASE s # r
    BY <1>0, <1>2, <1>4, <1>9, <2>1 DEF GraphInv, StreamInv, ends, gpu
  <2>2. CASE s = r
    <3>1. ASSUME NEW id \in Planned, id < Front(r)'
          PROVE  id \in issued[r]
      <4>1. id \in Ids /\ StepOf(id) \in Nat /\ GraphOf(id) \in Graphs /\ id = Id(StepOf(id), GraphOf(id))
        BY Numbers, GraphAssumption DEF Planned
      <4>2. CASE ~ (id < Front(r))
        <5>1. StepOf(id) = step[r] /\ at[r] <= GraphOf(id)
          BY <1>0, <1>3, <3>1, <4>1, <4>2 DEF Id, Graphs
        <5> QED
          BY <1>0, <5>1 DEF Here, Planned
      <4> QED
        BY <4>2 DEF GraphInv, StreamInv
    <3>2. \A id \in issued[r] : id < Front(r)'
      <4>1. \A id \in issued[r] : id < Front(r) /\ id \in Nat
        BY <1>0, Numbers DEF GraphInv, GraphTypeOK, StreamInv
      <4> QED
        BY <1>0, <1>3, <4>1 DEF Id
    <3> QED
      BY <1>0, <1>4, <2>2, <3>1, <3>2 DEF GraphInv, StreamInv, gpu
  <2> QED
    BY <2>1, <2>2
<1> QED
  BY <1>5, <1>6, <1>7, <1>8, <1>9 DEF GraphInv

-----------------------------------------------------------------------------
LEMMA GraphInit == Init => GraphInv
<1> SUFFICES ASSUME Init
             PROVE  GraphInv
  OBVIOUS
<1>1. GraphTypeOK /\ DrainedBeforeReplay /\ DestroyedIdle
  BY GraphAssumption, RankFacts DEF Init, GraphTypeOK, DrainedBeforeReplay, DestroyedIdle,
     Running, Graphs
<1>2. LeftInv
  BY RankFacts DEF Init, LeftInv
<1>3. ASSUME NEW r \in Ranks
      PROVE  StreamInv(r)
  <2>1. \A id \in Planned : ~ (id < Front(r))
    <3>1. Front(r) = 2
      BY <1>3 DEF Init, Front, Id
    <3>2. \A id \in Planned : id >= 2 /\ id \in Nat
      BY GraphAssumption DEF Planned, Ids
    <3> QED
      BY <3>1, <3>2
  <2> QED
    BY <1>3, <2>1 DEF Init, StreamInv
<1>4. ASSUME NEW r \in Ranks
      PROVE  BusyInv(r) /\ DoneInv(r) /\ BufferInv(r) /\ PoisonInv(r) /\ KeptInv(r) /\ PastInv(r) /\ CulpritInv(r)
  BY <1>4, RankFacts
  DEF Init, BusyInv, DoneInv, BufferInv, PoisonInv, KeptInv, PastInv, CulpritInv, Inside
<1> QED
  BY <1>1, <1>2, <1>3, <1>4 DEF GraphInv

LEMMA GraphStutter ==
  ASSUME GraphInv, UNCHANGED vars
  PROVE  GraphInv'
<1> USE DEF vars, threads, gpu, ends
<1>1. GraphTypeOK' /\ DrainedBeforeReplay' /\ DestroyedIdle'
  BY DEF GraphInv, GraphTypeOK, DrainedBeforeReplay, DestroyedIdle, Running
<1>2. LeftInv'
  BY DEF GraphInv, LeftInv, Good, WrongReplays
<1>3. ASSUME NEW r \in Ranks
      PROVE  BusyInv(r)' /\ StreamInv(r)' /\ DoneInv(r)' /\ BufferInv(r)'
  BY <1>3, SamePlace DEF GraphInv, BusyInv, StreamInv, DoneInv, BufferInv, Inside
<1>4. ASSUME NEW r \in Ranks
      PROVE  PoisonInv(r)' /\ KeptInv(r)' /\ PastInv(r)' /\ CulpritInv(r)'
  BY <1>4, SamePlace DEF GraphInv, PoisonInv, KeptInv, PastInv, CulpritInv, Good, WrongReplays
<1> QED
  BY <1>1, <1>2, <1>3, <1>4 DEF GraphInv

(* The inductive invariant of the deferred validation.                       *)
THEOREM GraphInvariant == Spec => []GraphInv
<1>1. Init => GraphInv
  BY GraphInit
<1>2. GraphInv /\ [Next]_vars => GraphInv'
  <2> SUFFICES ASSUME GraphInv, [Next]_vars
               PROVE  GraphInv'
    OBVIOUS
  <2>1. CASE OutStep
    BY <2>1, GetOutputKeeps, OutputLeavesKeeps, OutputDrainKeeps DEF OutStep
  <2>2. ASSUME NEW r \in Ranks, MainStep(r)
        PROVE  GraphInv'
    BY <2>2, EnterKeeps, TakePendingKeeps, DrainedKeeps, ReplayKeeps, DeferKeeps, EndStepKeeps,
       DrainKeeps
    DEF MainStep
  <2>3. ASSUME NEW r \in Ranks, Breaks(r) \/ Clear(r) \/ GpuRuns(r)
        PROVE  GraphInv'
    BY <2>3, BreaksKeeps, ClearKeeps, GpuRunsKeeps
  <2>4. CASE UNCHANGED vars
    BY <2>4, GraphStutter
  <2> QED
    BY <2>1, <2>2, <2>3, <2>4 DEF Next
<1> QED
  BY <1>1, <1>2, PTL DEF Spec

(* Types, the lock held by exactly the thread that drains, the order of the  *)
(* replays.                                                                  *)
THEOREM GraphTypes == Spec => []GraphTypeOK
<1>1. GraphInv => GraphTypeOK
  BY DEF GraphInv
<1> QED
  BY <1>1, GraphInvariant, PTL

(* No replay fills host buffers that nobody has looked at.                   *)
THEOREM BuffersAreRead == Spec => []DrainedBeforeReplay
<1>1. GraphInv => DrainedBeforeReplay
  BY DEF GraphInv
<1> QED
  BY <1>1, GraphInvariant, PTL

(* No graph is destroyed while the GPU may still run it.                     *)
THEOREM GraphsOutliveReplays == Spec => []DestroyedIdle
<1>1. GraphInv => DestroyedIdle
  BY DEF GraphInv
<1> QED
  BY <1>1, GraphInvariant, PTL

(* The only outputs that leave without their check are those whose check the *)
(* next graph of the head has taken and raised.                              *)
THEOREM OnlyOvertaken == Spec => []OnlyOvertakenOutputs
<1>1. GraphInv => OnlyOvertakenOutputs
  <2> SUFFICES ASSUME GraphInv, NEW k \in 1..returned, NEW id \in WrongReplays, StepOf(id) = k
               PROVE  main[Head] = "raised" /\ \A g \in plan[k] : g <= GraphOf(id)
    BY DEF OnlyOvertakenOutputs, WrongSteps
  <2>1. PICK q \in Ranks : id \in Ids /\ <<q, id>> \in bad
    BY DEF WrongReplays
  <2>2. id \in Planned
    BY <2>1 DEF GraphInv, StreamInv
  <2>3. id < Front(Head)
    <3>1. returned \in Nat /\ step[Head] \in Nat /\ at[Head] \in Nat /\ returned < step[Head]
      BY RankFacts, GraphAssumption DEF GraphInv, GraphTypeOK, LeftInv
    <3>2. k < step[Head] /\ k \in Nat /\ id = Id(k, GraphOf(id)) /\ GraphOf(id) \in Graphs
      BY <2>1, <3>1, Numbers
    <3> QED
      BY <3>1, <3>2 DEF Front, Id, Graphs
  <2>4. id \in issued[Head]
    BY <2>2, <2>3, RankFacts DEF GraphInv, StreamInv
  <2> QED
    BY <2>4 DEF GraphInv, LeftInv, Good
<1> QED
  BY <1>1, GraphInvariant, PTL

(* Both ranks refuse the same replay.                                        *)
THEOREM RanksRefuseTogether == Spec => []RefusedTogether
<1>1. GraphInv => RefusedTogether
  <2> SUFFICES ASSUME GraphInv, NEW r \in Ranks, NEW id1 \in issued[r], id1 \notin issued[Peer(r)],
                      main[Peer(r)] = "raised", out # "raised", Peer(r) \notin broken
               PROVE  FALSE
    BY RankFacts DEF RefusedTogether, GraphInv, PoisonInv
  <2> DEFINE p == Peer(r)
  <2>1. PICK id0 \in done[p] : id0 \in WrongReplays
    BY RankFacts DEF GraphInv, CulpritInv
  <2>2. id0 \in issued[p] /\ id0 \in issued[r]
    BY <2>1, RankFacts DEF GraphInv, DoneInv
  <2>3. id0 < Front(p)
    BY <2>2, RankFacts DEF GraphInv, StreamInv
  <2>4. ~ (id1 < Front(p))
    BY RankFacts DEF GraphInv, StreamInv
  <2>5. id0 \in Nat /\ id1 \in Nat /\ Front(p) \in Nat
    <3>1. id0 \in Nat /\ id1 \in Nat
      BY <2>2, Numbers DEF GraphInv, GraphTypeOK
    <3>2. step[p] \in Nat /\ at[p] \in Nat
      BY RankFacts, GraphAssumption DEF GraphInv, GraphTypeOK
    <3> QED
      BY <3>1, <3>2 DEF Front, Id
  <2>6. Good(r, id0)
    BY <2>2, <2>3, <2>4, <2>5 DEF GraphInv, PastInv
  <2> QED
    BY <2>1, <2>6 DEF Good
<1> QED
  BY <1>1, GraphInvariant, PTL

-----------------------------------------------------------------------------
(* Nobody sits on an error: while an error of a replay that both ranks have  *)
(* issued is not reported on the head, one of the head's two threads or its  *)
(* GPU has a step.                                                           *)

(* A drain has nothing left, or an owner whose replay is over.               *)
Readable(r) == pending[r] = {} \/ \E g \in pending[r] : buffer[r][g] \in done[r]

HeadMoves ==
  \/ main[Head] = "idle" /\ step[Head] <= Steps /\ step[Head] <= returned + Ahead
  \/ main[Head] \in {"entered", "defer"} /\ holder[Head] = "none"
  \/ main[Head] = "drain" /\ Readable(Head)
  \/ main[Head] = "replay"
OutMoves ==
  \/ out = "wait" /\ returned + 1 < step[Head] /\ holder[Head] = "none"
  \/ out = "drain" /\ Readable(Head)
GpuMoves ==
  \E id \in (issued[Head] \ done[Head]) \cap issued[Peer(Head)] :
     \A other \in issued[Head] \ done[Head] : id <= other

ErrorsMove ==
  WrongReplays \cap issued[Head] \cap issued[Peer(Head)] # {} =>
    main[Head] = "raised" \/ out = "raised" \/ HeadMoves \/ OutMoves \/ GpuMoves

(* Graphs are destroyed between steps.                                       *)
StandInv == \A r \in Ranks : main[r] = "cleared" => at[r] = 0

LEMMA StandStep ==
  ASSUME GraphInv, StandInv, Next
  PROVE  StandInv'
<1>0. /\ GraphTypeOK /\ \A r \in Ranks : PoisonInv(r) /\ BusyInv(r)
      /\ main \in [Ranks -> Running \cup {"raised", "cleared"}]
  BY DEF GraphInv, GraphTypeOK
<1> USE DEF StandInv, Turn, ends
<1>1. CASE OutStep
  BY <1>1 DEF OutStep, GetOutput, OutputLeaves, OutputDrain
<1>2. ASSUME NEW r \in Ranks, Enter(r) \/ TakePending(r) \/ Drained(r) \/ Replay(r)
             \/ \E g \in Graphs : Drain(r, g)
      PROVE  StandInv'
  BY <1>0, <1>2 DEF Enter, TakePending, Drained, Replay, Drain
<1>3. ASSUME NEW r \in Ranks, Defer(r)
      PROVE  StandInv'
  BY <1>0, <1>3 DEF Defer, GraphTypeOK
<1>4. ASSUME NEW r \in Ranks, EndStep(r)
      PROVE  StandInv'
  BY <1>0, <1>4 DEF EndStep, GraphTypeOK, PoisonInv
<1>5. ASSUME NEW r \in Ranks, Breaks(r)
      PROVE  StandInv'
  BY <1>0, <1>5 DEF Breaks, BusyInv, Inside
<1>6. ASSUME NEW r \in Ranks, Clear(r)
      PROVE  StandInv'
  <2>1. main[r] = "idle" /\ at[r] = 0
    BY <1>0, <1>6 DEF Clear, PoisonInv
  <2> QED
    BY <1>0, <1>6, <2>1 DEF Clear
<1>7. ASSUME NEW r \in Ranks, GpuRuns(r)
      PROVE  StandInv'
  BY <1>7 DEF GpuRuns, threads
<1> QED
  BY <1>1, <1>2, <1>3, <1>4, <1>5, <1>6, <1>7 DEF Next, MainStep

LEMMA StandInvariant == Spec => []StandInv
<1>1. Init => StandInv
  BY DEF Init, StandInv
<1>2. GraphInv /\ StandInv /\ [Next]_vars => StandInv'
  <2>1. StandInv /\ UNCHANGED vars => StandInv'
    BY DEF StandInv, vars, threads, ends
  <2> QED
    BY <2>1, StandStep
<1> QED
  BY <1>1, <1>2, GraphInvariant, PTL DEF Spec

(* The GPU of the head has the next replay, and its peer is there: nothing   *)
(* else is unfinished, since nothing was issued behind it.                   *)
LEMMA GpuHasWork ==
  ASSUME GraphInv, NEW id \in issued[Head] \cap issued[Peer(Head)], id \notin done[Head],
         out # "raised"
  PROVE  GpuMoves
<1>1. Head \in Ranks /\ issued[Head] \subseteq Nat /\ PastInv(Head)
  BY RankFacts, Numbers DEF GraphInv, GraphTypeOK
<1>2. ASSUME NEW other \in issued[Head] \ done[Head]
      PROVE  id <= other
  BY <1>1, <1>2 DEF PastInv, Good
<1> QED
  BY <1>2 DEF GpuMoves

LEMMA NobodySits ==
  ASSUME GraphInv, StandInv
  PROVE  ErrorsMove
<1> SUFFICES ASSUME NEW id \in WrongReplays \cap issued[Head] \cap issued[Peer(Head)],
                    main[Head] # "raised", out # "raised", ~GpuMoves
             PROVE  HeadMoves \/ OutMoves
  BY DEF ErrorsMove
<1>0. /\ GraphTypeOK /\ DrainedBeforeReplay /\ LeftInv /\ Head \in Ranks
      /\ step[Head] \in 1..(Steps + 1) /\ at[Head] \in 0..2 /\ returned \in Nat
      /\ Steps \in Nat /\ Ahead \in Nat \ {0}
      /\ main[Head] \in {"idle", "entered", "drain", "replay", "defer", "cleared"}
      /\ out \in {"wait", "drain"} /\ holder[Head] \in {"none", "main", "out"}
      /\ (main[Head] = "drain" <=> holder[Head] = "main") /\ (out = "drain" <=> holder[Head] = "out")
  BY RankFacts, GraphAssumption DEF GraphInv, GraphTypeOK, Running
<1>1. id \in done[Head] /\ id \in Ids /\ ~Good(Head, id)
  BY GpuHasWork DEF Good, WrongReplays
<1>2. Readable(Head)
  <2>1. \/ \E g \in pending[Head] : buffer[Head][g] = id
        \/ main[Head] = "defer"
    BY <1>0, <1>1 DEF GraphInv, KeptInv
  <2>2. main[Head] = "defer" => pending[Head] = {}
    BY <1>0 DEF DrainedBeforeReplay
  <2> QED
    BY <1>1, <2>1, <2>2 DEF Readable
<1>3. returned < StepOf(id) /\ StepOf(id) \in 1..Steps
  <2>1. ~(StepOf(id) <= returned)
    BY <1>0, <1>1 DEF LeftInv
  <2> QED
    BY <1>0, <1>1, <2>1, Numbers
<1>4. CASE out = "drain"
  BY <1>2, <1>4 DEF OutMoves
<1>5. CASE out = "wait" /\ main[Head] # "drain"
  <2>1. holder[Head] = "none"
    BY <1>0, <1>5
  <2>2. CASE main[Head] = "cleared"
    <3>1. at[Head] = 0
      BY <1>0, <2>2 DEF StandInv
    <3>2. id < Id(step[Head], 0)
      BY <1>0, <2>2, <3>1 DEF GraphInv, StreamInv, Front, PoisonInv
    <3>3. StepOf(id) < step[Head]
      <4>1. id = Id(StepOf(id), GraphOf(id)) /\ StepOf(id) \in Nat /\ GraphOf(id) \in {0, 1}
        BY <1>1, <1>3, Numbers DEF Graphs
      <4>2. PICK k \in Nat, g \in {0, 1} : k = StepOf(id) /\ g = GraphOf(id)
        BY <4>1
      <4>3. 2 * k + g < 2 * step[Head] + 0
        BY <3>2, <4>1, <4>2 DEF Id
      <4> QED
        BY <1>0, <4>2, <4>3
    <3> QED
      BY <1>0, <1>3, <1>5, <2>1, <3>3 DEF OutMoves
  <2>3. CASE main[Head] = "idle" /\ (step[Head] = Steps + 1 \/ step[Head] > returned + Ahead)
    BY <1>0, <1>3, <1>5, <2>1, <2>3 DEF OutMoves
  <2> QED
    BY <1>0, <1>5, <2>1, <2>2, <2>3 DEF HeadMoves
<1>6. CASE main[Head] = "drain"
  BY <1>2, <1>6 DEF HeadMoves
<1> QED
  BY <1>0, <1>4, <1>5, <1>6

(* The safety core of ErrorsSurface: an error that both ranks have in their  *)
(* streams is reported on the head, or the head still moves towards it: no   *)
(* lock that the other thread holds, no full batch queue, no last step, no   *)
(* destroyed graphs and no peer that has raised leaves it unseen for good    *)
(* (drain_pending, AsyncOutput.get_output and the all-reduce of the counts). *)
THEOREM NobodySitsOnAnError == Spec => []ErrorsMove
<1>1. GraphInv /\ StandInv => ErrorsMove
  BY NobodySits
<1> QED
  BY <1>1, GraphInvariant, StandInvariant, PTL
=============================================================================
