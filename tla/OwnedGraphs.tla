----------------------------- MODULE OwnedGraphs -----------------------------
(***************************************************************************)
(* Deferred validation of the full CUDA graphs (ds41/graph_validation.py   *)
(* and vllm_owned_graphs.py) on the two tensor-parallel ranks.  A step of  *)
(* the engine replays up to one target and one draft graph; each ends with *)
(* an all-reduce of the error counts of both ranks, and its flags are      *)
(* copied to host buffers that are looked at later: by the thread that     *)
(* starts the next graph or by the one that fetches the output of a step,  *)
(* whichever drains _pending first.                                        *)
(***************************************************************************)
EXTENDS Naturals, FiniteSets

CONSTANTS
  Steps,    \* bound on the steps of the engine
  Ahead,    \* steps the engine schedules beyond the outputs it has (batch queue)
  MaxErrors \* bound on the replays whose kernels flag an error

ASSUME GraphAssumption == Steps \in Nat \ {0} /\ Ahead \in Nat \ {0} /\ MaxErrors \in Nat

Ranks == 0..1
Peer(r) == 1 - r
Head == 0    \* the rank whose outputs are fetched
Graphs == 0..1 \* 0: the target graph, 1: the draft graph

\* Replays are numbered in the order in which both ranks issue them.
Id(k, g) == 2 * k + g
Ids == 2..(2 * Steps + 1)
GraphOf(id) == id % 2
StepOf(id) == id \div 2

VARIABLES
  plan,     \* [1..Steps -> SUBSET Graphs]: the full graphs of each step
  step, at, \* [Ranks -> ...]: the step, and the first graph of it still to come
  main,     \* [Ranks -> ...]: the thread that executes the steps
  out,      \* the thread of the head that fetches outputs
  holder,   \* [Ranks -> ...]: holder of _pending_lock
  pending,  \* [Ranks -> SUBSET Graphs]: _pending, owners with an unread replay
  buffer,   \* [Ranks -> [Graphs -> Ids \cup {0}]]: replay in the host buffers
  failed,   \* [Ranks -> SUBSET Graphs]: poisoned owners
  issued,   \* [Ranks -> SUBSET Ids]: replays put on the stream
  done,     \* [Ranks -> SUBSET Ids]: replays the GPU has finished
  bad,      \* SUBSET (Ranks \X Ids): replays whose kernels flag an error
  returned, \* outputs that have left the worker
  destroyed,\* ranks that have destroyed their graphs
  broken    \* history: ranks whose execution raised for a reason of its own

threads == <<step, at, main, out>>
gpu == <<issued, done, bad>>
ends == <<returned, destroyed, broken>>
vars == <<plan, threads, holder, pending, buffer, failed, gpu, ends>>

Here(r) == {g \in plan[step[r]] : g >= at[r]}
Upcoming(r) == CHOOSE g \in Here(r) : \A h \in Here(r) : g <= h
Current(r) == Id(step[r], Upcoming(r))

\* Mutant: the flags of the peer are not summed up in the graph.
OwnFlags(r, id) == <<r, id>> \in bad

\* _check_deferred: own flags, then the summary of both ranks.
Wrong(r, id) == \E q \in {r, Peer(r)} : <<q, id>> \in bad

-----------------------------------------------------------------------------
Init ==
  /\ plan \in [1..Steps -> SUBSET Graphs]
  /\ step = [r \in Ranks |-> 1] /\ at = [r \in Ranks |-> 0]
  /\ main = [r \in Ranks |-> "idle"] /\ out = "wait"
  /\ holder = [r \in Ranks |-> "none"]
  /\ pending = [r \in Ranks |-> {}] /\ buffer = [r \in Ranks |-> [g \in Graphs |-> 0]]
  /\ failed = [r \in Ranks |-> {}]
  /\ issued = [r \in Ranks |-> {}] /\ done = [r \in Ranks |-> {}] /\ bad = {}
  /\ returned = 0 /\ destroyed = {} /\ broken = {}

Turn(r, s) == main' = [main EXCEPT ![r] = s]
Hold(r, h) == holder' = [holder EXCEPT ![r] = h]

-----------------------------------------------------------------------------
(* The thread that executes the steps *)

\* execution: a poisoned owner is refused before anything is drained.
Enter(r) ==
  /\ main[r] = "idle" /\ step[r] <= Steps /\ step[r] <= returned + Ahead
  /\ Here(r) # {}
  /\ Turn(r, IF Upcoming(r) \in failed[r] THEN "raised" ELSE "entered")
  /\ UNCHANGED <<plan, step, at, out, holder, pending, buffer, failed, gpu, ends>>

TakePending(r) ==
  /\ main[r] = "entered" /\ holder[r] = "none"
  /\ Hold(r, "main") /\ Turn(r, "drain")
  /\ UNCHANGED <<plan, step, at, out, pending, buffer, failed, gpu, ends>>

\* drain_pending waits for the copies of one owner, under the lock, and raises
\* on an error; the owner is no longer pending in either case.
Drain(r, g) ==
  /\ main[r] = "drain" /\ g \in pending[r] /\ buffer[r][g] \in done[r]
  /\ pending' = [pending EXCEPT ![r] = @ \ {g}]
  /\ IF Wrong(r, buffer[r][g])
     THEN /\ failed' = [failed EXCEPT ![r] = @ \cup {g}]
          /\ Hold(r, "none") /\ Turn(r, "raised")
     ELSE UNCHANGED <<failed, holder, main>>
  /\ UNCHANGED <<plan, step, at, out, buffer, gpu, ends>>

\* Mutant: the lock is kept until the next graph.
KeptLock(r) ==
  /\ main[r] = "drain" /\ pending[r] = {}
  /\ Turn(r, "replay")
  /\ UNCHANGED <<plan, step, at, out, holder, pending, buffer, failed, gpu, ends>>

\* Mutant: the replay does not wait for what is pending.
HastyDrained(r) ==
  /\ main[r] = "drain"
  /\ Hold(r, "none") /\ Turn(r, "replay")
  /\ UNCHANGED <<plan, step, at, out, pending, buffer, failed, gpu, ends>>

Drained(r) ==
  /\ main[r] = "drain" /\ pending[r] = {}
  /\ Hold(r, "none") /\ Turn(r, "replay")
  /\ UNCHANGED <<plan, step, at, out, pending, buffer, failed, gpu, ends>>

\* The native replay; what its kernels will flag depends on its inputs.
Replay(r) ==
  /\ main[r] = "replay"
  /\ issued' = [issued EXCEPT ![r] = @ \cup {Current(r)}]
  /\ \/ UNCHANGED bad
     \/ Cardinality(bad) < MaxErrors /\ bad' = bad \cup {<<r, Current(r)>>}
  /\ Turn(r, "defer")
  /\ UNCHANGED <<plan, step, at, out, holder, pending, buffer, failed, done, ends>>

\* _defer: the copies into the host buffers are enqueued, the owner is pending.
Defer(r) ==
  /\ main[r] = "defer" /\ holder[r] = "none"
  /\ pending' = [pending EXCEPT ![r] = @ \cup {Upcoming(r)}]
  /\ buffer' = [buffer EXCEPT ![r][Upcoming(r)] = Current(r)]
  /\ at' = [at EXCEPT ![r] = Upcoming(r) + 1]
  /\ Turn(r, "idle")
  /\ UNCHANGED <<plan, step, out, holder, failed, gpu, ends>>

\* The step is over: on the head its AsyncOutput can be fetched.
EndStep(r) ==
  /\ main[r] = "idle" /\ step[r] <= Steps /\ step[r] <= returned + Ahead
  /\ Here(r) = {}
  /\ step' = [step EXCEPT ![r] = @ + 1] /\ at' = [at EXCEPT ![r] = 0]
  /\ UNCHANGED <<plan, main, out, holder, pending, buffer, failed, gpu, ends>>

\* Anything else that raises while the owner executes poisons it: a stage that
\* has failed, a launch that is refused, an interrupt.
Breaks(r) ==
  /\ main[r] \in {"replay", "defer"}
  /\ failed' = [failed EXCEPT ![r] = @ \cup {Upcoming(r)}]
  /\ broken' = broken \cup {r}
  /\ Turn(r, "raised")
  /\ UNCHANGED <<plan, step, at, out, holder, pending, buffer, gpu, returned, destroyed>>

\* Mutant: the graphs of a poisoned owner are destroyed like the others.
PoisonedClear(r) ==
  /\ \/ main[r] = "idle" /\ at[r] = 0
     \/ main[r] = "raised"
  /\ \A g \in Graphs : buffer[r][g] \in done[r] \cup {0}
  /\ destroyed' = destroyed \cup {r}
  /\ Turn(r, "cleared")
  /\ UNCHANGED <<plan, step, at, out, holder, pending, buffer, failed, gpu, returned, broken>>

\* GraphResources.clear, between steps or after the thread has raised: refused
\* for poisoned owners, else each owner waits for its last recorded event.
Clear(r) ==
  /\ \/ main[r] = "idle" /\ at[r] = 0
     \/ main[r] = "raised"
  /\ failed[r] = {}
  /\ \A g \in Graphs : buffer[r][g] \in done[r] \cup {0}
  /\ destroyed' = destroyed \cup {r}
  /\ Turn(r, "cleared")
  /\ UNCHANGED <<plan, step, at, out, holder, pending, buffer, failed, gpu, returned, broken>>

-----------------------------------------------------------------------------
(* The thread of the head that fetches outputs *)

GetOutput ==
  /\ out = "wait" /\ returned + 1 < step[Head] /\ holder[Head] = "none"
  /\ Hold(Head, "out") /\ out' = "drain"
  /\ UNCHANGED <<plan, step, at, main, pending, buffer, failed, gpu, ends>>

OutputDrain(g) ==
  /\ out = "drain" /\ g \in pending[Head] /\ buffer[Head][g] \in done[Head]
  /\ pending' = [pending EXCEPT ![Head] = @ \ {g}]
  /\ IF Wrong(Head, buffer[Head][g])
     THEN /\ failed' = [failed EXCEPT ![Head] = @ \cup {g}]
          /\ Hold(Head, "none") /\ out' = "raised"
     ELSE UNCHANGED <<failed, holder, out>>
  /\ UNCHANGED <<plan, step, at, main, buffer, gpu, ends>>

\* Mutant: the output leaves without the checks that are still pending.
HastyOutput ==
  /\ out = "drain"
  /\ returned' = returned + 1
  /\ Hold(Head, "none") /\ out' = "wait"
  /\ UNCHANGED <<plan, step, at, main, pending, buffer, failed, gpu, destroyed, broken>>

OutputLeaves ==
  /\ out = "drain" /\ pending[Head] = {}
  /\ returned' = returned + 1
  /\ Hold(Head, "none") /\ out' = "wait"
  /\ UNCHANGED <<plan, step, at, main, pending, buffer, failed, gpu, destroyed, broken>>

-----------------------------------------------------------------------------
(* The GPUs *)

\* In stream order; the all-reduce at the end meets the one of the peer.
GpuRuns(r) ==
  /\ \E id \in issued[r] \ done[r] :
       /\ \A other \in issued[r] \ done[r] : id <= other
       /\ id \in issued[Peer(r)]
       /\ done' = [done EXCEPT ![r] = @ \cup {id}]
  /\ UNCHANGED <<plan, threads, holder, pending, buffer, failed, issued, bad, ends>>

-----------------------------------------------------------------------------
(* Specification *)

MainStep(r) ==
  \/ Enter(r) \/ TakePending(r) \/ Drained(r) \/ Replay(r) \/ Defer(r) \/ EndStep(r)
  \/ \E g \in Graphs : Drain(r, g)
OutStep == GetOutput \/ OutputLeaves \/ \E g \in Graphs : OutputDrain(g)

Next == OutStep \/ \E r \in Ranks : MainStep(r) \/ Breaks(r) \/ Clear(r) \/ GpuRuns(r)

Spec == Init /\ [][Next]_vars

\* Threads and GPUs run on; nothing has to break, and nobody to destroy graphs.
LiveSpec ==
  /\ Spec
  /\ \A r \in Ranks : WF_vars(MainStep(r)) /\ WF_vars(GpuRuns(r))
  /\ WF_vars(OutStep)

-----------------------------------------------------------------------------
(* Properties *)

Running == {"idle", "entered", "drain", "replay", "defer"}

\* Types, and the lock: it is held by exactly the thread that drains, and the
\* numbers of the replays are issued and finished in order.
GraphTypeOK ==
  /\ plan \in [1..Steps -> SUBSET Graphs]
  /\ step \in [Ranks -> 1..(Steps + 1)] /\ at \in [Ranks -> 0..2]
  /\ main \in [Ranks -> Running \cup {"raised", "cleared"}] /\ out \in {"wait", "drain", "raised"}
  /\ holder \in [Ranks -> {"none", "main", "out"}]
  /\ pending \in [Ranks -> SUBSET Graphs] /\ buffer \in [Ranks -> [Graphs -> Ids \cup {0}]]
  /\ failed \in [Ranks -> SUBSET Graphs]
  /\ issued \in [Ranks -> SUBSET Ids] /\ done \in [Ranks -> SUBSET Ids]
  /\ bad \subseteq Ranks \X Ids /\ returned \in 0..Steps
  /\ \A r \in Ranks : main[r] = "drain" <=> holder[r] = "main"
  /\ out = "drain" <=> holder[Head] = "out"
  /\ holder[Peer(Head)] # "out"

\* The host buffers of an owner are never filled again before somebody has
\* looked at them: whatever is pending at a replay was drained, and nothing
\* else becomes pending meanwhile ("undrained replay is refused").
DrainedBeforeReplay ==
  \A r \in Ranks : main[r] \in {"replay", "defer"} => pending[r] = {}

WrongReplays == {id \in Ids : \E r \in Ranks : <<r, id>> \in bad}
WrongSteps == {StepOf(id) : id \in WrongReplays}

\* "Deferred full-graph validation must pass before tokens leave".
OutputsAreChecked == \A k \in 1..returned : k \notin WrongSteps

\* What holds of it: the output of a step with an error, of either rank, leaves
\* only when the next graph of the head has taken the check and raised, and
\* then the error is in the last graph of that step.
OnlyOvertakenOutputs ==
  \A k \in 1..returned : k \in WrongSteps =>
    /\ main[Head] = "raised"
    /\ \A id \in WrongReplays : StepOf(id) = k => \A g \in plan[k] : g <= GraphOf(id)

\* Both ranks refuse the same replay: a rank whose graph waits in the all-reduce
\* for a peer that has raised is left alone only after the head has reported the
\* error from its output thread, or when the peer broke or was cleared
\* ("collective order is identical").
RefusedTogether ==
  \A r \in Ranks : main[Peer(r)] \in {"raised", "cleared"} /\ ~(issued[r] \subseteq issued[Peer(r)]) =>
                     out = "raised" \/ Peer(r) \in broken \cup destroyed

\* No graph is destroyed while the GPU may still run it.
DestroyedIdle == \A r \in destroyed : issued[r] \subseteq done[r]

\* An error that a kernel of either rank flags is raised on the head, unless
\* the peer never issues that replay.
ErrorsSurface ==
  WrongReplays \cap issued[Head] \cap issued[Peer(Head)] # {}
    ~> (main[Head] = "raised" \/ out = "raised")
=============================================================================
