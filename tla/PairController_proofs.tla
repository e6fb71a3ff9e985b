------------------------ MODULE PairController_proofs ------------------------
(* Proofs about the pair controllers, for any number of them, over any set   *)
(* of nodes: PairInv is inductive, and what follows.                         *)
EXTENDS PairController, PairNode_proofs, FiniteSetTheorems

Blamed == cause # "none"

\* Past the start: the stages in which a controller may have stops under way.
Stopping == Guarded \ {"mark", "start"}

\* A start under way is one its controller still waits for, and so is watched.
StartInv(n) ==
  /\ op[n]["start"] # "idle" => Blamed \/ \E c \in Ctls : stage[c] = "start" /\ n \in waiting[c]
  /\ "start" \in cli[n] => Blamed \/ op[n]["start"] = "issued"

\* A stop that answered ok left no worker, and no start can follow it.
StopInv(n) ==
  /\ op[n]["stop"] # "idle" => Blamed \/ \E c \in Ctls : stage[c] \in Stopping
  /\ op[n]["stop"] = "ok" => Blamed \/ box[n] \notin Up

\* What a controller that stops the pair has heard of a node.
RowInv(c, n) ==
  stage[c] \in {"stop", "stopall"} /\ row[c][n].ok =>
    Blamed \/ (box[n] \notin Up /\ op[n]["stop"] = "idle")

WatchInv ==
  /\ AbandonedOnlyByCause
  /\ journal = "broken" => Blamed
  /\ \A n \in Nodes : StartInv(n) /\ StopInv(n)
  /\ \A c \in Ctls, n \in Nodes : RowInv(c, n)

PairInv ==
  /\ TypeOK /\ NodeInv /\ WatchInv
  /\ \A n \in Nodes : boot[n] \in 0..MaxBoot
  /\ \A c \in Ctls : stage[c] = "aot" => ~latched[c]

\* The types of what a step of a controller moves, and of the rest.
Held == \A c \in Ctls : lock = c <=> stage[c] \in Guarded

MoveTypeOK ==
  /\ lock \in Ctls \cup {NoCtl}
  /\ stage \in [Ctls -> Stages]
  /\ waiting \in [Ctls -> SUBSET Nodes]
  /\ row \in [Ctls -> [Nodes -> Rows]]
  /\ Held

RestTypeOK ==
  /\ pairFiles \subseteq PairFiles
  /\ journal \in {"ok", "broken"}
  /\ reach \in [Nodes -> Links]
  /\ base \in [Ctls -> SUBSET [Nodes -> 0..MaxBoot]]
  /\ \A c \in Ctls : Cardinality(base[c]) <= 1
  /\ latched \in [Ctls -> BOOLEAN]
  /\ ready \in [Ctls -> BOOLEAN]
  /\ term \in [Ctls -> BOOLEAN]
  /\ errors \in 0..MaxErrors
  /\ cause \in Causes

LEMMA TypeParts == TypeOK <=> NodeTypeOK /\ MoveTypeOK /\ RestTypeOK
  BY DEF TypeOK, MoveTypeOK, RestTypeOK, Held

-----------------------------------------------------------------------------
(* A controller moves to a stage: its replies are blank again.               *)
Moves(c, s, w) == Set(stage, c, s) /\ Set(waiting, c, w) /\ Blank(c)

\* What becomes of the watch lock.
Locks(c, s) ==
  \/ lock' = lock /\ (stage[c] \in Guarded <=> s \in Guarded)
  \/ lock = NoCtl /\ lock' = c /\ s \in Guarded
  \/ s \notin Guarded /\ lock' = IF lock = c THEN NoCtl ELSE lock

\* Why the move leaves no worker unwatched: there is a cause, the controller
\* goes on watching, or both stops answered ok.
Calm(c, s) ==
  \/ cause' # "none"
  \/ /\ stage[c] = "start" => waiting[c] = {}
     /\ stage[c] \in Guarded => s \in Guarded
     /\ stage[c] \in Stopping => s \in Stopping
  \/ stage[c] \in {"stop", "stopall"} /\ AllOk(c) /\ s \in Ended

Shape(c) ==
  \E s \in Stages, w \in SUBSET Nodes :
    Moves(c, s, w) /\ Locks(c, s) /\ Calm(c, s) /\ (s = "aot" => ~latched'[c])

LEMMA NoRowTyped == NoRow \in Rows
  BY BootAssumption DEF NoRow, Rows

LEMMA Moved ==
  ASSUME MoveTypeOK, NEW c \in Ctls, NEW s \in Stages, NEW w \in SUBSET Nodes, Moves(c, s, w)
  PROVE  /\ stage' \in [Ctls -> Stages]
         /\ waiting' \in [Ctls -> SUBSET Nodes]
         /\ row' \in [Ctls -> [Nodes -> Rows]]
         /\ stage'[c] = s /\ waiting'[c] = w
         /\ \A n \in Nodes : row'[c][n] = NoRow
         /\ \A d \in Ctls \ {c} :
              stage'[d] = stage[d] /\ waiting'[d] = waiting[d] /\ row'[d] = row[d]
<1>1. [n \in Nodes |-> NoRow] \in [Nodes -> Rows]
  BY NoRowTyped
<1>2. row' = [row EXCEPT ![c] = [n \in Nodes |-> NoRow]] /\ row \in [Ctls -> [Nodes -> Rows]]
  BY DEF Moves, Blank, Set, MoveTypeOK
<1>3. /\ row' \in [Ctls -> [Nodes -> Rows]]
      /\ row'[c] = [n \in Nodes |-> NoRow]
      /\ \A d \in Ctls \ {c} : row'[d] = row[d]
  BY <1>1, <1>2
<1>4. stage' = [stage EXCEPT ![c] = s] /\ waiting' = [waiting EXCEPT ![c] = w]
  BY DEF Moves, Set
<1> QED
  BY <1>3, <1>4 DEF MoveTypeOK

LEMMA MoveTypes ==
  ASSUME MoveTypeOK, NEW c \in Ctls, NEW s \in Stages, NEW w \in SUBSET Nodes,
         Moves(c, s, w), Locks(c, s)
  PROVE  MoveTypeOK'
<1>1. lock' \in Ctls \cup {NoCtl}
  BY DEF MoveTypeOK, Locks
<1>2. ASSUME NEW d \in Ctls
      PROVE  lock' = d <=> stage'[d] \in Guarded
  <2>1. (lock = d <=> stage[d] \in Guarded) /\ (lock = c <=> stage[c] \in Guarded)
    BY DEF MoveTypeOK, Held
  <2>2. NoCtl # c /\ NoCtl # d
    BY PairAssumption
  <2> QED
    BY <2>1, <2>2, Moved DEF Locks
<1> QED
  BY <1>1, <1>2, Moved DEF MoveTypeOK, Held

\* One controller at most guards the pair.
LEMMA OneGuards ==
  ASSUME MoveTypeOK, NEW c \in Ctls, NEW d \in Ctls,
         stage[c] \in Guarded, stage[d] \in Guarded
  PROVE  c = d
BY DEF MoveTypeOK, Held

LEMMA BlamedKeeps == cause' # "none" /\ journal' \in {"ok", "broken"} => WatchInv'
  BY DEF WatchInv, AbandonedOnlyByCause, Blamed, StartInv, StopInv, RowInv

(* A move under which the nodes stay as they are.                            *)
LEMMA MoveKeeps ==
  ASSUME MoveTypeOK, RestTypeOK', WatchInv, UNCHANGED <<nodeVars, journal>>,
         NEW c \in Ctls, NEW s \in Stages, NEW w \in SUBSET Nodes,
         Moves(c, s, w), Calm(c, s), cause' = cause \/ cause' # "none"
  PROVE  WatchInv'
<1> SUFFICES ASSUME cause' = "none", cause = "none"
             PROVE  WatchInv'
  BY BlamedKeeps DEF RestTypeOK
<1>0. UNCHANGED <<box, op, cli, journal>>
  BY DEF nodeVars
<1>1. /\ stage'[c] = s
      /\ \A n \in Nodes : ~row'[c][n].ok
      /\ \A d \in Ctls \ {c} :
           stage'[d] = stage[d] /\ waiting'[d] = waiting[d] /\ row'[d] = row[d]
  BY Moved DEF NoRow
<1>2. \A d \in Ctls, n \in Nodes : RowInv(d, n)'
  BY <1>0, <1>1 DEF WatchInv, RowInv, Blamed
<1>3. /\ journal' # "broken"
      /\ \A n \in Nodes : op'[n]["stop"] = "ok" => box'[n] \notin Up
      /\ \A n \in Nodes : "start" \in cli'[n] => op'[n]["start"] = "issued"
  BY <1>0 DEF WatchInv, StartInv, StopInv, Blamed
<1>4. CASE /\ stage[c] = "start" => waiting[c] = {}
           /\ stage[c] \in Guarded => s \in Guarded
           /\ stage[c] \in Stopping => s \in Stopping
  <2>1. AbandonedOnlyByCause'
    BY <1>0, <1>1, <1>4 DEF WatchInv, AbandonedOnlyByCause, NeverAbandoned, Watched
  <2>2. ASSUME NEW n \in Nodes, op'[n]["start"] # "idle"
        PROVE  \E d \in Ctls : stage'[d] = "start" /\ n \in waiting'[d]
    <3>1. PICK d \in Ctls : stage[d] = "start" /\ n \in waiting[d]
      BY <1>0, <2>2 DEF WatchInv, StartInv, Blamed
    <3> QED
      BY <1>1, <1>4, <3>1
  <2>3. ASSUME NEW n \in Nodes, op'[n]["stop"] # "idle"
        PROVE  \E d \in Ctls : stage'[d] \in Stopping
    <3>1. PICK d \in Ctls : stage[d] \in Stopping
      BY <1>0, <2>3 DEF WatchInv, StopInv, Blamed
    <3> QED
      BY <1>1, <1>4, <3>1
  <2> QED
    BY <1>2, <1>3, <2>1, <2>2, <2>3 DEF WatchInv, StartInv, StopInv
<1>5. CASE stage[c] \in {"stop", "stopall"} /\ AllOk(c) /\ s \in Ended
  <2>1. \A n \in Nodes : box[n] \notin Up /\ op[n]["stop"] = "idle"
    BY <1>5 DEF WatchInv, RowInv, Blamed, AllOk
  <2>2. ASSUME NEW n \in Nodes
        PROVE  op[n]["start"] = "idle"
    <3> SUFFICES ASSUME NEW d \in Ctls, stage[d] = "start"
                 PROVE  FALSE
      BY DEF WatchInv, StartInv, Blamed
    <3>1. d = c
      BY <1>5, OneGuards DEF Guarded
    <3> QED
      BY <1>5, <3>1
  <2> QED
    BY <1>0, <1>2, <1>3, <2>1, <2>2
       DEF WatchInv, AbandonedOnlyByCause, NeverAbandoned, StartInv, StopInv
<1> QED
  BY <1>4, <1>5 DEF Calm

LEMMA ShapeKeeps ==
  ASSUME PairInv, NEW c \in Ctls, Shape(c), UNCHANGED <<nodeVars, journal>>,
         RestTypeOK', cause' = cause \/ cause' # "none",
         \A d \in Ctls \ {c} : latched'[d] = latched[d]
  PROVE  PairInv'
<1>1. PICK s \in Stages, w \in SUBSET Nodes :
        Moves(c, s, w) /\ Locks(c, s) /\ Calm(c, s) /\ (s = "aot" => ~latched'[c])
  BY DEF Shape
<1>2. NodeTypeOK /\ MoveTypeOK
  BY TypeParts DEF PairInv
<1>3. MoveTypeOK'
  BY <1>1, <1>2, MoveTypes
<1>4. NodeInv' /\ NodeTypeOK'
  BY InvStep DEF PairInv, NodeInv
<1>5. WatchInv'
  BY <1>1, <1>2, MoveKeeps DEF PairInv
<1>6. \A d \in Ctls : stage'[d] = "aot" => ~latched'[d]
  BY <1>1, <1>2, Moved DEF PairInv
<1>7. TypeOK'
  <2>1. (TypeOK <=> NodeTypeOK /\ MoveTypeOK /\ RestTypeOK)'
    BY TypeParts, PTL
  <2> QED
    BY <1>3, <1>4, <2>1
<1> QED
  BY <1>4, <1>5, <1>6, <1>7 DEF PairInv, nodeVars

-----------------------------------------------------------------------------
(* The steps that are such moves.                                            *)
LEMMA TypedParts ==
  ASSUME PairInv
  PROVE  NodeTypeOK /\ MoveTypeOK /\ RestTypeOK /\ WatchInv /\ NodeInv
BY TypeParts DEF PairInv

\* What Observe and Exit are.
LEMMA Forms ==
  ASSUME MoveTypeOK, NEW c \in Ctls, NEW s
  PROVE  /\ Observe(c) => Moves(c, "inspect", Nodes)
         /\ Exit(c, s) => /\ Moves(c, s, {})
                          /\ lock' = IF lock = c THEN NoCtl ELSE lock
                          /\ Set(term, c, FALSE)
BY DEF Observe, Exit, Moves, Blank, Set, MoveTypeOK

\* An end before the lock is taken, or one that has a cause.
LEMMA ExitShape ==
  ASSUME PairInv, NEW c \in Ctls, NEW s \in Ended, Exit(c, s),
         \/ stage[c] \notin Guarded
         \/ cause' # "none"
         \/ stage[c] \in {"stop", "stopall"} /\ AllOk(c)
  PROVE  Shape(c)
<1>1. s \in Stages /\ s \notin Guarded /\ s # "aot"
  BY DEF Ended, Stages, Guarded
<1>2. Moves(c, s, {}) /\ Locks(c, s)
  BY <1>1, Forms, TypedParts DEF Locks
<1>3. Calm(c, s)
  BY DEF Calm, Guarded, Stopping
<1> QED
  BY <1>1, <1>2, <1>3 DEF Shape

LEMMA Shaped ==
  ASSUME NEW c \in Ctls, NEW s \in Stages, NEW w \in SUBSET Nodes,
         Moves(c, s, w), Locks(c, s), Calm(c, s), s # "aot"
  PROVE  Shape(c)
BY DEF Shape

\* A step on the way of one that does not guard the pair, or that goes on to.
LEMMA EnterShape ==
  ASSUME PairInv, NEW c \in Ctls, NEW s \in Stages, Enter(c, s), s # "aot",
         stage[c] = "start" => waiting[c] = {},
         stage[c] \in Guarded => s \in Guarded,
         stage[c] \in Stopping => s \in Stopping,
         \/ lock' = lock /\ (s \in Guarded => stage[c] \in Guarded)
         \/ lock = NoCtl /\ lock' = c /\ s \in Guarded
  PROVE  Shape(c)
<1>0. PICK w \in SUBSET Nodes : w = waiting[c]
  BY TypedParts DEF MoveTypeOK
<1>1. Moves(c, s, w)
  BY <1>0, TypedParts DEF Enter, Moves, Blank, Set, MoveTypeOK
<1>2. Locks(c, s)
  BY DEF Locks
<1>3. Calm(c, s)
  BY DEF Calm
<1> QED
  BY <1>1, <1>2, <1>3, Shaped

LEMMA ObserveShape ==
  ASSUME PairInv, NEW c \in Ctls, Observe(c),
         stage[c] = "start" => waiting[c] = {},
         \/ lock' = lock /\ stage[c] \in Guarded
         \/ lock = NoCtl /\ lock' = c
  PROVE  Shape(c)
<1>1. "inspect" \in Stages /\ "inspect" \in Guarded /\ "inspect" \in Stopping
  BY DEF Stages, Guarded, Stopping
<1> QED
  BY <1>1, Forms, TypedParts DEF Locks, Calm, Shape

\* The variables a step of one controller sets stay well typed.
LEMMA SetTypes ==
  ASSUME RestTypeOK, NEW c \in Ctls, NEW v \in BOOLEAN
  PROVE  /\ Set(latched, c, v) => /\ latched' \in [Ctls -> BOOLEAN]
                                  /\ latched'[c] = v
                                  /\ \A d \in Ctls \ {c} : latched'[d] = latched[d]
         /\ Set(ready, c, v) => ready' \in [Ctls -> BOOLEAN]
         /\ Set(term, c, v) => term' \in [Ctls -> BOOLEAN]
BY DEF Set, RestTypeOK

\* The rest of the state through an end.
LEMMA ExitRest ==
  ASSUME PairInv, NEW c \in Ctls, NEW s, Exit(c, s),
         UNCHANGED <<pairFiles, journal, reach, watchVars>>,
         cause' \in Causes
  PROVE  RestTypeOK'
<1>1. RestTypeOK
  BY TypedParts
<1>2. term' \in [Ctls -> BOOLEAN]
  BY <1>1, SetTypes DEF Exit
<1> QED
  BY <1>1, <1>2 DEF RestTypeOK, watchVars

LEMMA ExitKeeps ==
  ASSUME PairInv, NEW c \in Ctls, NEW s \in Ended, Exit(c, s),
         UNCHANGED <<nodeVars, pairFiles, journal, reach, watchVars>>,
         cause' \in Causes, cause' = cause \/ cause' # "none",
         \/ stage[c] \notin Guarded
         \/ cause' # "none"
         \/ stage[c] \in {"stop", "stopall"} /\ AllOk(c)
  PROVE  PairInv'
<1>1. Shape(c) /\ RestTypeOK'
  BY ExitShape, ExitRest
<1>2. UNCHANGED <<nodeVars, journal>> /\ latched' = latched
  BY DEF watchVars
<1> QED
  BY <1>1, <1>2, ShapeKeeps

LEMMA RestKeeps ==
  ASSUME PairInv, UNCHANGED <<journal, reach, base, latched, ready, term, errors, cause>>,
         pairFiles' \subseteq PairFiles
  PROVE  RestTypeOK'
BY TypedParts DEF RestTypeOK

LEMMA HappenedTyped ==
  ASSUME RestTypeOK, NEW what \in Causes \ {"none"}, Happened(what)
  PROVE  cause' \in Causes /\ cause' # "none"
BY DEF RestTypeOK, Happened, Causes

-----------------------------------------------------------------------------
(* Controller steps under which the nodes stay as they are.                  *)
LEMMA EntersKeep ==
  ASSUME PairInv, NEW c \in Ctls,
         \/ Execute(c) \/ WatchExisting(c) \/ Publish(c)
         \/ SkipRound(c)
  PROVE  PairInv'
<1> USE DEF Turn, Guarded, Stopping, Stages
<1>1. /\ UNCHANGED <<nodeVars, lock, journal, reach, base, latched, ready, term, errors, cause>>
      /\ pairFiles' \subseteq PairFiles
  BY TypedParts DEF Execute, WatchExisting, Publish, SkipRound, watchVars, PairFiles, RestTypeOK
<1>2. Shape(c)
  <2>1. CASE Execute(c)
    BY <2>1, EnterShape DEF Execute
  <2>2. CASE WatchExisting(c)
    BY <2>2, EnterShape DEF WatchExisting
  <2>3. CASE Publish(c)
    BY <2>3, EnterShape DEF Publish
  <2>4. CASE SkipRound(c)
    BY <2>4, EnterShape DEF SkipRound
  <2> QED
    BY <2>1, <2>2, <2>3, <2>4
<1> QED
  BY <1>1, <1>2, ShapeKeeps, RestKeeps

LEMMA PreflightKeeps ==
  ASSUME PairInv, NEW c \in Ctls, Preflight(c)
  PROVE  PairInv'
<1> USE DEF Turn, Guarded, Stopping
<1>1. CASE Enter(c, "mkdir") /\ UNCHANGED <<lock, term>>
  <2>1. UNCHANGED <<nodeVars, lock, journal, reach, base, latched, ready, term, errors, cause, pairFiles>>
    BY <1>1 DEF Preflight, watchVars
  <2>2. Shape(c)
    BY <1>1, EnterShape DEF Preflight, Stages
  <2> QED
    BY <2>1, <2>2, ShapeKeeps, RestKeeps, TypedParts DEF RestTypeOK
<1>2. CASE Exit(c, "failed")
  BY <1>2, ExitKeeps, TypedParts DEF Preflight, Ended, RestTypeOK
<1> QED
  BY <1>1, <1>2 DEF Preflight

LEMMA AfterRecoverKeeps ==
  ASSUME PairInv, NEW c \in Ctls, AfterRecover(c)
  PROVE  PairInv'
<1> USE DEF Turn, Guarded, Stopping
<1>1. CASE Enter(c, "publish") /\ UNCHANGED <<lock, term>>
  <2>1. UNCHANGED <<nodeVars, lock, journal, reach, base, latched, ready, term, errors, cause, pairFiles>>
    BY <1>1 DEF AfterRecover, watchVars
  <2>2. Shape(c)
    BY <1>1, EnterShape DEF AfterRecover, Stages
  <2> QED
    BY <2>1, <2>2, ShapeKeeps, RestKeeps, TypedParts DEF RestTypeOK
<1>2. CASE Exit(c, "failed")
  BY <1>2, ExitKeeps, TypedParts DEF AfterRecover, Ended, RestTypeOK
<1> QED
  BY <1>1, <1>2 DEF AfterRecover

\* The watch lock is taken, or found taken.
LEMMA LockKeeps ==
  ASSUME PairInv, NEW c \in Ctls, TakeLock(c) \/ LockBusy(c) \/ PairExists(c)
  PROVE  PairInv'
<1> USE DEF Turn, AtLock, Guarded, Stopping
<1>1. CASE TakeLock(c)
  <2>1. UNCHANGED <<nodeVars, journal, reach, base, latched, ready, term, errors, cause, pairFiles>>
    BY <1>1 DEF TakeLock, watchVars
  <2>2. Shape(c)
    <3>1. CASE stage[c] = "attach"
      BY <1>1, <3>1, ObserveShape DEF TakeLock
    <3>2. CASE stage[c] # "attach"
      BY <1>1, <3>2, EnterShape DEF TakeLock, Stages
    <3> QED
      BY <3>1, <3>2
  <2> QED
    BY <2>1, <2>2, ShapeKeeps, RestKeeps, TypedParts DEF RestTypeOK
<1>2. CASE LockBusy(c)
  BY <1>2, ExitKeeps, TypedParts DEF LockBusy, Ended, RestTypeOK
<1>3. CASE PairExists(c)
  BY <1>3, ExitKeeps, TypedParts DEF PairExists, Ended, RestTypeOK
<1> QED
  BY <1>1, <1>2, <1>3

LEMMA ObservesKeep ==
  ASSUME PairInv, NEW c \in Ctls, AfterStart(c) \/ Wake(c)
  PROVE  PairInv'
<1>1. UNCHANGED <<nodeVars, lock, journal, reach, base, latched, ready, term, errors, cause, pairFiles>>
  BY DEF AfterStart, Wake, watchVars
<1>2. Observe(c) /\ stage[c] \in Guarded /\ (stage[c] = "start" => waiting[c] = {})
  BY DEF AfterStart, Wake, Turn, Guarded
<1>3. Shape(c)
  BY <1>1, <1>2, ObserveShape
<1> QED
  BY <1>1, <1>3, ShapeKeeps, RestKeeps, TypedParts DEF RestTypeOK

LEMMA AfterStopKeeps ==
  ASSUME PairInv, NEW c \in Ctls, AfterStop(c)
  PROVE  PairInv'
<1> USE DEF Turn, Guarded, Stopping
<1>1. CASE AllOk(c)
  BY <1>1, ExitKeeps, TypedParts DEF AfterStop, Ended, RestTypeOK
<1>2. CASE ~AllOk(c)
  <2>1. UNCHANGED <<nodeVars, lock, journal, reach, base, latched, ready, term, errors, cause, pairFiles>>
    BY <1>2 DEF AfterStop, watchVars
  <2>2. Shape(c)
    BY <1>2, EnterShape DEF AfterStop, Stages
  <2> QED
    BY <2>1, <2>2, ShapeKeeps, RestKeeps, TypedParts DEF RestTypeOK
<1> QED
  BY <1>1, <1>2

\* The ends that have a cause, and the SIGTERM before there is a handler.
LEMMA EndsKeep ==
  ASSUME PairInv, NEW c \in Ctls,
         \/ InterruptedAgain(c) \/ RecordRaises(c) \/ Killed(c)
         \/ stage[c] \notin Guarded /\ Sigterm(c)
  PROVE  PairInv'
<1>1. CASE InterruptedAgain(c)
  BY <1>1, ExitKeeps, HappenedTyped, TypedParts DEF InterruptedAgain, Ended, Causes
<1>2. CASE RecordRaises(c)
  <2>1. cause # "none" /\ cause \in Causes
    BY <1>2, TypedParts DEF RecordRaises, WatchInv, Blamed, RestTypeOK
  <2> QED
    BY <1>2, <2>1, ExitKeeps DEF RecordRaises, Ended
<1>3. CASE Killed(c)
  BY <1>3, ExitKeeps, HappenedTyped, TypedParts DEF Killed, Ended, Causes
<1>4. CASE stage[c] \notin Guarded /\ Sigterm(c)
  BY <1>4, ExitKeeps, TypedParts DEF Sigterm, Ended, RestTypeOK
<1> QED
  BY <1>1, <1>2, <1>3, <1>4

-----------------------------------------------------------------------------
(* The rounds of the watch that set the pending reason, started_at or ready. *)
LEMMA BaseTyped ==
  ASSUME PairInv, NEW c \in Ctls,
         base' = [base EXCEPT ![c] = IF @ = {} THEN {Boots(c)} ELSE @]
  PROVE  /\ base' \in [Ctls -> SUBSET [Nodes -> 0..MaxBoot]]
         /\ \A d \in Ctls : Cardinality(base'[d]) <= 1
<1>1. row[c] \in [Nodes -> Rows]
  BY TypedParts DEF MoveTypeOK
<1>2. \A n \in Nodes : row[c][n].boot \in 0..MaxBoot
  BY <1>1 DEF Rows
<1>3. Boots(c) \in [Nodes -> 0..MaxBoot]
  BY <1>2 DEF Boots
<1>4. Cardinality({Boots(c)}) = 1
  BY FS_Singleton
<1>5. base \in [Ctls -> SUBSET [Nodes -> 0..MaxBoot]] /\ \A d \in Ctls : Cardinality(base[d]) <= 1
  BY TypedParts DEF RestTypeOK
<1>6. base' \in [Ctls -> SUBSET [Nodes -> 0..MaxBoot]]
  BY <1>3, <1>5
<1>7. ASSUME NEW d \in Ctls
      PROVE  Cardinality(base'[d]) <= 1
  <2>1. base'[d] = base[d] \/ base'[d] = {Boots(c)}
    BY <1>5
  <2> QED
    BY <1>4, <1>5, <2>1
<1> QED
  BY <1>6, <1>7

LEMMA QuietRoundKeeps ==
  ASSUME PairInv, NEW c \in Ctls, QuietRound(c)
  PROVE  PairInv'
<1>1. /\ UNCHANGED <<nodeVars, pairFiles, lock, journal, reach, ready, term, errors, cause>>
      /\ stage[c] = "inspect" /\ ~latched[c]
      /\ base' = [base EXCEPT ![c] = IF @ = {} THEN {Boots(c)} ELSE @]
  BY DEF QuietRound, Turn
<1>2. latched' = latched \/ Set(latched, c, TRUE)
  BY DEF QuietRound
<1>3. /\ latched' \in [Ctls -> BOOLEAN]
      /\ \A d \in Ctls \ {c} : latched'[d] = latched[d]
  BY <1>2, SetTypes, TypedParts DEF RestTypeOK
<1>4. RestTypeOK'
  BY <1>1, <1>3, BaseTyped, TypedParts DEF RestTypeOK
<1>5. Shape(c)
  <2>1. CASE Enter(c, "sleep")
    BY <1>1, <2>1, EnterShape DEF Stages, Guarded, Stopping
  <2>2. CASE Observe(c)
    BY <1>1, <2>2, ObserveShape DEF Guarded
  <2>3. CASE Set(stage, c, "aot") /\ Set(waiting, c, Nodes) /\ Blank(c) /\ UNCHANGED latched
    <3>1. Moves(c, "aot", Nodes) /\ "aot" \in Stages /\ ~latched'[c]
      BY <1>1, <2>3 DEF Moves, Stages
    <3>2. Locks(c, "aot") /\ Calm(c, "aot")
      BY <1>1 DEF Locks, Calm, Guarded, Stopping
    <3> QED
      BY <3>1, <3>2 DEF Shape
  <2> QED
    BY <2>1, <2>2, <2>3 DEF QuietRound
<1> QED
  BY <1>1, <1>3, <1>4, <1>5, ShapeKeeps

LEMMA AfterAotKeeps ==
  ASSUME PairInv, NEW c \in Ctls, AfterAot(c)
  PROVE  PairInv'
<1>1. /\ UNCHANGED <<nodeVars, lock, journal, reach, base, term, errors, cause>>
      /\ stage[c] = "aot"
      /\ pairFiles' \subseteq PairFiles
      /\ ready' = ready \/ Set(ready, c, TRUE)
      /\ latched' = latched \/ Set(latched, c, TRUE)
      /\ Enter(c, "sleep") \/ Observe(c)
  BY TypedParts DEF AfterAot, Turn, PairFiles, RestTypeOK
<1>2. /\ latched' \in [Ctls -> BOOLEAN] /\ ready' \in [Ctls -> BOOLEAN]
      /\ \A d \in Ctls \ {c} : latched'[d] = latched[d]
  BY <1>1, SetTypes, TypedParts DEF RestTypeOK
<1>3. RestTypeOK'
  BY <1>1, <1>2, TypedParts DEF RestTypeOK
<1>4. Shape(c)
  BY <1>1, EnterShape, ObserveShape DEF Stages, Guarded, Stopping
<1> QED
  BY <1>1, <1>2, <1>3, <1>4, ShapeKeeps

-----------------------------------------------------------------------------
(* Asking the agents: nothing but the asked processes moves on the nodes.    *)
LEMMA AskMoves ==
  ASSUME PairInv, NEW c \in Ctls, NEW call \in Kinds, NEW s, Ask(c, call, s)
  PROVE  /\ Moves(c, s, Nodes)
         /\ UNCHANGED <<files, box, boot, ram, cli, starts>>
         /\ op' \in [Nodes -> [Calls -> Steps]]
         /\ \A n \in Nodes : op'[n][call] \in {"called", op[n][call]}
         /\ \A n \in Nodes, k \in Kinds \ {call} : op'[n][k] = op[n][k]
<1>1. /\ op \in [Nodes -> [Calls -> Steps]] /\ Calls = Kinds
      /\ op' = [n \in Nodes |-> [op[n] EXCEPT ![call] = IF Reachable(n) THEN "called" ELSE @]]
  BY TypedParts, PairAssumption DEF Ask, NodeTypeOK
<1>2. "called" \in Steps
  BY DEF Steps
<1>3. ASSUME NEW n \in Nodes
      PROVE  /\ op'[n] \in [Calls -> Steps]
             /\ op'[n][call] \in {"called", op[n][call]}
             /\ \A k \in Kinds \ {call} : op'[n][k] = op[n][k]
  <2>1. op'[n] = [op[n] EXCEPT ![call] = IF Reachable(n) THEN "called" ELSE @]
    BY <1>1
  <2>2. op[n] \in [Kinds -> Steps]
    BY <1>1
  <2> HIDE DEF Kinds, Steps
  <2> QED
    BY <1>1, <1>2, <2>1, <2>2
<1>4. op' \in [Nodes -> [Calls -> Steps]]
  BY <1>1, <1>3
<1> QED
  BY <1>3, <1>4 DEF Ask, Moves

LEMMA AskNode ==
  ASSUME PairInv, NEW c \in Ctls, NEW call \in Kinds, NEW s, Ask(c, call, s)
  PROVE  NodeInv'
<1>1. /\ UNCHANGED <<files, box, boot, ram, cli, starts>>
      /\ op' \in [Nodes -> [Calls -> Steps]]
      /\ \A n \in Nodes, k \in Kinds : op'[n][k] \in {"called", op[n][k]}
  BY AskMoves
<1>2. NodeTypeOK'
  BY <1>1, TypedParts DEF NodeTypeOK
<1>3. ASSUME NEW n \in Nodes
      PROVE  Evidence(n)' /\ OneStart(n)'
  BY <1>1, TypedParts DEF NodeInv, Evidence, OneStart
<1>4. ASSUME NEW n \in Nodes, NEW k \in Calls
      PROVE  Knows(n, k)'
  BY <1>1, TypedParts, PairAssumption DEF NodeInv, Knows, At
<1> QED
  BY <1>2, <1>3, <1>4 DEF NodeInv

\* Who may ask what: creates come before the lock, the start once it is held,
\* stops from a controller that guards the pair and waits for no start.
MayAsk(c, call, s) ==
  /\ call \in {"create", "recover"} => stage[c] \notin Guarded /\ s \notin Guarded
  /\ call = "start" => stage[c] = "mark" /\ s = "start"
  /\ call = "stop" => /\ stage[c] \in Guarded
                      /\ stage[c] = "start" => waiting[c] = {}
                      /\ s \in {"stop", "stopall"}

LEMMA AskWatch ==
  ASSUME PairInv, NEW c \in Ctls, NEW call \in Kinds, NEW s \in Stages, Ask(c, call, s),
         UNCHANGED <<journal, cause>>, MayAsk(c, call, s)
  PROVE  WatchInv'
<1>1. CASE cause # "none"
  BY <1>1, BlamedKeeps, TypedParts DEF RestTypeOK
<1>2. CASE cause = "none"
  <2>0. /\ UNCHANGED <<box, cli, journal, cause>>
        /\ \A n \in Nodes : op'[n][call] \in {"called", op[n][call]}
        /\ \A n \in Nodes, k \in Kinds \ {call} : op'[n][k] = op[n][k]
    BY AskMoves
  <2>1. /\ stage'[c] = s /\ waiting'[c] = Nodes
        /\ \A n \in Nodes : ~row'[c][n].ok
        /\ \A d \in Ctls \ {c} :
             stage'[d] = stage[d] /\ waiting'[d] = waiting[d] /\ row'[d] = row[d]
    BY AskMoves, Moved, TypedParts DEF NoRow
  <2>2. AbandonedOnlyByCause'
    <3>1. stage[c] \in Guarded => s \in Guarded
      BY DEF MayAsk, Guarded, Kinds
    <3> QED
      BY <1>2, <2>0, <2>1, <3>1, TypedParts
         DEF WatchInv, AbandonedOnlyByCause, NeverAbandoned, Watched
  <2>3. ASSUME NEW n \in Nodes, op'[n]["start"] # "idle"
        PROVE  \E d \in Ctls : stage'[d] = "start" /\ n \in waiting'[d]
    <3>1. CASE call = "start"
      BY <2>1, <3>1 DEF MayAsk
    <3>2. CASE call # "start"
      <4>1. PICK d \in Ctls : stage[d] = "start" /\ n \in waiting[d]
        BY <1>2, <2>0, <2>3, <3>2, TypedParts DEF WatchInv, StartInv, Blamed, Kinds
      <4>2. d # c
        BY <3>2, <4>1 DEF MayAsk, Guarded, Kinds
      <4> QED
        BY <2>1, <4>1, <4>2
    <3> QED
      BY <3>1, <3>2
  <2>4. ASSUME NEW n \in Nodes, "start" \in cli'[n]
        PROVE  op'[n]["start"] = "issued"
    <3>1. op[n]["start"] = "issued"
      BY <1>2, <2>0, <2>4, TypedParts DEF WatchInv, StartInv, Blamed
    <3>2. PICK d \in Ctls : stage[d] = "start"
      BY <1>2, <3>1, TypedParts DEF WatchInv, StartInv, Blamed
    <3>3. call # "start"
      BY <3>2, OneGuards, TypedParts DEF MayAsk, Guarded
    <3> QED
      BY <2>0, <3>1, <3>3 DEF Kinds
  <2>5. ASSUME NEW n \in Nodes, op'[n]["stop"] # "idle"
        PROVE  \E d \in Ctls : stage'[d] \in Stopping
    <3>1. CASE call = "stop"
      BY <2>1, <3>1 DEF MayAsk, Stopping, Guarded
    <3>2. CASE call # "stop"
      <4>1. PICK d \in Ctls : stage[d] \in Stopping
        BY <1>2, <2>0, <2>5, <3>2, TypedParts DEF WatchInv, StopInv, Blamed, Kinds
      <4>2. d # c
        BY <3>2, <4>1 DEF MayAsk, Guarded, Stopping, Kinds
      <4> QED
        BY <2>1, <4>1, <4>2
    <3> QED
      BY <3>1, <3>2
  <2>6. \A n \in Nodes : op'[n]["stop"] = "ok" => box'[n] \notin Up
    BY <1>2, <2>0, TypedParts DEF WatchInv, StopInv, Blamed, Kinds
  <2>7. ASSUME NEW d \in Ctls, NEW n \in Nodes
        PROVE  RowInv(d, n)'
    <3>1. CASE d = c
      BY <2>1, <3>1 DEF RowInv
    <3>2. CASE d # c /\ stage[d] \in {"stop", "stopall"}
      <4>1. call # "stop"
        BY <3>2, OneGuards, TypedParts DEF MayAsk, Guarded
      <4> QED
        BY <2>0, <2>1, <3>2, <4>1, TypedParts DEF WatchInv, RowInv, Blamed, Kinds
    <3> QED
      BY <2>1, <3>1, <3>2 DEF RowInv
  <2> QED
    BY <1>2, <2>0, <2>2, <2>3, <2>4, <2>5, <2>6, <2>7, TypedParts
       DEF WatchInv, StartInv, StopInv, Blamed
<1> QED
  BY <1>1, <1>2

LEMMA AskRest ==
  ASSUME PairInv, NEW c \in Ctls, NEW call \in Kinds, NEW s \in Stages, Ask(c, call, s),
         WatchInv', RestTypeOK', Locks(c, s),
         s # "aot", \A d \in Ctls \ {c} : latched'[d] = latched[d]
  PROVE  PairInv'
<1>1. WatchInv' /\ NodeInv'
  BY AskNode
<1>2. MoveTypeOK'
  BY AskMoves, MoveTypes, TypedParts
<1>3. TypeOK'
  <2>1. (TypeOK <=> NodeTypeOK /\ MoveTypeOK /\ RestTypeOK)'
    BY TypeParts, PTL
  <2> QED
    BY <1>1, <1>2, <2>1 DEF NodeInv
<1>4. \A d \in Ctls : stage'[d] = "aot" => ~latched'[d]
  BY AskMoves, Moved, TypedParts DEF PairInv
<1> QED
  BY <1>1, <1>3, <1>4, AskMoves DEF PairInv

LEMMA AskKeeps ==
  ASSUME PairInv, NEW c \in Ctls, NEW call \in Kinds, NEW s \in Stages, Ask(c, call, s),
         UNCHANGED <<journal, cause>>, RestTypeOK', Locks(c, s), MayAsk(c, call, s),
         s # "aot", \A d \in Ctls \ {c} : latched'[d] = latched[d]
  PROVE  PairInv'
BY AskWatch, AskRest

LEMMA AsksKeep ==
  ASSUME PairInv, NEW c \in Ctls,
         \/ MakePair(c) \/ AfterCreate(c) \/ MarkStart(c) \/ SafetyStop(c)
         \/ Interrupted(c) \/ WatchRaises(c) \/ AfterStopAll(c)
  PROVE  PairInv'
<1> USE DEF Turn
<1>0. RestTypeOK /\ Kinds = {"create", "recover", "start", "stop"}
  BY TypedParts DEF Kinds
<1>1. CASE MakePair(c)
  <2>1. RestTypeOK'
    BY <1>0, <1>1, RestKeeps DEF MakePair, watchVars, RestTypeOK, PairFiles
  <2> QED
    BY <1>0, <1>1, <2>1, AskKeeps DEF MakePair, watchVars, MayAsk, Locks, Stages, Guarded
<1>2. CASE AfterCreate(c)
  <2>1. UNCHANGED <<lock, journal, reach, base, latched, ready, term, errors, cause, pairFiles>>
    BY <1>2 DEF AfterCreate, watchVars
  <2>2. RestTypeOK'
    BY <1>0, <2>1, RestKeeps DEF RestTypeOK
  <2>3. CASE AllOk(c)
    <3>1. Shape(c) /\ UNCHANGED nodeVars
      BY <1>2, <2>1, <2>3, EnterShape DEF AfterCreate, Stages, Guarded, Stopping
    <3> QED
      BY <2>1, <2>2, <3>1, ShapeKeeps
  <2>4. CASE ~AllOk(c)
    BY <1>0, <1>2, <2>1, <2>2, <2>4, AskKeeps DEF AfterCreate, MayAsk, Locks, Stages, Guarded
  <2> QED
    BY <2>3, <2>4
<1>3. CASE MarkStart(c)
  <2>1. RestTypeOK'
    BY <1>0, <1>3, RestKeeps DEF MarkStart, watchVars, RestTypeOK, PairFiles
  <2> QED
    BY <1>0, <1>3, <2>1, AskKeeps DEF MarkStart, watchVars, MayAsk, Locks, Stages, Guarded
<1>4. CASE SafetyStop(c)
  <2>1. /\ latched' \in [Ctls -> BOOLEAN]
        /\ \A d \in Ctls \ {c} : latched'[d] = latched[d]
    BY <1>0, <1>4, SetTypes DEF SafetyStop
  <2>2. RestTypeOK'
    BY <1>0, <1>4, <2>1 DEF SafetyStop, RestTypeOK
  <2> QED
    BY <1>0, <1>4, <2>1, <2>2, AskKeeps DEF SafetyStop, MayAsk, Locks, Stages, Guarded
<1>5. CASE Interrupted(c)
  <2>1. term' \in [Ctls -> BOOLEAN]
    BY <1>0, <1>5, SetTypes DEF Interrupted
  <2>2. RestTypeOK'
    BY <1>0, <1>5, <2>1 DEF Interrupted, watchVars, RestTypeOK
  <2> QED
    BY <1>0, <1>5, <2>2, AskKeeps DEF Interrupted, watchVars, MayAsk, Locks, Stages, Guarded
<1>6. CASE WatchRaises(c)
  <2>1. RestTypeOK'
    BY <1>0, <1>6, RestKeeps DEF WatchRaises, watchVars, RestTypeOK
  <2> QED
    BY <1>0, <1>6, <2>1, AskKeeps DEF WatchRaises, watchVars, MayAsk, Locks, Stages, Guarded
<1>7. CASE AfterStopAll(c)
  <2>1. CASE AllOk(c)
    BY <1>0, <1>7, <2>1, ExitKeeps DEF AfterStopAll, Ended, RestTypeOK
  <2>2. CASE ~AllOk(c)
    <3>1. RestTypeOK'
      BY <1>0, <1>7, <2>2, RestKeeps DEF AfterStopAll, watchVars, RestTypeOK
    <3> QED
      BY <1>0, <1>7, <2>2, <3>1, AskKeeps DEF AfterStopAll, watchVars, MayAsk, Locks, Stages,
         Guarded
  <2> QED
    BY <2>1, <2>2
<1> QED
  BY <1>1, <1>2, <1>3, <1>4, <1>5, <1>6, <1>7

\* The second signal: with a start call out, and at its own stops, it is a cause.
LEMMA SecondSigtermKeeps ==
  ASSUME PairInv, NEW c \in Ctls, SecondSigterm(c)
  PROVE  PairInv'
<1>0. /\ RestTypeOK /\ stage[c] \in Guarded
      /\ UNCHANGED <<pairFiles, journal, reach, base, latched, ready, errors>>
      /\ "stop" \in Kinds /\ "stopall" \in Stages /\ "stopall" \in Guarded /\ "stopall" # "aot"
  BY TypedParts DEF SecondSigterm, watchVars, Kinds, Stages, Guarded
<1>1. CASE stage[c] = "stopall"
  <2>1. Exit(c, "failed") /\ UNCHANGED nodeVars /\ Happened("second signal")
    BY <1>1 DEF SecondSigterm
  <2>2. cause' \in Causes /\ cause' # "none"
    BY <1>0, <2>1, HappenedTyped DEF Causes
  <2> QED
    BY <1>0, <2>1, <2>2, ExitKeeps DEF Ended, watchVars
<1>2. CASE stage[c] # "stopall"
  <2>1. Ask(c, "stop", "stopall") /\ lock' = lock /\ Set(term, c, FALSE)
    BY <1>2 DEF SecondSigterm
  <2>2. term' \in [Ctls -> BOOLEAN] /\ Locks(c, "stopall")
    BY <1>0, <2>1, SetTypes DEF RestTypeOK, Locks
  <2>3. CASE stage[c] = "start"
    <3>1. cause' \in Causes /\ cause' # "none"
      BY <1>0, <2>3, HappenedTyped DEF SecondSigterm, Causes
    <3>2. WatchInv'
      BY <1>0, <3>1, BlamedKeeps DEF RestTypeOK
    <3>3. RestTypeOK'
      BY <1>0, <2>2, <3>1 DEF RestTypeOK
    <3> QED
      BY <1>0, <2>1, <2>2, <3>2, <3>3, AskRest
  <2>4. CASE stage[c] # "start"
    <3>1. cause' = cause
      BY <1>2, <2>4 DEF SecondSigterm
    <3>2. RestTypeOK'
      BY <1>0, <2>2, <3>1 DEF RestTypeOK
    <3>3. MayAsk(c, "stop", "stopall")
      BY <1>0, <2>4 DEF MayAsk
    <3> QED
      BY <1>0, <2>1, <2>2, <3>1, <3>2, <3>3, AskKeeps
  <2> QED
    BY <2>3, <2>4
<1> QED
  BY <1>1, <1>2

-----------------------------------------------------------------------------
(* The answers to a controller, and the calls that fail.                     *)
LEMMA Answered ==
  ASSUME PairInv, NEW c \in Ctls, NEW n \in Nodes, NEW r \in Rows, Answer(c, n, r)
  PROVE  /\ UNCHANGED <<pairFiles, lock, journal, reach, stage, base, latched, ready, term>>
         /\ MoveTypeOK'
         /\ \A d \in Ctls, m \in Nodes :
              m \in waiting'[d] <=> m \in waiting[d] /\ ~(d = c /\ m = n)
         /\ \A d \in Ctls, m \in Nodes :
              row'[d][m] = IF d = c /\ m = n THEN r ELSE row[d][m]
<1>1. /\ UNCHANGED <<pairFiles, lock, journal, reach, stage, base, latched, ready, term>>
      /\ row' = [row EXCEPT ![c][n] = r]
      /\ waiting' = [waiting EXCEPT ![c] = @ \ {n}]
  BY DEF Answer
<1>2. row \in [Ctls -> [Nodes -> Rows]] /\ waiting \in [Ctls -> SUBSET Nodes]
  BY TypedParts DEF MoveTypeOK
<1>3. row' \in [Ctls -> [Nodes -> Rows]] /\ waiting' \in [Ctls -> SUBSET Nodes]
  BY <1>1, <1>2
<1>4. MoveTypeOK'
  BY <1>1, <1>3, TypedParts DEF MoveTypeOK, Held
<1> QED
  BY <1>1, <1>2, <1>4

\* An answer that leaves the nodes as they are: of a read, or an error row.
LEMMA ReadKeeps ==
  ASSUME PairInv, NEW c \in Ctls, NEW n \in Nodes, NEW r \in Rows, Answer(c, n, r),
         UNCHANGED nodeVars, errors' \in 0..MaxErrors,
         cause' \in Causes, cause' = cause \/ cause' # "none",
         r.ok => stage[c] \notin {"stop", "stopall"},
         stage[c] = "start" => cause' # "none" \/ op[n]["start"] = "idle"
  PROVE  PairInv'
<1>0. /\ UNCHANGED <<pairFiles, lock, journal, reach, stage, base, latched, ready, term>>
      /\ MoveTypeOK'
      /\ \A d \in Ctls, m \in Nodes :
           m \in waiting'[d] <=> m \in waiting[d] /\ ~(d = c /\ m = n)
      /\ \A d \in Ctls, m \in Nodes :
           row'[d][m] = IF d = c /\ m = n THEN r ELSE row[d][m]
  BY Answered
<1>1. RestTypeOK'
  BY <1>0, TypedParts DEF RestTypeOK
<1>2. NodeInv'
  BY InvStep, TypedParts
<1>3. TypeOK'
  <2>1. (TypeOK <=> NodeTypeOK /\ MoveTypeOK /\ RestTypeOK)'
    BY TypeParts, PTL
  <2> QED
    BY <1>0, <1>1, <1>2, <2>1 DEF NodeInv
<1>4. WatchInv'
  <2> SUFFICES ASSUME cause' = "none", cause = "none"
               PROVE  WatchInv'
    BY <1>1, BlamedKeeps DEF RestTypeOK
  <2>0. UNCHANGED <<box, op, cli, journal, stage>>
    BY <1>0 DEF nodeVars
  <2>1. AbandonedOnlyByCause' /\ (journal' = "broken" => Blamed')
    BY <2>0, TypedParts DEF WatchInv, AbandonedOnlyByCause, NeverAbandoned, Watched, Blamed
  <2>2. ASSUME NEW m \in Nodes
        PROVE  StartInv(m)'
    <3>1. StartInv(m)
      BY TypedParts DEF WatchInv
    <3>2. ASSUME op'[m]["start"] # "idle"
          PROVE  \E d \in Ctls : stage'[d] = "start" /\ m \in waiting'[d]
      <4>1. PICK d \in Ctls : stage[d] = "start" /\ m \in waiting[d]
        BY <2>0, <3>1, <3>2 DEF StartInv, Blamed
      <4>2. ~(d = c /\ m = n)
        BY <2>0, <3>2, <4>1
      <4> QED
        BY <1>0, <4>1, <4>2
    <3> QED
      BY <2>0, <3>1, <3>2 DEF StartInv, Blamed
  <2>3. ASSUME NEW m \in Nodes
        PROVE  StopInv(m)'
    BY <2>0, TypedParts DEF WatchInv, StopInv, Blamed
  <2>4. ASSUME NEW d \in Ctls, NEW m \in Nodes
        PROVE  RowInv(d, m)'
    BY <1>0, <2>0, TypedParts DEF WatchInv, RowInv, Blamed
  <2> QED
    BY <2>1, <2>2, <2>3, <2>4 DEF WatchInv
<1> QED
  BY <1>0, <1>2, <1>3, <1>4 DEF PairInv, nodeVars

LEMMA RowsTyped ==
  ASSUME PairInv, NEW n \in Nodes, NEW v \in BOOLEAN
  PROVE  /\ [NoRow EXCEPT !.ok = v] \in Rows
         /\ [NoRow EXCEPT !.ok = v].ok = v
         /\ ~NoRow.ok
         /\ [ok |-> TRUE, up |-> box[n] \in Up, well |-> box[n] = "running",
             boot |-> boot[n], ram |-> ram[n]] \in Rows
<1>1. boot[n] \in 0..MaxBoot /\ ram[n] \in {"ok", "low"}
  BY TypedParts DEF PairInv, NodeTypeOK
<1>2. \A u, w \in BOOLEAN : [ok |-> TRUE, up |-> u, well |-> w, boot |-> boot[n], ram |-> ram[n]] \in Rows
  BY <1>1 DEF Rows
<1>3. [ok |-> TRUE, up |-> box[n] \in Up, well |-> box[n] = "running",
       boot |-> boot[n], ram |-> ram[n]] \in Rows
  <2>1. (box[n] \in Up) \in BOOLEAN /\ (box[n] = "running") \in BOOLEAN
    OBVIOUS
  <2> QED
    BY <1>2, <2>1, Zenon
<1>4. ~NoRow.ok
  BY DEF NoRow
<1>5. NoRow \in Rows
  BY NoRowTyped
<1>6. ASSUME NEW q \in Rows
      PROVE  [q EXCEPT !.ok = v] \in Rows
  BY DEF Rows
<1>7. ASSUME NEW q \in Rows
      PROVE  [q EXCEPT !.ok = v].ok = v
  BY DEF Rows
<1> QED
  BY <1>3, <1>4, <1>5, <1>6, <1>7

LEMMA ReadsKeep ==
  ASSUME PairInv, NEW c \in Ctls, NEW n \in Nodes,
         CallFails(c, n) \/ Inspected(c, n) \/ Mapped(c, n) \/ ReadFails(c, n)
  PROVE  PairInv'
<1>0. RestTypeOK /\ MaxErrors \in Nat
  BY TypedParts, PairAssumption
<1>1. CASE CallFails(c, n)
  <2>1. errors' \in 0..MaxErrors
    <3>1. OneMoreError \/ errors' = errors
      BY <1>1 DEF CallFails
    <3>2. errors \in 0..MaxErrors
      BY <1>0 DEF RestTypeOK
    <3> QED
      BY <1>0, <3>1, <3>2 DEF OneMoreError
  <2>2. /\ cause' \in Causes
        /\ cause' = cause \/ cause' # "none"
        /\ stage[c] = "start" => cause' # "none" \/ op[n]["start"] = "idle"
    BY <1>0, <1>1 DEF CallFails, Happened, RestTypeOK, Causes
  <2> QED
    BY <1>1, <2>1, <2>2, NoRowTyped, ReadKeeps DEF CallFails, NoRow
<1>2. CASE Inspected(c, n)
  <2> DEFINE r == [ok |-> TRUE, up |-> box[n] \in Up, well |-> box[n] = "running",
                   boot |-> boot[n], ram |-> ram[n]]
  <2>1. PICK q \in Rows : q = r
    BY RowsTyped
  <2>2. Answer(c, n, q) /\ stage[c] = "inspect" /\ UNCHANGED <<nodeVars, errors, cause>>
    BY <1>2, <2>1 DEF Inspected, Answer
  <2> QED
    BY <1>0, <2>2, ReadKeeps DEF RestTypeOK
<1>3. CASE Mapped(c, n)
  <2>1. PICK q \in Rows : q = [NoRow EXCEPT !.ok = box[n] = "running"]
    BY RowsTyped
  <2>2. Answer(c, n, q) /\ stage[c] = "aot" /\ UNCHANGED <<nodeVars, errors, cause>>
    BY <1>3, <2>1 DEF Mapped, Answer
  <2> QED
    BY <1>0, <2>2, ReadKeeps DEF RestTypeOK
<1>4. CASE ReadFails(c, n)
  BY <1>0, <1>4, NoRowTyped, ReadKeeps DEF ReadFails, NoRow, RestTypeOK
<1> QED
  BY <1>1, <1>2, <1>3, <1>4

LEMMA ReplyKeeps ==
  ASSUME PairInv, NEW c \in Ctls, NEW n \in Nodes, Reply(c, n)
  PROVE  PairInv'
<1> DEFINE k == Asked(c)
<1>0. /\ k \in Kinds /\ Calls = Kinds
      /\ k = "start" <=> stage[c] = "start"
      /\ k = "stop" <=> stage[c] \in {"stop", "stopall"}
  BY PairAssumption DEF Reply, Asked, Kinds
<1>1. /\ op[n][k] \in Replies /\ n \in waiting[c]
      /\ op' = [op EXCEPT ![n][k] = "idle"]
      /\ UNCHANGED <<files, box, boot, ram, cli, starts, errors, cause>>
  BY DEF Reply, Goto
<1>2. PICK r \in Rows : r = [NoRow EXCEPT !.ok = op[n][k] = "ok"] /\ r.ok = (op[n][k] = "ok")
  <2>1. (op[n][k] = "ok") \in BOOLEAN
    OBVIOUS
  <2> QED
    BY <2>1, RowsTyped, Zenon
<1>3. Answer(c, n, r)
  BY <1>2 DEF Reply, Answer
<1>4. /\ UNCHANGED <<pairFiles, lock, journal, reach, stage, base, latched, ready, term>>
      /\ MoveTypeOK'
      /\ \A d \in Ctls, m \in Nodes :
           m \in waiting'[d] <=> m \in waiting[d] /\ ~(d = c /\ m = n)
      /\ \A d \in Ctls, m \in Nodes :
           row'[d][m] = IF d = c /\ m = n THEN r ELSE row[d][m]
  BY <1>3, Answered
<1>5. NodeInv'
  <2>1. Return(n, k)
    BY <1>1 DEF Return, Goto
  <2> QED
    BY <1>0, <2>1, InvStep, TypedParts DEF NodeNext
<1>6. \A m \in Nodes, j \in Kinds :
        op'[m][j] = IF m = n /\ j = k THEN "idle" ELSE op[m][j]
  <2>1. op \in [Nodes -> [Kinds -> Steps]]
    BY <1>0, TypedParts DEF NodeTypeOK
  <2> HIDE DEF k, Kinds, Steps
  <2> QED
    BY <1>0, <1>1, <2>1
<1>7. \A m \in Nodes :
        /\ op'[m]["start"] = IF m = n /\ k = "start" THEN "idle" ELSE op[m]["start"]
        /\ op'[m]["stop"] = IF m = n /\ k = "stop" THEN "idle" ELSE op[m]["stop"]
  BY <1>6 DEF Kinds
<1> HIDE DEF k
<1>8. RestTypeOK'
  BY <1>1, <1>4, TypedParts DEF RestTypeOK
<1>9. TypeOK'
  <2>1. (TypeOK <=> NodeTypeOK /\ MoveTypeOK /\ RestTypeOK)'
    BY TypeParts, PTL
  <2> QED
    BY <1>4, <1>5, <1>8, <2>1 DEF NodeInv
<1>10. WatchInv'
  <2> SUFFICES ASSUME cause' = "none", cause = "none"
               PROVE  WatchInv'
    BY <1>1, <1>8, BlamedKeeps DEF RestTypeOK
  <2>1. AbandonedOnlyByCause' /\ (journal' = "broken" => Blamed')
    BY <1>1, <1>4, TypedParts DEF WatchInv, AbandonedOnlyByCause, NeverAbandoned, Watched, Blamed
  <2>2. ASSUME NEW m \in Nodes
        PROVE  StartInv(m)'
    <3>1. StartInv(m)
      BY TypedParts DEF WatchInv
    <3>2. ASSUME op'[m]["start"] # "idle"
          PROVE  \E d \in Ctls : stage'[d] = "start" /\ m \in waiting'[d]
      <4>1. PICK d \in Ctls : stage[d] = "start" /\ m \in waiting[d]
        BY <1>7, <3>1, <3>2 DEF StartInv, Blamed
      <4>2. ~(d = c /\ m = n)
        BY <1>0, <1>7, <3>2, <4>1
      <4> QED
        BY <1>4, <4>1, <4>2
    <3>3. ASSUME "start" \in cli'[m]
          PROVE  op'[m]["start"] = "issued"
      BY <1>1, <1>7, <3>1, <3>3 DEF StartInv, Blamed, Replies
    <3> QED
      BY <3>2, <3>3 DEF StartInv, Blamed
  <2>3. ASSUME NEW m \in Nodes
        PROVE  StopInv(m)'
    BY <1>1, <1>4, <1>7, TypedParts DEF WatchInv, StopInv, Blamed
  <2>4. ASSUME NEW d \in Ctls, NEW m \in Nodes
        PROVE  RowInv(d, m)'
    <3>1. RowInv(d, m) /\ StopInv(m)
      BY TypedParts DEF WatchInv
    <3>2. CASE d = c /\ m = n
      BY <1>0, <1>1, <1>2, <1>4, <1>7, <3>1, <3>2 DEF RowInv, StopInv, Blamed
    <3>3. CASE ~(d = c /\ m = n)
      BY <1>1, <1>4, <1>7, <3>1, <3>3 DEF RowInv, Blamed
    <3> QED
      BY <3>2, <3>3
  <2> QED
    BY <2>1, <2>2, <2>3, <2>4 DEF WatchInv
<1> QED
  BY <1>1, <1>4, <1>5, <1>9, <1>10 DEF PairInv

-----------------------------------------------------------------------------
(* What a step of a node can do to its starts, its stops and its worker.     *)
NodeEffect(m) ==
  /\ op'[m]["start"] # "idle" => op[m]["start"] # "idle"
  /\ op'[m]["stop"] # "idle" => op[m]["stop"] # "idle"
  /\ box'[m] \in Up => box[m] \in Up \/ "start" \in cli[m]
  /\ op'[m]["stop"] = "ok" => op[m]["stop"] = "ok" \/ box'[m] \notin Up
  /\ boot'[m] \in 0..MaxBoot

\* A docker start still to come is the one its process waits for.
StartHeld(m) == "start" \in cli[m] => op[m]["start"] = "issued"

LEMMA AgentEffect ==
  ASSUME PairInv, NEW n \in Nodes, NEW c \in Calls, AgentStep(n, c),
         NEW m \in Nodes
  PROVE  NodeEffect(m) /\ (StartHeld(m) => StartHeld(m)')
<1> USE PairAssumption DEF NodeEffect, StartHeld, At, Goto, Absent, Exclusive, Issue, Served, Acked,
        Fail, Up, Kinds, InFlight, Replies
<1>0. NodeTypeOK /\ boot[m] \in 0..MaxBoot
  BY TypedParts DEF PairInv
<1>1. /\ files \in [Nodes -> SUBSET RunFiles] /\ box \in [Nodes -> BoxStates] /\ boot \in [Nodes -> Nat]
      /\ op \in [Nodes -> [Kinds -> Steps]] /\ cli \in [Nodes -> SUBSET Commanding] /\ Kind[c] = c /\ MaxBoot \in Nat
  BY <1>0, BootAssumption DEF NodeTypeOK
<1>2. CASE CreateAdmit(n, c)
  BY <1>0, <1>1, <1>2 DEF CreateAdmit
<1>3. CASE CreateRequest(n, c)
  BY <1>0, <1>1, <1>3 DEF CreateRequest
<1>4. CASE CreateAttempt(n, c)
  BY <1>0, <1>1, <1>4 DEF CreateAttempt
<1>5. CASE CreateRecord(n, c)
  BY <1>0, <1>1, <1>5 DEF CreateRecord
<1>6. CASE RecoverKnown(n, c)
  BY <1>0, <1>1, <1>6 DEF RecoverKnown
<1>7. CASE RecoverFind(n, c)
  BY <1>0, <1>1, <1>7 DEF RecoverFind
<1>8. CASE RecoverRecord(n, c)
  BY <1>0, <1>1, <1>8 DEF RecoverRecord
<1>9. CASE StartCheck(n, c)
  BY <1>0, <1>1, <1>9 DEF StartCheck
<1>10. CASE StartCommit(n, c)
  BY <1>0, <1>1, <1>10 DEF StartCommit
<1>11. CASE StartReply(n, c)
  BY <1>0, <1>1, <1>11 DEF StartReply
<1>12. CASE StopInspect(n, c)
  BY <1>0, <1>1, <1>12 DEF StopInspect
<1>13. CASE StopConfirm(n, c)
  BY <1>0, <1>1, <1>13 DEF StopConfirm
<1> QED
  BY <1>2, <1>3, <1>4, <1>5, <1>6, <1>7, <1>8, <1>9, <1>10, <1>11, <1>12, <1>13 DEF AgentStep

LEMMA DockerEffect ==
  ASSUME PairInv, NEW n \in Nodes, NEW c \in Calls,
         DockerCreates(n, c) \/ DockerStarts(n, c) \/ DockerStops(n, c) \/ DockerRefuses(n, c),
         NEW m \in Nodes
  PROVE  NodeEffect(m) /\ (StartHeld(m) => StartHeld(m)')
<1> USE PairAssumption DEF NodeEffect, StartHeld, At, Goto, Absent, Exclusive, Issue, Served, Acked,
        Fail, Up, Kinds, InFlight, Replies
<1>0. NodeTypeOK /\ boot[m] \in 0..MaxBoot
  BY TypedParts DEF PairInv
<1>1. /\ files \in [Nodes -> SUBSET RunFiles] /\ box \in [Nodes -> BoxStates] /\ boot \in [Nodes -> Nat]
      /\ op \in [Nodes -> [Kinds -> Steps]] /\ cli \in [Nodes -> SUBSET Commanding] /\ Kind[c] = c /\ MaxBoot \in Nat
  BY <1>0, BootAssumption DEF NodeTypeOK
<1>2. CASE DockerCreates(n, c)
  BY <1>0, <1>1, <1>2 DEF DockerCreates
<1>3. CASE DockerStarts(n, c)
  BY <1>0, <1>1, <1>3 DEF DockerStarts
<1>4. CASE DockerStops(n, c)
  BY <1>0, <1>1, <1>4 DEF DockerStops
<1>5. CASE DockerRefuses(n, c)
  BY <1>0, <1>1, <1>5 DEF DockerRefuses
<1> QED
  BY <1>2, <1>3, <1>4, <1>5

\* A step that must raise is one that can.
LEMMA RefusesFails ==
  ASSUME NEW n \in Nodes, NEW c \in Calls, Refuses(n, c)
  PROVE  AgentFails(n, c)
BY DEF Refuses, AgentFails, At, InFlight, Steps, Replies

\* A process that gives up: a start it may still have is one to blame.
LEMMA FailEffect ==
  ASSUME PairInv, NEW n \in Nodes, NEW c \in Calls,
         AgentFails(n, c) \/ CommandTimeout(n, c) \/ AgentKilled(n, c),
         NEW m \in Nodes
  PROVE  /\ NodeEffect(m)
         /\ StartHeld(m) => StartHeld(m)' \/ (At(n, c, "start", "issued") /\ ~AgentFails(n, c))
<1> USE PairAssumption DEF NodeEffect, StartHeld, At, Goto, Fail, Kinds, InFlight, Replies
<1>0. NodeTypeOK /\ boot[m] \in 0..MaxBoot
  BY TypedParts DEF PairInv
<1>1. op \in [Nodes -> [Kinds -> Steps]] /\ Kind[c] = c
  BY <1>0 DEF NodeTypeOK
<1>2. CASE AgentFails(n, c)
  BY <1>0, <1>1, <1>2 DEF AgentFails
<1>3. CASE CommandTimeout(n, c)
  BY <1>0, <1>1, <1>3 DEF CommandTimeout, AgentFails
<1>4. CASE AgentKilled(n, c)
  BY <1>0, <1>1, <1>4 DEF AgentKilled, AgentFails, Steps
<1> QED
  BY <1>2, <1>3, <1>4

LEMMA HostEffect ==
  ASSUME PairInv, NEW n \in Nodes, HostStep(n), NEW m \in Nodes
  PROVE  NodeEffect(m) /\ (StartHeld(m) => StartHeld(m)')
<1>0. NodeTypeOK /\ boot[m] \in 0..MaxBoot /\ MaxBoot \in Nat
  BY TypedParts, BootAssumption DEF PairInv
<1>1. /\ box \in [Nodes -> BoxStates] /\ boot \in [Nodes -> Nat]
      /\ UNCHANGED <<op, cli>>
  BY <1>0 DEF NodeTypeOK, HostStep, WorkerExits, WorkerSickens, ForeignRestart, RamDrops,
     RamRecovers
<1> USE DEF NodeEffect, StartHeld, Up
<1>2. CASE WorkerExits(n)
  BY <1>0, <1>1, <1>2 DEF WorkerExits
<1>3. CASE WorkerSickens(n)
  BY <1>0, <1>1, <1>3 DEF WorkerSickens
<1>4. CASE ForeignRestart(n)
  BY <1>0, <1>1, <1>4 DEF ForeignRestart
<1>5. CASE RamDrops(n) \/ RamRecovers(n)
  BY <1>0, <1>1, <1>5 DEF RamDrops, RamRecovers
<1> QED
  BY <1>2, <1>3, <1>4, <1>5 DEF HostStep

\* Such a step under the controllers keeps the invariant: it starts no worker
\* but one whose start a controller waits for.
LEMMA EffectKeeps ==
  ASSUME PairInv, NodeInv', UNCHANGED <<lock, journal, stage, waiting, row, latched>>,
         RestTypeOK', cause' = cause \/ cause' # "none",
         \A m \in Nodes : NodeEffect(m) /\ (StartHeld(m) => StartHeld(m)' \/ cause' # "none")
  PROVE  PairInv'
<1>1. MoveTypeOK'
  BY TypedParts DEF MoveTypeOK, Held
<1>2. TypeOK'
  <2>1. (TypeOK <=> NodeTypeOK /\ MoveTypeOK /\ RestTypeOK)'
    BY TypeParts, PTL
  <2> QED
    BY <1>1, <2>1 DEF NodeInv
<1>3. WatchInv'
  <2> SUFFICES ASSUME cause' = "none", cause = "none"
               PROVE  WatchInv'
    BY BlamedKeeps DEF RestTypeOK
  <2>0. \A m \in Nodes : StartInv(m) /\ StopInv(m) /\ StartHeld(m)
    BY TypedParts DEF WatchInv, StartInv, StartHeld, Blamed
  \* A worker that comes up has a controller at its start.
  <2>1. ASSUME NEW m \in Nodes, box'[m] \in Up, box[m] \notin Up
        PROVE  \E d \in Ctls : stage[d] = "start"
    BY <2>0, <2>1 DEF NodeEffect, StartInv, StartHeld, Blamed
  <2>2. AbandonedOnlyByCause'
    BY <2>1, TypedParts
       DEF WatchInv, AbandonedOnlyByCause, NeverAbandoned, Watched, Guarded
  <2>3. ASSUME NEW m \in Nodes
        PROVE  StartInv(m)'
    BY <2>0 DEF NodeEffect, StartInv, StartHeld, Blamed
  <2>4. ASSUME NEW m \in Nodes
        PROVE  StopInv(m)'
    <3>1. op'[m]["stop"] # "idle" => \E c \in Ctls : stage'[c] \in Stopping
      BY <2>0 DEF NodeEffect, StopInv, Blamed
    <3>2. ASSUME op'[m]["stop"] = "ok", box'[m] \in Up
          PROVE  FALSE
      <4>1. op[m]["stop"] = "ok" /\ box[m] \notin Up
        BY <2>0, <3>2 DEF NodeEffect, StopInv, Blamed
      <4>2. PICK d \in Ctls : stage[d] = "start"
        BY <2>1, <3>2, <4>1
      <4>3. PICK e \in Ctls : stage[e] \in Stopping
        BY <2>0, <4>1 DEF StopInv, Blamed
      <4> QED
        BY <4>2, <4>3, OneGuards, TypedParts DEF Guarded, Stopping
    <3> QED
      BY <3>1, <3>2 DEF StopInv
  <2>5. ASSUME NEW c \in Ctls, NEW m \in Nodes, stage[c] \in {"stop", "stopall"}, row[c][m].ok
        PROVE  box'[m] \notin Up /\ op'[m]["stop"] = "idle"
    <3>1. box[m] \notin Up /\ op[m]["stop"] = "idle"
      BY <2>5, TypedParts DEF WatchInv, RowInv, Blamed
    <3>2. box'[m] \notin Up
      <4> SUFFICES ASSUME box'[m] \in Up
                   PROVE  FALSE
        OBVIOUS
      <4>1. PICK d \in Ctls : stage[d] = "start"
        BY <2>1, <3>1
      <4> QED
        BY <2>5, <4>1, OneGuards, TypedParts DEF Guarded
    <3> QED
      BY <3>1, <3>2 DEF NodeEffect
  <2>6. \A c \in Ctls, m \in Nodes : RowInv(c, m)'
    BY <2>5 DEF RowInv
  <2>7. journal' = "broken" => Blamed'
    BY TypedParts DEF WatchInv, Blamed
  <2> QED
    BY <2>2, <2>3, <2>4, <2>6, <2>7 DEF WatchInv
<1> QED
  BY <1>2, <1>3 DEF PairInv, NodeEffect

LEMMA NodeActsKeep ==
  ASSUME PairInv, NEW n \in Nodes, NodeActs(n)
  PROVE  PairInv'
<1>1. UNCHANGED ctlVars
  BY DEF NodeActs
<1>2. RestTypeOK'
  BY <1>1, TypedParts DEF ctlVars, RestTypeOK
<1>3. \/ HostStep(n)
      \/ \E c \in Calls : AgentStep(n, c) \/ AgentFails(n, c)
      \/ \E c \in Calls : DockerCreates(n, c) \/ DockerStarts(n, c) \/ DockerStops(n, c)
  BY RefusesFails DEF NodeActs, HostStep
<1>4. NodeInv'
  BY <1>3, InvStep, TypedParts DEF NodeNext, DockerStep
<1>5. \A m \in Nodes : NodeEffect(m) /\ (StartHeld(m) => StartHeld(m)')
  BY <1>3, HostEffect, AgentEffect, DockerEffect, FailEffect
<1> QED
  BY <1>1, <1>2, <1>4, <1>5, EffectKeeps DEF ctlVars

LEMMA NodeErrsKeep ==
  ASSUME PairInv, NEW n \in Nodes, NodeErrs(n)
  PROVE  PairInv'
<1>1. /\ OneMoreError
      /\ UNCHANGED <<pairFiles, lock, journal, reach, stage, waiting, row, base, latched,
                     ready, term>>
  BY DEF NodeErrs
<1>2. PICK c \in Calls :
        \/ (AgentFails(n, c) \/ DockerRefuses(n, c)) /\ UNCHANGED cause
        \/ /\ CommandTimeout(n, c) \/ AgentKilled(n, c)
           /\ IF At(n, c, "start", "issued") THEN Happened("lost start") ELSE UNCHANGED cause
  BY DEF NodeErrs
<1>3. errors' \in 0..MaxErrors
  <2>1. errors \in 0..MaxErrors /\ MaxErrors \in Nat
    BY TypedParts, PairAssumption DEF RestTypeOK
  <2> QED
    BY <1>1, <2>1 DEF OneMoreError
<1>4. cause' \in Causes /\ (cause' = cause \/ cause' # "none")
  <2>1. cause' = cause \/ Happened("lost start")
    BY <1>2
  <2> QED
    BY <2>1, HappenedTyped, TypedParts DEF RestTypeOK, Causes
<1>5. RestTypeOK'
  BY <1>1, <1>3, <1>4, TypedParts DEF RestTypeOK
<1>6. NodeInv'
  BY <1>2, InvStep, TypedParts DEF NodeNext, DockerStep
<1>7. ASSUME NEW m \in Nodes
      PROVE  NodeEffect(m) /\ (StartHeld(m) => StartHeld(m)' \/ cause' # "none")
  <2>1. CASE DockerRefuses(n, c) \/ AgentFails(n, c)
    BY <2>1, DockerEffect, FailEffect
  <2>2. CASE /\ CommandTimeout(n, c) \/ AgentKilled(n, c)
             /\ IF At(n, c, "start", "issued") THEN Happened("lost start") ELSE UNCHANGED cause
    <3>1. At(n, c, "start", "issued") => cause' # "none"
      BY <2>2, HappenedTyped, TypedParts DEF Causes
    <3> QED
      BY <2>2, <3>1, FailEffect
  <2> QED
    BY <1>2, <2>1, <2>2
<1> QED
  BY <1>1, <1>4, <1>5, <1>6, <1>7, EffectKeeps

\* A signal behind the handler, the journal and the network touch no node.
LEMMA RestMovesKeep ==
  ASSUME PairInv,
         \/ BreakJournal
         \/ \E n \in Nodes : Partition(n)
         \/ \E c \in Ctls : Sigterm(c) /\ stage[c] \in Guarded
  PROVE  PairInv'
<1>1. /\ UNCHANGED <<nodeVars, pairFiles, lock, stage, waiting, row, base, latched, ready, errors>>
      /\ journal' = journal \/ cause' # "none"
      /\ cause' \in Causes /\ (cause' = cause \/ cause' # "none")
      /\ journal' \in {"ok", "broken"}
  BY HappenedTyped, TypedParts DEF BreakJournal, Partition, Sigterm, watchVars, RestTypeOK, Causes
<1>2. reach' \in [Nodes -> Links] /\ term' \in [Ctls -> BOOLEAN]
  <2>1. CASE BreakJournal \/ \E n \in Nodes : Partition(n)
    BY <2>1, TypedParts DEF BreakJournal, Partition, RestTypeOK, Links
  <2>2. ASSUME NEW c \in Ctls, Sigterm(c), stage[c] \in Guarded
        PROVE  reach' \in [Nodes -> Links] /\ term' \in [Ctls -> BOOLEAN]
    BY <2>2, SetTypes, TypedParts DEF Sigterm, RestTypeOK
  <2> QED
    BY <2>1, <2>2
<1>3. RestTypeOK'
  BY <1>1, <1>2, TypedParts DEF RestTypeOK
<1>4. MoveTypeOK'
  BY <1>1, TypedParts DEF MoveTypeOK, Held
<1>5. NodeInv'
  BY <1>1, InvStep, TypedParts
<1>6. TypeOK'
  <2>1. (TypeOK <=> NodeTypeOK /\ MoveTypeOK /\ RestTypeOK)'
    BY TypeParts, PTL
  <2> QED
    BY <1>3, <1>4, <1>5, <2>1 DEF NodeInv
<1>7. WatchInv'
  <2> SUFFICES ASSUME cause' = "none", cause = "none", journal' = journal
               PROVE  WatchInv'
    BY <1>1, BlamedKeeps
  <2>1. UNCHANGED <<box, op, cli, stage, waiting, row>>
    BY <1>1 DEF nodeVars
  <2> QED
    BY <2>1, TypedParts DEF WatchInv, AbandonedOnlyByCause, NeverAbandoned, Watched, Blamed,
       StartInv, StopInv, RowInv
<1> QED
  BY <1>1, <1>5, <1>6, <1>7 DEF PairInv, nodeVars

-----------------------------------------------------------------------------
LEMMA PairStart == Init => PairInv
<1> SUFFICES ASSUME Init
             PROVE  PairInv
  OBVIOUS
<1>1. NodeInv
  BY InvInit DEF Init
<1>2. MoveTypeOK
  <2>1. [n \in Nodes |-> NoRow] \in [Nodes -> Rows]
    BY NoRowTyped
  <2> QED
    BY <2>1, PairAssumption DEF Init, MoveTypeOK, Held, Stages, Guarded
<1>3. RestTypeOK
  BY FS_EmptySet, PairAssumption DEF Init, RestTypeOK, PairFiles, Links, Causes
<1>4. WatchInv
  BY PairAssumption DEF Init, NodeInit, WatchInv, AbandonedOnlyByCause, NeverAbandoned, Up,
     StartInv, StopInv, RowInv, Kinds
<1>5. /\ \A n \in Nodes : boot[n] \in 0..MaxBoot
      /\ \A c \in Ctls : stage[c] # "aot"
  BY BootAssumption DEF Init, NodeInit
<1> QED
  BY <1>1, <1>2, <1>3, <1>4, <1>5, TypeParts DEF PairInv, NodeInv

LEMMA PairStep == PairInv /\ [Next]_vars => PairInv'
<1> SUFFICES ASSUME PairInv, [Next]_vars
             PROVE  PairInv'
  OBVIOUS
<1>1. CASE UNCHANGED vars
  <2>1. NodeInv'
    BY <1>1, InvStep, TypedParts DEF vars
  <2>2. MoveTypeOK' /\ RestTypeOK'
    BY <1>1, TypedParts DEF vars, ctlVars, MoveTypeOK, RestTypeOK, Held
  <2>3. TypeOK'
    <3>1. (TypeOK <=> NodeTypeOK /\ MoveTypeOK /\ RestTypeOK)'
      BY TypeParts, PTL
    <3> QED
      BY <2>1, <2>2, <3>1 DEF NodeInv
  <2>4. WatchInv'
    BY <1>1, TypedParts DEF vars, nodeVars, ctlVars, WatchInv, AbandonedOnlyByCause,
       NeverAbandoned, Watched, Blamed, StartInv, StopInv, RowInv
  <2> QED
    BY <1>1, <2>1, <2>3, <2>4 DEF vars, nodeVars, ctlVars, PairInv
<1>2. ASSUME NEW c \in Ctls, CtlStep(c)
      PROVE  PairInv'
  BY <1>2, EntersKeep, PreflightKeeps, AfterRecoverKeeps, LockKeeps, ObservesKeep, AfterStopKeeps,
     EndsKeep, QuietRoundKeeps, AfterAotKeeps, AsksKeep DEF CtlStep
<1>3. ASSUME NEW c \in Ctls, Execute(c) \/ WatchExisting(c) \/ WatchRaises(c) \/ Killed(c)
      PROVE  PairInv'
  BY <1>3, EntersKeep, AsksKeep, EndsKeep
<1>4. ASSUME NEW c \in Ctls, Sigterm(c) \/ SecondSigterm(c)
      PROVE  PairInv'
  BY <1>4, EndsKeep, RestMovesKeep, SecondSigtermKeeps
<1>5. ASSUME NEW c \in Ctls, NEW n \in Nodes, CtlHears(c, n)
      PROVE  PairInv'
  BY <1>5, ReplyKeeps, ReadsKeep DEF CtlHears
<1>6. ASSUME NEW n \in Nodes, NodeActs(n) \/ NodeErrs(n) \/ Partition(n)
      PROVE  PairInv'
  BY <1>6, NodeActsKeep, NodeErrsKeep, RestMovesKeep
<1>7. CASE BreakJournal
  BY <1>7, RestMovesKeep
<1> QED
  BY <1>1, <1>2, <1>3, <1>4, <1>5, <1>6, <1>7 DEF Next

(* PairInv holds of every behaviour, for any number of controllers and nodes *)
(* and with every fault of the model.                                        *)
THEOREM PairInvariant == Spec => []PairInv
<1> QED
  BY PairStart, PairStep, PTL DEF Spec

(* The state is well typed, and one controller at most guards the pair, from *)
(* the taking of watch.lock to its release.                                  *)
THEOREM PairTypes == Spec => []TypeOK
<1>1. PairInv => TypeOK
  BY DEF PairInv
<1> QED
  BY <1>1, PairInvariant, PTL

(* A worker that runs without a watching controller is the work of one of    *)
(* the named causes: no order of the controllers, their signals, failed      *)
(* calls, exceptions and the nodes is another.                               *)
THEOREM WorkersAreWatched == Spec => []AbandonedOnlyByCause
<1>1. PairInv => AbandonedOnlyByCause
  BY DEF PairInv, WatchInv
<1> QED
  BY <1>1, PairInvariant, PTL

(* A pending stop reason stays, and the pair is not declared ready.          *)
THEOREM AlarmsAreFinal == Spec => AlarmIsFinal
<1>1. PairInv /\ [Next]_vars =>
        [\A c \in Ctls : latched[c] => /\ latched'[c]
                                       /\ ready'[c] = ready[c]]_vars
  <2> SUFFICES ASSUME PairInv, Next, NEW d \in Ctls, latched[d]
               PROVE  latched'[d] /\ ready'[d] = ready[d]
    BY DEF vars
  <2>0. /\ latched \in [Ctls -> BOOLEAN] /\ ready \in [Ctls -> BOOLEAN]
        /\ stage[d] # "aot"
    BY TypedParts DEF PairInv, RestTypeOK
  <2>1. ASSUME NEW c \in Ctls, AfterAot(c)
        PROVE  latched'[d] /\ ready'[d] = ready[d]
    BY <2>0, <2>1 DEF AfterAot, Turn, Set
  <2>2. ASSUME NEW c \in Ctls, QuietRound(c)
        PROVE  latched'[d] /\ ready'[d] = ready[d]
    BY <2>0, <2>2 DEF QuietRound, Turn, Set
  <2>3. ASSUME NEW c \in Ctls, SafetyStop(c)
        PROVE  latched'[d] /\ ready'[d] = ready[d]
    BY <2>0, <2>3 DEF SafetyStop, Turn, Set
  <2>4. ASSUME NEW c \in Ctls, CtlStep(c)
        PROVE  latched'[d] /\ ready'[d] = ready[d]
    <3>1. \/ AfterAot(c) \/ QuietRound(c) \/ SafetyStop(c) \/ UNCHANGED <<latched, ready>>
      BY <2>4 DEF CtlStep, watchVars, Preflight, MakePair, PairExists, AfterCreate, AfterRecover,
         Publish, TakeLock, LockBusy, MarkStart, AfterStart, Wake, SkipRound, AfterStop,
         Interrupted, InterruptedAgain, AfterStopAll, RecordRaises
    <3> QED
      BY <2>1, <2>2, <2>3, <3>1
  <2>5. ASSUME NEW c \in Ctls,
               \/ Execute(c) \/ WatchExisting(c) \/ WatchRaises(c)
               \/ Sigterm(c) \/ SecondSigterm(c) \/ Killed(c)
        PROVE  UNCHANGED <<latched, ready>>
    BY <2>5 DEF Execute, WatchExisting, WatchRaises, Sigterm, SecondSigterm, Killed, watchVars
  <2>6. ASSUME NEW c \in Ctls, NEW n \in Nodes, CtlHears(c, n)
        PROVE  UNCHANGED <<latched, ready>>
    BY <2>6 DEF CtlHears, Reply, CallFails, Inspected, Mapped, ReadFails, Answer
  <2>7. ASSUME NEW n \in Nodes, NodeActs(n) \/ NodeErrs(n) \/ Partition(n)
        PROVE  UNCHANGED <<latched, ready>>
    BY <2>7 DEF NodeActs, NodeErrs, Partition, ctlVars, watchVars
  <2>8. BreakJournal => UNCHANGED <<latched, ready>>
    BY DEF BreakJournal, watchVars
  <2> QED
    BY <2>4, <2>5, <2>6, <2>7, <2>8 DEF Next
<1> QED
  BY <1>1, PairInvariant, PTL DEF Spec, AlarmIsFinal

(* Under the controllers, which may ask again what is still under way, the   *)
(* agents keep what they keep under arbitrary callers.                       *)
THEOREM PairKeepsNodes == Spec => [](StartOnce /\ CreatedIsReal /\ EvidenceBeforeEffect)
<1>1. PairInv => StartOnce /\ CreatedIsReal /\ EvidenceBeforeEffect
  BY DEF PairInv, NodeInv, OneStart, Evidence, StartOnce, CreatedIsReal, EvidenceBeforeEffect, Up
<1> QED
  BY <1>1, PairInvariant, PTL

-----------------------------------------------------------------------------
(* The pair of one executor lives the life of PairLife.                      *)

\* The run is launched once; any number of controllers may reattach to it.
OneExecutor == Executors = {Launched}

Fresh == {"off", "preflight", "mkdir"}
Staging == Fresh \cup {"create", "recover", "publish", "lock", "mark"}

\* What the executor has done by the stage it is at.
OnItsWay ==
  /\ stage[Launched] # "attach"
  /\ term[Launched] => stage[Launched] \in Guarded
  /\ stage[Launched] \in Fresh => "pair_dir" \notin pairFiles /\ "controller" \notin pairFiles
  /\ stage[Launched] \notin Fresh \cup Ended => "pair_dir" \in pairFiles

\* And what the node has by then: created.json before the lock is asked for,
\* no start attempt before the start.
NodeByThen(n) ==
  /\ "pair_dir" \notin pairFiles =>
       "created" \notin files[n] /\ op[n]["create"] = "idle" /\ op[n]["recover"] = "idle"
  /\ \A k \in {"create", "recover"} : op[n][k] = "ok" => "created" \in files[n]
  /\ stage[Launched] \in {"create", "recover"} /\ row[Launched][n].ok => "created" \in files[n]
  /\ stage[Launched] \in {"publish", "lock"} \cup Guarded => "created" \in files[n]
  /\ stage[Launched] \in Staging => "start-attempt" \notin files[n]

LaunchInv ==
  \/ Blamed
  \/ /\ \A c \in Ctls \ {Launched} : stage[c] \notin (Staging \ {"off"}) \cup {"start"}
     /\ OnItsWay
     /\ \A n \in Nodes : NodeByThen(n)

LEMMA LaunchedTyped ==
  ASSUME OneExecutor, PairInv
  PROVE  /\ Launched \in Ctls
         /\ stage \in [Ctls -> Stages] /\ waiting \in [Ctls -> SUBSET Nodes]
         /\ row \in [Ctls -> [Nodes -> Rows]] /\ term \in [Ctls -> BOOLEAN]
BY PairAssumption, TypedParts DEF OneExecutor, MoveTypeOK, RestTypeOK

\* The executor moves, the nodes stay.
LEMMA LaunchMoves ==
  ASSUME OneExecutor, PairInv, LaunchInv, NEW s \in Stages, NEW w \in SUBSET Nodes,
         Moves(Launched, s, w), UNCHANGED files, cause' = cause \/ cause' # "none",
         s # "attach", term'[Launched] => s \in Guarded,
         s \in Fresh => stage[Launched] \in Fresh /\ pairFiles' = pairFiles,
         s \notin Fresh \cup Ended => "pair_dir" \in pairFiles',
         \A n \in Nodes, k \in {"create", "recover"} :
           /\ op'[n][k] = "ok" => op[n][k] = "ok"
           /\ "pair_dir" \notin pairFiles' => "pair_dir" \notin pairFiles /\ op'[n][k] = op[n][k],
         s \in {"publish", "lock"} \cup Guarded => Blamed \/ \A n \in Nodes : "created" \in files[n],
         s \in Staging => stage[Launched] \in Staging
  PROVE  LaunchInv'
<1> SUFFICES ASSUME cause' = "none", cause = "none"
             PROVE  LaunchInv'
  BY DEF LaunchInv, Blamed
<1>0. Launched \in Ctls
  BY LaunchedTyped
<1>1. /\ stage'[Launched] = s
      /\ \A n \in Nodes : ~row'[Launched][n].ok
      /\ \A d \in Ctls \ {Launched} : stage'[d] = stage[d]
  BY <1>0, Moved, TypedParts DEF NoRow
<1>2. OnItsWay'
  BY <1>1 DEF LaunchInv, Blamed, OnItsWay
<1>3. ASSUME NEW n \in Nodes
      PROVE  NodeByThen(n)'
  BY <1>1 DEF LaunchInv, Blamed, NodeByThen
<1> QED
  BY <1>1, <1>2, <1>3 DEF LaunchInv, Blamed

\* One step of that life, or none, or the work of a cause.
Lives == Life!LifeNext \/ cause' # "none" \/ UNCHANGED Life!lifeVars

LEMMA BlamedLives == Blamed /\ cause' = cause => Lives
  BY DEF Lives, Blamed

LEMMA SameLife ==
  ASSUME UNCHANGED <<LifeCtl, LifeBox>>, term'[Launched] = term[Launched]
  PROVE  Lives
BY DEF Lives, Life!lifeVars

\* A move of the executor, but for the pair directory and the start, changes
\* what it is and not what its containers are.
LEMMA LifeMoves ==
  ASSUME OneExecutor, PairInv, NEW s \in Stages, NEW w \in SUBSET Nodes,
         Moves(Launched, s, w), UNCHANGED <<files, box>>,
         "pair_dir" \in pairFiles' <=> "pair_dir" \in pairFiles,
         stage[Launched] = "start" => waiting[Launched] = {}, s # "start"
  PROVE  LifeBox' = LifeBox /\ LifeCtl' = CtlLife(s)
<1>1. stage'[Launched] = s
  BY LaunchedTyped, Moved, TypedParts
<1>2. \A n \in Nodes : BoxLife(n)' = BoxLife(n)
  BY <1>1 DEF BoxLife
<1> QED
  BY <1>1, <1>2 DEF LifeBox, LifeCtl

\* No start is out once every reply is in, nor at any other stage.
LEMMA NotStarting ==
  ASSUME stage[Launched] = "start" => waiting[Launched] = {}
  PROVE  ~Life!Starting /\ \A n \in Nodes : LifeBox[n] = BoxLife(n)
BY DEF Life!Starting, LifeBox, BoxLife

\* Before the start every container that is recorded has yet to run.
LEMMA OnlyCreated ==
  ASSUME PairInv, LaunchInv, cause = "none", stage[Launched] \in {"lock", "mark"},
         NEW n \in Nodes
  PROVE  BoxLife(n) = "created"
<1>1. "created" \in files[n] /\ "start-attempt" \notin files[n]
  BY DEF LaunchInv, Blamed, NodeByThen, Staging, Guarded
<1>2. box[n] \notin Up \cup {"exited"}
  BY <1>1, TypedParts DEF NodeInv, Evidence
<1> QED
  BY <1>1, <1>2 DEF BoxLife

\* It leaves before the lock, or once both stops answered ok.
LEMMA LifeEnds ==
  ASSUME OneExecutor, PairInv, LaunchInv, NEW s \in Ended, Exit(Launched, s),
         UNCHANGED <<nodeVars, pairFiles>>, cause' = cause,
         \/ LifeCtl = "early"
         \/ stage[Launched] \in {"stop", "stopall"} /\ ~term[Launched] /\ AllOk(Launched)
  PROVE  Lives
<1> SUFFICES ASSUME cause = "none"
             PROVE  Life!Leaves
  BY DEF Lives, Life!LifeNext
<1>0. s \in Stages /\ CtlLife(s) = "gone" /\ s # "start"
  BY DEF Ended, Stages, CtlLife
<1>1. stage[Launched] # "start"
  BY DEF LifeCtl, CtlLife, Ended
<1>2. UNCHANGED <<files, box>>
  BY DEF nodeVars
<1>3. Moves(Launched, s, {}) /\ term' = [term EXCEPT ![Launched] = FALSE]
  BY LaunchedTyped, TypedParts, Forms DEF Set
<1>4. LifeBox' = LifeBox /\ LifeCtl' = "gone"
  BY <1>0, <1>1, <1>2, <1>3, LifeMoves
<1>5. term'[Launched] = FALSE
  BY <1>3, LaunchedTyped
<1>6. CASE stage[Launched] \in {"stop", "stopall"} /\ ~term[Launched] /\ AllOk(Launched)
  <2>1. \A n \in Nodes : box[n] \notin Up
    BY <1>6, LaunchedTyped, TypedParts DEF WatchInv, RowInv, Blamed, AllOk
  <2>2. ~Life!Running /\ ~Life!Starting
    BY <1>1, <2>1 DEF Life!Running, Life!Starting, LifeBox, BoxLife
  <2>3. LifeCtl \in {"late", "stopping"}
    BY <1>6 DEF LifeCtl, CtlLife, Ended
  <2> QED
    BY <1>4, <1>5, <1>6, <2>2, <2>3 DEF Life!Leaves
<1> QED
  BY <1>4, <1>5, <1>6 DEF Life!Leaves

\* The steps of the executor.  Where it goes on, for no new reason to fear.
LEMMA EnterLives ==
  ASSUME OneExecutor, PairInv, LaunchInv, NEW s \in Stages, Enter(Launched, s) \/
           (Observe(Launched) /\ s = "inspect"),
         UNCHANGED <<files, box, op, cause, term>>, s # "attach", s # "start",
         UNCHANGED pairFiles \/
           (pairFiles' = pairFiles \cup {"controller"} /\ stage[Launched] = "publish") \/
           (pairFiles' = pairFiles \cup {"health-ready"} /\ s \notin Fresh),
         term[Launched] => s \in Guarded,
         s \in Fresh => stage[Launched] \in Fresh,
         s \notin Fresh => stage[Launched] \notin Fresh \cup Ended,
         stage[Launched] = "start" => waiting[Launched] = {},
         s \in {"publish", "lock"} \cup Guarded =>
           \/ stage[Launched] \in {"publish", "lock"} \cup Guarded
           \/ stage[Launched] \in {"create", "recover"} /\ AllOk(Launched),
         s \in Staging => stage[Launched] \in Staging
  PROVE  /\ LaunchInv'
         /\ LifeBox' = LifeBox /\ LifeCtl' = CtlLife(s)
<1>0. PICK w \in SUBSET Nodes : Moves(Launched, s, w)
  <2>1. CASE Enter(Launched, s)
    <3>1. PICK w \in SUBSET Nodes : w = waiting[Launched]
      BY LaunchedTyped
    <3> QED
      BY <2>1, <3>1, LaunchedTyped DEF Enter, Moves, Blank, Set
  <2>2. CASE Observe(Launched) /\ s = "inspect"
    BY <2>2, LaunchedTyped DEF Observe, Moves
  <2> QED
    BY <2>1, <2>2
<1>1. "pair_dir" \in pairFiles' <=> "pair_dir" \in pairFiles
  OBVIOUS
<1>2. LifeBox' = LifeBox /\ LifeCtl' = CtlLife(s)
  BY <1>0, <1>1, LifeMoves
<1>3. s \in Fresh => pairFiles' = pairFiles
  BY DEF Fresh
<1>4. Blamed \/ (s \notin Fresh \cup Ended => "pair_dir" \in pairFiles')
  BY <1>1 DEF LaunchInv, OnItsWay
<1>5. s \in {"publish", "lock"} \cup Guarded => Blamed \/ \A n \in Nodes : "created" \in files[n]
  BY DEF LaunchInv, NodeByThen, AllOk
<1>6. CASE Blamed
  BY <1>2, <1>6 DEF LaunchInv, Blamed
<1>7. CASE ~Blamed
  <2>1. LaunchInv'
    BY <1>0, <1>1, <1>3, <1>4, <1>5, <1>7, LaunchMoves
  <2> QED
    BY <1>2, <2>1
<1> QED
  BY <1>6, <1>7

LEMMA ExitLaunched ==
  ASSUME OneExecutor, PairInv, LaunchInv, NEW s \in Ended, Exit(Launched, s),
         UNCHANGED <<nodeVars, pairFiles>>, cause' = cause \/ cause' # "none"
  PROVE  LaunchInv'
<1>1. s \in Stages /\ s # "attach" /\ s \notin Fresh /\ s \notin Staging
      /\ s \notin {"publish", "lock"} \cup Guarded
  BY DEF Ended, Stages, Fresh, Staging, Guarded
<1>2. Moves(Launched, s, {}) /\ term' = [term EXCEPT ![Launched] = FALSE]
  BY LaunchedTyped, TypedParts, Forms DEF Set
<1>3. ~term'[Launched] /\ UNCHANGED <<files, op>>
  BY <1>2, LaunchedTyped DEF nodeVars
<1> QED
  BY <1>1, <1>2, <1>3, LaunchMoves

LEMMA AskLaunched ==
  ASSUME OneExecutor, PairInv, LaunchInv, NEW call \in Kinds, NEW s \in Stages \ (Fresh \cup Ended),
         Ask(Launched, call, s), cause' = cause, s # "attach",
         term'[Launched] => s \in Guarded,
         \/ pairFiles' = pairFiles \cup {"pair_dir"}
         \/ /\ pairFiles' = pairFiles \/ pairFiles' = pairFiles \cup {"start-attempt"}
            /\ stage[Launched] \notin Fresh \cup Ended,
         s \in {"publish", "lock"} \cup Guarded => stage[Launched] \in Guarded,
         s \in Staging => stage[Launched] \in Staging
  PROVE  LaunchInv'
<1>1. /\ Moves(Launched, s, Nodes) /\ UNCHANGED files
      /\ \A n \in Nodes : op'[n][call] \in {"called", op[n][call]}
      /\ \A n \in Nodes, k \in Kinds \ {call} : op'[n][k] = op[n][k]
  BY LaunchedTyped, AskMoves
<1>2. CASE Blamed
  BY <1>2 DEF LaunchInv, Blamed
<1>3. CASE ~Blamed
  <2>1. "pair_dir" \in pairFiles'
    BY <1>3 DEF LaunchInv, OnItsWay
  <2>2. ASSUME NEW n \in Nodes, NEW k \in {"create", "recover"}
        PROVE  op'[n][k] = "ok" => op[n][k] = "ok"
    BY <1>1 DEF Kinds
  <2>3. s \in {"publish", "lock"} \cup Guarded => \A n \in Nodes : "created" \in files[n]
    BY <1>3 DEF LaunchInv, NodeByThen
  <2> QED
    BY <1>1, <2>1, <2>2, <2>3, LaunchMoves
<1> QED
  BY <1>2, <1>3

LEMMA AskLife ==
  ASSUME OneExecutor, PairInv, NEW call \in Kinds, NEW s \in Stages, Ask(Launched, call, s),
         s # "start", pairFiles' = pairFiles,
         stage[Launched] = "start" => waiting[Launched] = {}
  PROVE  LifeBox' = LifeBox /\ LifeCtl' = CtlLife(s)
BY LaunchedTyped, AskMoves, LifeMoves

LEMMA MakePairLives ==
  ASSUME OneExecutor, PairInv, LaunchInv, MakePair(Launched)
  PROVE  LaunchInv' /\ Lives
<1>0. "create" \in Kinds /\ "create" \in Stages \ (Fresh \cup Ended)
      /\ "create" \notin {"publish", "lock"} \cup Guarded /\ "create" \in Staging
  BY DEF Kinds, Stages, Fresh, Ended, Guarded, Staging
<1>1. /\ Ask(Launched, "create", "create") /\ cause' = cause /\ term' = term
      /\ stage[Launched] = "mkdir" /\ ~term[Launched]
      /\ "pair_dir" \notin pairFiles /\ pairFiles' = pairFiles \cup {"pair_dir"}
  BY DEF MakePair, Turn
<1>2. "mkdir" \in Staging
  BY DEF Staging, Fresh
<1>3. LaunchInv'
  BY <1>0, <1>1, <1>2, AskLaunched
<1>4. CASE Blamed
  BY <1>1, <1>3, <1>4, BlamedLives
<1>5. CASE ~Blamed
  <2>1. Moves(Launched, "create", Nodes) /\ UNCHANGED files
    BY <1>0, <1>1, LaunchedTyped, AskMoves
  <2>2. stage'[Launched] = "create"
    BY <1>0, <2>1, LaunchedTyped, Moved, TypedParts
  <2>3. \A n \in Nodes : "created" \notin files[n]
    BY <1>1, <1>5 DEF LaunchInv, NodeByThen
  <2>4. \A n \in Nodes : BoxLife(n) = "none" /\ BoxLife(n)' = "asked"
    BY <1>1, <2>1, <2>3 DEF BoxLife
  <2>5. \A n \in Nodes : LifeBox[n] = "none"
    BY <2>4 DEF LifeBox
  <2>6. LifeBox' = [n \in Nodes |-> "asked"]
    BY <2>4 DEF LifeBox
  <2>7. LifeCtl = "early" /\ LifeCtl' = "early"
    BY <1>1, <2>2 DEF LifeCtl, CtlLife, Ended
  <2>8. Life!Asks
    BY <1>1, <2>5, <2>6, <2>7 DEF Life!Asks
  <2> QED
    BY <1>3, <2>8 DEF Lives, Life!LifeNext
<1> QED
  BY <1>3, <1>4, <1>5

\* Up to the lock.
LEMMA StagingLives ==
  ASSUME OneExecutor, PairInv, LaunchInv,
         \/ Preflight(Launched) \/ PairExists(Launched) \/ AfterCreate(Launched)
         \/ AfterRecover(Launched) \/ Publish(Launched) \/ LockBusy(Launched)
  PROVE  LaunchInv' /\ Lives
<1> USE DEF Turn, Stages, Fresh, Ended, Guarded, Staging
<1>1. CASE Preflight(Launched)
  <2>1. CASE Enter(Launched, "mkdir") /\ UNCHANGED <<lock, term>>
    <3>1. LaunchInv' /\ LifeBox' = LifeBox /\ LifeCtl' = CtlLife("mkdir")
      BY <1>1, <2>1, EnterLives DEF Preflight, nodeVars
    <3>2. LifeCtl' = LifeCtl /\ term'[Launched] = term[Launched]
      BY <1>1, <2>1, <3>1 DEF Preflight, LifeCtl, CtlLife
    <3> QED
      BY <3>1, <3>2, SameLife
  <2>2. CASE Exit(Launched, "failed")
    BY <1>1, <2>2, ExitLaunched, LifeEnds DEF Preflight, LifeCtl, CtlLife
  <2> QED
    BY <1>1, <2>1, <2>2 DEF Preflight
<1>2. CASE PairExists(Launched) \/ LockBusy(Launched)
  <2>1. Exit(Launched, "failed") /\ UNCHANGED <<nodeVars, pairFiles, cause>>
    BY <1>2 DEF PairExists, LockBusy
  <2>2. CASE LifeCtl = "early"
    BY <2>1, <2>2, ExitLaunched, LifeEnds
  <2>3. CASE LifeCtl # "early"
    <3>1. stage[Launched] = "attach"
      BY <1>2, <2>3 DEF PairExists, LockBusy, AtLock, LifeCtl, CtlLife
    <3>2. Blamed
      BY <3>1 DEF LaunchInv, OnItsWay
    <3> QED
      BY <2>1, <3>2, ExitLaunched DEF Lives, Blamed
  <2> QED
    BY <2>2, <2>3
<1>3. CASE AfterCreate(Launched)
  <2>0. UNCHANGED <<pairFiles, cause, term>> /\ stage[Launched] = "create" /\ ~term[Launched]
    BY <1>3 DEF AfterCreate
  <2>1. CASE AllOk(Launched)
    <3>1. LaunchInv' /\ LifeBox' = LifeBox /\ LifeCtl' = CtlLife("publish")
      BY <1>3, <2>0, <2>1, EnterLives DEF AfterCreate, nodeVars
    <3>2. LifeCtl' = LifeCtl
      BY <2>0, <3>1 DEF LifeCtl, CtlLife
    <3> QED
      BY <2>0, <3>1, <3>2, SameLife
  <2>2. CASE ~AllOk(Launched)
    <3>1. Ask(Launched, "recover", "recover") /\ "recover" \in Kinds
      BY <1>3, <2>2 DEF AfterCreate, Kinds
    <3>2. LaunchInv'
      BY <2>0, <3>1, AskLaunched
    <3>3. LifeBox' = LifeBox /\ LifeCtl' = CtlLife("recover")
      BY <2>0, <3>1, AskLife
    <3>4. LifeCtl' = LifeCtl
      BY <2>0, <3>3 DEF LifeCtl, CtlLife
    <3> QED
      BY <2>0, <3>2, <3>3, <3>4, SameLife
  <2> QED
    BY <2>1, <2>2
<1>4. CASE AfterRecover(Launched)
  <2>1. CASE AllOk(Launched)
    <3>1. LaunchInv' /\ LifeBox' = LifeBox /\ LifeCtl' = CtlLife("publish")
      BY <1>4, <2>1, EnterLives DEF AfterRecover, nodeVars
    <3>2. LifeCtl' = LifeCtl /\ term'[Launched] = term[Launched]
      BY <1>4, <2>1, <3>1 DEF AfterRecover, LifeCtl, CtlLife
    <3> QED
      BY <3>1, <3>2, SameLife
  <2>2. CASE ~AllOk(Launched)
    BY <1>4, <2>2, ExitLaunched, LifeEnds DEF AfterRecover, LifeCtl, CtlLife
  <2> QED
    BY <2>1, <2>2
<1>5. CASE Publish(Launched)
  <2>1. LaunchInv' /\ LifeBox' = LifeBox /\ LifeCtl' = CtlLife("lock")
    BY <1>5, EnterLives DEF Publish, nodeVars
  <2>2. LifeCtl' = LifeCtl /\ term'[Launched] = term[Launched]
    BY <1>5, <2>1 DEF Publish, LifeCtl, CtlLife
  <2> QED
    BY <2>1, <2>2, SameLife
<1> QED
  BY <1>1, <1>2, <1>3, <1>4, <1>5

\* The lock and the start.
LEMMA TakeLockLives ==
  ASSUME OneExecutor, PairInv, LaunchInv, TakeLock(Launched)
  PROVE  LaunchInv' /\ Lives
<1> USE DEF Turn, Stages, Fresh, Ended, Guarded, Staging
<1>1. /\ UNCHANGED <<files, box, op, cause, term, pairFiles>>
      /\ stage[Launched] \in {"lock", "attach"} /\ ~term[Launched]
      /\ IF stage[Launched] = "attach" THEN Observe(Launched) ELSE Enter(Launched, "mark")
  BY DEF TakeLock, AtLock, nodeVars
<1>2. CASE Blamed
  BY <1>1, <1>2, BlamedLives DEF LaunchInv, Blamed
<1>3. CASE ~Blamed
  <2>1. stage[Launched] = "lock" /\ Enter(Launched, "mark")
    BY <1>1, <1>3 DEF LaunchInv, OnItsWay
  <2>2. LaunchInv' /\ LifeBox' = LifeBox /\ LifeCtl' = CtlLife("mark")
    BY <1>1, <2>1, EnterLives
  <2>3. LifeCtl = "early" /\ LifeCtl' = "armed"
    BY <2>1, <2>2 DEF LifeCtl, CtlLife
  <2>4. \A n \in Nodes : LifeBox[n] = "created"
    BY <1>3, <2>1, OnlyCreated DEF Blamed, LifeBox
  <2>5. Life!Arms
    BY <1>1, <2>2, <2>3, <2>4 DEF Life!Arms
  <2> QED
    BY <2>2, <2>5 DEF Lives, Life!LifeNext
<1> QED
  BY <1>2, <1>3

LEMMA MarkStartLives ==
  ASSUME OneExecutor, PairInv, LaunchInv, MarkStart(Launched)
  PROVE  LaunchInv' /\ Lives
<1>0. "start" \in Kinds /\ "start" \in Stages \ (Fresh \cup Ended) /\ "start" \notin Staging
      /\ "start" \in Guarded /\ "mark" \in Guarded /\ "mark" \notin Fresh \cup Ended
  BY DEF Kinds, Stages, Fresh, Ended, Guarded, Staging
<1>1. /\ Ask(Launched, "start", "start") /\ cause' = cause /\ term' = term
      /\ stage[Launched] = "mark" /\ ~term[Launched]
      /\ pairFiles' = pairFiles \cup {"start-attempt"}
  BY DEF MarkStart, Turn
<1>2. LaunchInv'
  BY <1>0, <1>1, AskLaunched
<1>3. CASE Blamed
  BY <1>1, <1>2, <1>3, BlamedLives
<1>4. CASE ~Blamed
  <2>1. Moves(Launched, "start", Nodes) /\ UNCHANGED <<files, box>>
    BY <1>0, <1>1, LaunchedTyped, AskMoves
  <2>2. stage'[Launched] = "start" /\ waiting'[Launched] = Nodes
    BY <1>0, <2>1, LaunchedTyped, Moved, TypedParts
  <2>3. \A n \in Nodes : BoxLife(n) = "created"
    BY <1>1, <1>4, OnlyCreated DEF Blamed
  <2>4. \A n \in Nodes : BoxLife(n)' = "starting"
    BY <1>1, <2>1, <2>2, <2>3 DEF BoxLife
  <2>5. LifeBox' = [n \in Nodes |-> "starting"]
    BY <2>4 DEF LifeBox
  <2>6. LifeCtl = "armed" /\ LifeCtl' = "late"
    BY <1>1, <2>2 DEF LifeCtl, CtlLife, Ended
  <2>7. Life!Starts
    BY <1>1, <2>5, <2>6 DEF Life!Starts
  <2> QED
    BY <1>2, <2>7 DEF Lives, Life!LifeNext
<1> QED
  BY <1>2, <1>3, <1>4

\* The watch: from a late stage to a late stage.
LEMMA WatchLives ==
  ASSUME OneExecutor, PairInv, LaunchInv,
         \/ AfterStart(Launched) \/ Wake(Launched) \/ SkipRound(Launched)
         \/ QuietRound(Launched) \/ AfterAot(Launched)
  PROVE  LaunchInv' /\ Lives
<1> USE DEF Turn
<1>1. /\ UNCHANGED <<files, box, op, cause, term>>
      /\ stage[Launched] \in {"start", "sleep", "inspect", "aot"} /\ waiting[Launched] = {}
      /\ pairFiles' = pairFiles \/ pairFiles' = pairFiles \cup {"health-ready"}
  BY DEF AfterStart, Wake, SkipRound, QuietRound, AfterAot, nodeVars
<1>2. \/ Enter(Launched, "sleep") \/ Observe(Launched)
      \/ /\ Set(stage, Launched, "aot") /\ Set(waiting, Launched, Nodes) /\ Blank(Launched)
         /\ pairFiles' = pairFiles
  BY DEF AfterStart, Wake, SkipRound, QuietRound, AfterAot
<1> USE DEF Stages, Fresh, Ended, Guarded, Staging
<1>3. CASE Enter(Launched, "sleep")
  <2>1. LaunchInv' /\ LifeBox' = LifeBox /\ LifeCtl' = CtlLife("sleep")
    BY <1>1, <1>3, EnterLives
  <2>2. LifeCtl' = LifeCtl /\ term'[Launched] = term[Launched]
    BY <1>1, <2>1 DEF LifeCtl, CtlLife
  <2> QED
    BY <2>1, <2>2, SameLife
<1>4. CASE Observe(Launched)
  <2>1. LaunchInv' /\ LifeBox' = LifeBox /\ LifeCtl' = CtlLife("inspect")
    BY <1>1, <1>4, EnterLives
  <2>2. LifeCtl' = LifeCtl /\ term'[Launched] = term[Launched]
    BY <1>1, <2>1 DEF LifeCtl, CtlLife
  <2> QED
    BY <2>1, <2>2, SameLife
<1>5. CASE /\ Set(stage, Launched, "aot") /\ Set(waiting, Launched, Nodes) /\ Blank(Launched)
           /\ pairFiles' = pairFiles
  <2>1. Moves(Launched, "aot", Nodes) /\ "aot" \in Stages
    BY <1>5 DEF Moves
  <2>2. LifeBox' = LifeBox /\ LifeCtl' = CtlLife("aot")
    BY <1>1, <1>5, <2>1, LifeMoves
  <2>3. LifeCtl' = LifeCtl
    BY <1>1, <2>2 DEF LifeCtl, CtlLife
  <2>4. CASE Blamed
    BY <1>1, <2>2, <2>3, <2>4, BlamedLives DEF LaunchInv, Blamed
  <2>5. CASE ~Blamed
    <3>1. /\ "pair_dir" \in pairFiles
          /\ \A n \in Nodes : "created" \in files[n]
      BY <1>1, <2>5 DEF LaunchInv, OnItsWay, NodeByThen
    <3>2. LaunchInv'
      BY <1>1, <1>5, <2>1, <3>1, LaunchMoves
    <3> QED
      BY <1>1, <2>2, <2>3, <3>2, SameLife
  <2> QED
    BY <2>4, <2>5
<1> QED
  BY <1>2, <1>3, <1>4, <1>5

\* A stop that is asked for: within the watch, or because it is over.
LEMMA StopAsked ==
  ASSUME OneExecutor, PairInv, LaunchInv, NEW s \in {"stop", "stopall"},
         Ask(Launched, "stop", s), UNCHANGED <<cause, pairFiles>>,
         stage[Launched] \in Guarded, stage[Launched] = "start" => waiting[Launched] = {},
         term'[Launched] \in BOOLEAN
  PROVE  LaunchInv' /\ LifeBox' = LifeBox /\ LifeCtl' = CtlLife(s)
<1> USE DEF Stages, Fresh, Ended, Guarded, Staging
<1>0. "stop" \in Kinds
  BY DEF Kinds
<1>1. s \in Stages \ (Fresh \cup Ended) /\ s \in Guarded /\ s \notin Staging /\ s # "start"
      /\ s # "attach"
  OBVIOUS
<1>2. LaunchInv'
  BY <1>0, <1>1, AskLaunched
<1>3. LifeBox' = LifeBox /\ LifeCtl' = CtlLife(s)
  BY <1>0, <1>1, AskLife
<1> QED
  BY <1>2, <1>3

LEMMA SafetyStopLives ==
  ASSUME OneExecutor, PairInv, LaunchInv, SafetyStop(Launched)
  PROVE  LaunchInv' /\ Lives
<1>1. /\ Ask(Launched, "stop", "stop") /\ UNCHANGED <<cause, pairFiles, term>>
      /\ stage[Launched] = "inspect"
  BY DEF SafetyStop, Turn
<1>2. LaunchInv' /\ LifeBox' = LifeBox /\ LifeCtl' = CtlLife("stop")
  BY <1>1, LaunchedTyped, StopAsked DEF Guarded
<1>3. LifeCtl' = LifeCtl
  BY <1>1, <1>2 DEF LifeCtl, CtlLife, Ended
<1> QED
  BY <1>1, <1>2, <1>3, SameLife

\* The interrupt and the exception, once the start calls that are out are back.
LEMMA TurnLives ==
  ASSUME OneExecutor, PairInv, LaunchInv,
         \/ Interrupted(Launched) \/ WatchRaises(Launched)
         \/ SecondSigterm(Launched) /\ stage[Launched] \notin {"start", "stopall"}
  PROVE  LaunchInv' /\ Lives
<1>1. /\ Ask(Launched, "stop", "stopall") /\ UNCHANGED <<cause, pairFiles>>
      /\ stage[Launched] \in Guarded \ {"stopall"}
      /\ stage[Launched] = "start" => waiting[Launched] = {}
  BY DEF Interrupted, WatchRaises, SecondSigterm, Turn, Guarded
<1>2. term'[Launched] = FALSE
  <2>1. CASE Interrupted(Launched)
    BY <2>1, LaunchedTyped DEF Interrupted, Set
  <2>2. CASE WatchRaises(Launched)
    BY <2>2, LaunchedTyped DEF WatchRaises
  <2>3. CASE SecondSigterm(Launched) /\ stage[Launched] # "stopall"
    BY <2>3, LaunchedTyped DEF SecondSigterm, Set
  <2> QED
    BY <2>1, <2>2, <2>3
<1>3. LaunchInv' /\ LifeBox' = LifeBox /\ LifeCtl' = CtlLife("stopall")
  BY <1>1, <1>2, StopAsked
<1>4. LifeCtl \in {"armed", "late"} /\ LifeCtl' = "stopping"
  BY <1>1, <1>3 DEF LifeCtl, CtlLife, Guarded, Ended
<1>5. Life!Turned
  BY <1>1, <1>2, <1>3, <1>4, NotStarting DEF Life!Turned
<1> QED
  BY <1>3, <1>5 DEF Lives, Life!LifeNext

\* After the stops: both workers are down, or they are asked again.
LEMMA AfterStopsLive ==
  ASSUME OneExecutor, PairInv, LaunchInv, AfterStop(Launched) \/ AfterStopAll(Launched)
  PROVE  LaunchInv' /\ Lives
<1> USE DEF Turn
<1>1. /\ UNCHANGED <<pairFiles, cause>> /\ stage[Launched] \in {"stop", "stopall"}
      /\ ~term[Launched] /\ waiting[Launched] = {}
  BY DEF AfterStop, AfterStopAll
<1>2. CASE AllOk(Launched)
  <2>1. Exit(Launched, "done") /\ UNCHANGED nodeVars
    BY <1>2 DEF AfterStop, AfterStopAll
  <2> QED
    BY <1>1, <1>2, <2>1, ExitLaunched, LifeEnds DEF Ended
<1>3. CASE ~AllOk(Launched) /\ AfterStop(Launched)
  <2>1. Enter(Launched, "sleep") /\ UNCHANGED <<files, box, op, term>>
        /\ stage[Launched] = "stop"
    BY <1>3 DEF AfterStop, nodeVars
  <2>2. LaunchInv' /\ LifeBox' = LifeBox /\ LifeCtl' = CtlLife("sleep")
    BY <1>1, <2>1, EnterLives DEF Stages, Fresh, Ended, Guarded, Staging
  <2>3. LifeCtl' = LifeCtl
    BY <2>1, <2>2 DEF LifeCtl, CtlLife, Ended
  <2> QED
    BY <2>1, <2>2, <2>3, SameLife
<1>4. CASE ~AllOk(Launched) /\ AfterStopAll(Launched)
  <2>1. Ask(Launched, "stop", "stopall") /\ term' = term /\ stage[Launched] = "stopall"
    BY <1>4 DEF AfterStopAll
  <2>2. LaunchInv' /\ LifeBox' = LifeBox /\ LifeCtl' = CtlLife("stopall")
    BY <1>1, <2>1, LaunchedTyped, StopAsked DEF Guarded
  <2>3. LifeCtl' = LifeCtl
    BY <2>1, <2>2 DEF LifeCtl, CtlLife, Ended
  <2> QED
    BY <2>1, <2>2, <2>3, SameLife
<1> QED
  BY <1>2, <1>3, <1>4

\* The steps that have a cause.
LEMMA CausedLive ==
  ASSUME OneExecutor, PairInv, LaunchInv,
         \/ InterruptedAgain(Launched) \/ RecordRaises(Launched) \/ Killed(Launched)
         \/ SecondSigterm(Launched) /\ stage[Launched] \in {"start", "stopall"}
  PROVE  LaunchInv' /\ Lives
<1>1. cause' # "none"
  <2>1. CASE InterruptedAgain(Launched) \/ Killed(Launched)
    BY <2>1, HappenedTyped, TypedParts DEF InterruptedAgain, Killed, Causes
  <2>2. CASE RecordRaises(Launched)
    BY <2>2, TypedParts DEF RecordRaises, WatchInv, Blamed
  <2>3. CASE SecondSigterm(Launched) /\ stage[Launched] \in {"start", "stopall"}
    BY <2>3, HappenedTyped, TypedParts DEF SecondSigterm, Causes
  <2> QED
    BY <2>1, <2>2, <2>3
<1> QED
  BY <1>1 DEF LaunchInv, Lives, Blamed

\* SIGTERM: the end before the handler, the interrupt behind it.
LEMMA SigtermLives ==
  ASSUME OneExecutor, PairInv, LaunchInv, Sigterm(Launched)
  PROVE  LaunchInv' /\ Lives
<1>0. UNCHANGED <<nodeVars, files, box, op, pairFiles, cause>>
      /\ stage[Launched] \notin Ended \cup {"off"}
  BY DEF Sigterm, nodeVars
<1>1. CASE Blamed
  BY <1>0, <1>1, BlamedLives DEF LaunchInv, Blamed
<1>2. CASE ~Blamed /\ stage[Launched] \in Guarded
  <2>1. /\ UNCHANGED <<stage, waiting, row>>
        /\ term' = [term EXCEPT ![Launched] = TRUE]
    BY <1>2 DEF Sigterm, Set
  <2>2. term'[Launched] = TRUE
    BY <2>1, LaunchedTyped
  <2>3. OnItsWay' /\ \A n \in Nodes : NodeByThen(n)'
    BY <1>0, <1>2, <2>1 DEF LaunchInv, OnItsWay, NodeByThen
  <2>4. LaunchInv'
    BY <1>0, <1>2, <2>1, <2>3 DEF LaunchInv, Blamed
  <2>5. LifeCtl' = LifeCtl /\ LifeCtl \in {"armed", "late", "stopping"}
    BY <1>2, <2>1 DEF LifeCtl, CtlLife, Guarded, Ended
  <2>6. LifeBox' = LifeBox
    BY <1>0, <2>1 DEF LifeBox, BoxLife
  <2>7. Life!Signalled
    BY <2>2, <2>5, <2>6 DEF Life!Signalled
  <2> QED
    BY <2>4, <2>7 DEF Lives, Life!LifeNext
<1>3. CASE ~Blamed /\ stage[Launched] \notin Guarded
  <2>1. Exit(Launched, "killed")
    BY <1>3 DEF Sigterm
  <2>2. stage[Launched] # "attach" /\ stage[Launched] \in Stages
    BY <1>3, LaunchedTyped DEF LaunchInv, OnItsWay
  <2>3. LifeCtl = "early"
    BY <1>0, <1>3, <2>2 DEF LifeCtl, CtlLife, Guarded, Ended, Stages
  <2> QED
    BY <1>0, <2>1, <2>3, ExitLaunched, LifeEnds DEF Ended
<1> QED
  BY <1>1, <1>2, <1>3

LEMMA BeginLives ==
  ASSUME OneExecutor, PairInv, LaunchInv, Execute(Launched) \/ WatchExisting(Launched)
  PROVE  LaunchInv' /\ Lives
<1>0. UNCHANGED <<files, box, op, pairFiles, cause, term>> /\ stage[Launched] = "off"
  BY DEF Execute, WatchExisting, nodeVars
<1>1. CASE Blamed
  BY <1>0, <1>1, BlamedLives DEF LaunchInv, Blamed
<1>2. CASE ~Blamed
  <2>1. OnItsWay
    BY <1>2 DEF LaunchInv
  <2>2. Enter(Launched, "preflight")
    BY <1>0, <2>1 DEF Execute, WatchExisting, OnItsWay, Fresh
  <2>3. ~term[Launched]
    BY <1>0, <2>1 DEF OnItsWay, Guarded
  <2>4. LaunchInv' /\ LifeBox' = LifeBox /\ LifeCtl' = CtlLife("preflight")
    BY <1>0, <2>2, <2>3, EnterLives DEF Stages, Fresh, Ended, Guarded, Staging
  <2>5. LifeCtl = "unborn" /\ LifeCtl' = "early"
    BY <1>0, <2>4 DEF LifeCtl, CtlLife, Ended
  <2>6. Life!Born
    BY <1>0, <2>4, <2>5 DEF Life!Born
  <2> QED
    BY <2>4, <2>6 DEF Lives, Life!LifeNext
<1> QED
  BY <1>1, <1>2

\* What any controller hears: a row, and a process that is over.
LEMMA Heard ==
  ASSUME PairInv, NEW c \in Ctls, NEW n \in Nodes, CtlHears(c, n)
  PROVE  \E r \in Rows :
           /\ Answer(c, n, r) /\ n \in waiting[c] /\ UNCHANGED <<files, box>>
           /\ cause' = cause \/ cause' # "none"
           /\ \A m \in Nodes, k \in {"create", "recover"} : op'[m][k] \in {op[m][k], "idle"}
           /\ stage[c] \in {"create", "recover"} /\ r.ok => op[n][stage[c]] = "ok"
<1>1. CASE Reply(c, n)
  <2>0. /\ op[n][Asked(c)] \in Replies /\ n \in waiting[c]
        /\ op' = [op EXCEPT ![n][Asked(c)] = "idle"]
        /\ UNCHANGED <<files, box, cause>>
    BY <1>1 DEF Reply, Goto
  <2>1. Asked(c) \in Kinds /\ (stage[c] \in {"create", "recover"} => Asked(c) = stage[c])
    BY <1>1 DEF Reply, Asked, Kinds
  <2>2. PICK r \in Rows : r = [NoRow EXCEPT !.ok = op[n][Asked(c)] = "ok"]
                          /\ r.ok = (op[n][Asked(c)] = "ok")
    <3>1. (op[n][Asked(c)] = "ok") \in BOOLEAN
      OBVIOUS
    <3> QED
      BY <3>1, RowsTyped, Zenon
  <2>3. Answer(c, n, r)
    BY <1>1, <2>2 DEF Reply, Answer
  <2>4. PICK k \in Kinds : k = Asked(c)
    BY <2>1
  <2>5. op' = [op EXCEPT ![n][k] = "idle"] /\ op \in [Nodes -> [Kinds -> Steps]]
    BY <2>0, <2>4, TypedParts, PairAssumption DEF NodeTypeOK
  <2>6. ASSUME NEW m \in Nodes, NEW j \in Kinds
        PROVE  op'[m][j] \in {op[m][j], "idle"}
    <3> HIDE DEF Kinds, Steps
    <3> QED
      BY <2>5
  <2>7. \A m \in Nodes, j \in {"create", "recover"} : op'[m][j] \in {op[m][j], "idle"}
    BY <2>6 DEF Kinds
  <2>8. stage[c] \in {"create", "recover"} /\ r.ok => op[n][stage[c]] = "ok"
    BY <2>1, <2>2
  <2> QED
    BY <2>0, <2>3, <2>7, <2>8
<1>2. CASE CallFails(c, n) \/ ReadFails(c, n)
  <2>1. Answer(c, n, NoRow) /\ n \in waiting[c] /\ UNCHANGED nodeVars
    BY <1>2 DEF CallFails, ReadFails
  <2>2. cause' = cause \/ cause' # "none"
    BY <1>2 DEF CallFails, ReadFails, Happened
  <2> QED
    BY <2>1, <2>2, NoRowTyped DEF nodeVars, NoRow
<1>3. CASE Inspected(c, n)
  <2>1. PICK q \in Rows :
          q = [ok |-> TRUE, up |-> box[n] \in Up, well |-> box[n] = "running",
               boot |-> boot[n], ram |-> ram[n]]
    BY RowsTyped
  <2>2. /\ Answer(c, n, q) /\ stage[c] = "inspect" /\ n \in waiting[c]
        /\ UNCHANGED <<nodeVars, cause>>
    BY <1>3, <2>1 DEF Inspected, Answer
  <2> QED
    BY <2>2 DEF nodeVars
<1>4. CASE Mapped(c, n)
  <2>1. PICK q \in Rows : q = [NoRow EXCEPT !.ok = box[n] = "running"]
    BY RowsTyped
  <2>2. /\ Answer(c, n, q) /\ stage[c] = "aot" /\ n \in waiting[c]
        /\ UNCHANGED <<nodeVars, cause>>
    BY <1>4, <2>1 DEF Mapped, Answer
  <2> QED
    BY <2>2 DEF nodeVars
<1> QED
  BY <1>1, <1>2, <1>3, <1>4 DEF CtlHears

LEMMA TurnsFrom ==
  ASSUME NEW n \in Nodes, NEW from, NEW to, BoxLife(n) = from, BoxLife(n)' = to,
         \A m \in Nodes \ {n} : BoxLife(m)' = BoxLife(m),
         LifeCtl' = LifeCtl, term'[Launched] = term[Launched]
  PROVE  Life!Turns(n, from, to)
<1>1. LifeBox[n] = from
  BY DEF LifeBox
<1>2. LifeBox' = [LifeBox EXCEPT ![n] = to]
  BY DEF LifeBox
<1> QED
  BY <1>1, <1>2 DEF Life!Turns

LEMMA HearsLives ==
  ASSUME OneExecutor, PairInv, LaunchInv, NEW c \in Ctls, NEW n \in Nodes, CtlHears(c, n)
  PROVE  LaunchInv' /\ Lives
<1>1. PICK r \in Rows :
        /\ Answer(c, n, r) /\ n \in waiting[c] /\ UNCHANGED <<files, box>>
        /\ cause' = cause \/ cause' # "none"
        /\ \A m \in Nodes, k \in {"create", "recover"} : op'[m][k] \in {op[m][k], "idle"}
        /\ stage[c] \in {"create", "recover"} /\ r.ok => op[n][stage[c]] = "ok"
  BY Heard
<1>2. /\ UNCHANGED <<pairFiles, stage, term>>
      /\ \A d \in Ctls, m \in Nodes :
           m \in waiting'[d] <=> m \in waiting[d] /\ ~(d = c /\ m = n)
      /\ \A d \in Ctls, m \in Nodes :
           row'[d][m] = IF d = c /\ m = n THEN r ELSE row[d][m]
  BY <1>1, Answered
<1>3. CASE cause' # "none"
  BY <1>3 DEF LaunchInv, Lives, Blamed
<1>4. CASE cause' = "none"
  <2>0. ~Blamed /\ Launched \in Ctls
    BY <1>1, <1>4, LaunchedTyped DEF Blamed
  <2>1. OnItsWay'
    BY <1>2, <2>0 DEF LaunchInv, OnItsWay
  <2>2. ASSUME NEW m \in Nodes
        PROVE  NodeByThen(m)'
    <3>1. NodeByThen(m) /\ NodeByThen(n)
      BY <2>0 DEF LaunchInv
    <3>2. stage[Launched] \in {"create", "recover"} /\ row'[Launched][m].ok => "created" \in files[m]
      BY <1>1, <1>2, <2>0, <3>1 DEF NodeByThen
    <3>3. \A k \in {"create", "recover"} : op'[m][k] = "ok" => "created" \in files[m]
      BY <1>1, <3>1 DEF NodeByThen
    <3>4. "pair_dir" \notin pairFiles' =>
            "created" \notin files[m] /\ op'[m]["create"] = "idle" /\ op'[m]["recover"] = "idle"
      BY <1>1, <1>2, <3>1 DEF NodeByThen
    <3> QED
      BY <1>1, <1>2, <3>1, <3>2, <3>3, <3>4 DEF NodeByThen
  <2>3. LaunchInv'
    BY <1>2, <2>0, <2>1, <2>2 DEF LaunchInv
  <2>4. LifeCtl' = LifeCtl /\ term'[Launched] = term[Launched]
    BY <1>2 DEF LifeCtl
  <2>5. \A m \in Nodes \ {n} : BoxLife(m)' = BoxLife(m)
    BY <1>1, <1>2, <2>0 DEF BoxLife
  <2>6. BoxLife(n)' = BoxLife(n) \/ (BoxLife(n) = "starting" /\ BoxLife(n)' = "created")
    BY <1>1, <1>2, <2>0 DEF BoxLife
  <2>7. CASE BoxLife(n)' = BoxLife(n)
    <3>1. LifeBox' = LifeBox
      BY <2>5, <2>7 DEF LifeBox
    <3> QED
      BY <2>3, <2>4, <3>1, SameLife
  <2>8. CASE BoxLife(n) = "starting" /\ BoxLife(n)' = "created"
    <3>1. Life!Turns(n, "starting", "created")
      BY <2>4, <2>5, <2>8, TurnsFrom
    <3>2. Life!Comes(n)
      BY <3>1 DEF Life!Comes
    <3> QED
      BY <2>3, <3>2 DEF Lives, Life!LifeNext
  <2> QED
    BY <2>6, <2>7, <2>8
<1> QED
  BY <1>3, <1>4

\* A controller that reattached leaves the executor and the containers alone.
LEMMA AsideMoves ==
  ASSUME OneExecutor, PairInv, LaunchInv, NEW c \in Ctls \ {Launched},
         NEW s \in Stages \ ((Staging \ {"off"}) \cup {"start"}), NEW w \in SUBSET Nodes,
         Moves(c, s, w), UNCHANGED <<files, box>>, term'[Launched] = term[Launched],
         pairFiles' = pairFiles \/ pairFiles' = pairFiles \cup {"health-ready"},
         \A n \in Nodes : op'[n]["create"] = op[n]["create"] /\ op'[n]["recover"] = op[n]["recover"],
         cause' = cause \/ cause' # "none"
  PROVE  LaunchInv' /\ Lives
<1>0. Launched \in Ctls
  BY LaunchedTyped
<1>1. /\ stage'[c] = s
      /\ \A d \in Ctls \ {c} :
           stage'[d] = stage[d] /\ waiting'[d] = waiting[d] /\ row'[d] = row[d]
  BY Moved, TypedParts
<1>2. CASE cause' # "none"
  BY <1>2 DEF LaunchInv, Lives, Blamed
<1>3. CASE cause' = "none"
  <2>0. ~Blamed
    BY <1>3 DEF Blamed
  <2>1. OnItsWay'
    BY <1>0, <1>1, <2>0 DEF LaunchInv, OnItsWay
  <2>2. ASSUME NEW m \in Nodes
        PROVE  NodeByThen(m)'
    <3>1. NodeByThen(m)
      BY <2>0 DEF LaunchInv
    <3>2. \A k \in {"create", "recover"} : op'[m][k] = op[m][k]
      OBVIOUS
    <3> QED
      BY <1>0, <1>1, <3>1, <3>2 DEF NodeByThen
  <2>3. LaunchInv'
    BY <1>1, <2>0, <2>1, <2>2 DEF LaunchInv
  <2>4. LifeCtl' = LifeCtl /\ LifeBox' = LifeBox
    BY <1>0, <1>1 DEF LifeCtl, LifeBox, BoxLife
  <2> QED
    BY <2>3, <2>4, SameLife
<1> QED
  BY <1>2, <1>3

LEMMA AsideExits ==
  ASSUME OneExecutor, PairInv, LaunchInv, NEW c \in Ctls \ {Launched}, NEW s \in Ended,
         Exit(c, s), UNCHANGED <<nodeVars, pairFiles>>, cause' = cause \/ cause' # "none"
  PROVE  LaunchInv' /\ Lives
<1>1. s \in Stages \ ((Staging \ {"off"}) \cup {"start"})
  BY DEF Ended, Stages, Staging, Fresh
<1>2. Moves(c, s, {}) /\ term' = [term EXCEPT ![c] = FALSE]
  BY TypedParts, Forms DEF Set
<1>3. term'[Launched] = term[Launched] /\ UNCHANGED <<files, box, op>>
  BY <1>2, LaunchedTyped DEF nodeVars
<1> QED
  BY <1>1, <1>2, <1>3, AsideMoves

LEMMA AsideEnters ==
  ASSUME OneExecutor, PairInv, LaunchInv, NEW c \in Ctls \ {Launched},
         NEW s \in Stages \ ((Staging \ {"off"}) \cup {"start"}),
         \/ Enter(c, s)
         \/ Set(stage, c, s) /\ Set(waiting, c, Nodes) /\ Blank(c),
         UNCHANGED <<files, box, op, cause, term>>,
         pairFiles' = pairFiles \/ pairFiles' = pairFiles \cup {"health-ready"}
  PROVE  LaunchInv' /\ Lives
<1>1. PICK w \in SUBSET Nodes : Moves(c, s, w)
  <2>1. CASE Enter(c, s)
    <3>1. PICK w \in SUBSET Nodes : w = waiting[c]
      BY LaunchedTyped
    <3> QED
      BY <2>1, <3>1, LaunchedTyped DEF Enter, Moves, Set
  <2>2. CASE Set(stage, c, s) /\ Set(waiting, c, Nodes) /\ Blank(c)
    BY <2>2 DEF Moves
  <2> QED
    BY <2>1, <2>2
<1> QED
  BY <1>1, AsideMoves

LEMMA AsideAsks ==
  ASSUME OneExecutor, PairInv, LaunchInv, NEW c \in Ctls \ {Launched},
         NEW s \in {"stop", "stopall"}, Ask(c, "stop", s),
         UNCHANGED <<pairFiles, cause>>, term'[Launched] = term[Launched]
  PROVE  LaunchInv' /\ Lives
<1>1. s \in Stages \ ((Staging \ {"off"}) \cup {"start"}) /\ "stop" \in Kinds
  BY DEF Stages, Staging, Fresh, Kinds
<1>2. /\ Moves(c, s, Nodes) /\ UNCHANGED <<files, box>>
      /\ \A n \in Nodes, k \in Kinds \ {"stop"} : op'[n][k] = op[n][k]
  BY <1>1, AskMoves
<1>3. \A n \in Nodes : op'[n]["create"] = op[n]["create"] /\ op'[n]["recover"] = op[n]["recover"]
  BY <1>2 DEF Kinds
<1> QED
  BY <1>1, <1>2, <1>3, AsideMoves

LEMMA AsideLives ==
  ASSUME OneExecutor, PairInv, LaunchInv, NEW c \in Ctls \ {Launched},
         \/ Execute(c) \/ WatchExisting(c) \/ CtlStep(c)
         \/ WatchRaises(c) \/ Sigterm(c) \/ SecondSigterm(c) \/ Killed(c)
  PROVE  LaunchInv' /\ Lives
<1>0. CASE Blamed
  <2>1. cause' # "none"
    <3>1. cause' = cause \/ cause' # "none"
      BY DEF Execute, WatchExisting, CtlStep, WatchRaises, Sigterm, SecondSigterm, Killed,
         watchVars, Preflight, MakePair, PairExists, AfterCreate, AfterRecover, Publish, TakeLock, LockBusy, MarkStart,
         AfterStart, Wake, SkipRound, SafetyStop, QuietRound, AfterAot, AfterStop, Interrupted,
         InterruptedAgain, AfterStopAll, RecordRaises, Happened
    <3> QED
      BY <1>0, <3>1 DEF Blamed
  <2> QED
    BY <2>1 DEF LaunchInv, Lives, Blamed
<1>1. CASE ~Blamed
  <2>0. /\ stage[c] \notin (Staging \ {"off"}) \cup {"start"} /\ c \notin Executors
        /\ "failed" \in Ended /\ "done" \in Ended /\ "killed" \in Ended
    BY <1>1 DEF LaunchInv, OneExecutor, Ended
  <2>1. ~ \/ Execute(c) \/ Preflight(c) \/ MakePair(c) \/ PairExists(c) \/ AfterCreate(c)
          \/ AfterRecover(c) \/ Publish(c) \/ MarkStart(c) \/ AfterStart(c)
    BY <2>0 DEF Staging, Fresh, Execute, Preflight, MakePair, PairExists, AfterCreate, AfterRecover,
       Publish, MarkStart, AfterStart, Turn
  <2> USE <2>0
  <2>2. CASE WatchExisting(c) \/ Wake(c) \/ SkipRound(c)
    BY <2>2, AsideEnters DEF WatchExisting, Wake, SkipRound, Observe, Stages, Staging, Fresh,
       nodeVars
  <2>3. CASE TakeLock(c)
    <3>1. Observe(c)
      BY <2>3 DEF TakeLock, AtLock, Turn, Staging, Fresh
    <3> QED
      BY <2>3, <3>1, AsideEnters DEF TakeLock, Observe, Stages, Staging, Fresh, nodeVars
  <2>4. CASE LockBusy(c)
    BY <2>4, AsideExits DEF LockBusy
  <2>5. CASE QuietRound(c)
    <3>1. /\ UNCHANGED <<files, box, op, cause, term, pairFiles>>
          /\ \/ Enter(c, "sleep") \/ Observe(c)
             \/ Set(stage, c, "aot") /\ Set(waiting, c, Nodes) /\ Blank(c)
      BY <2>5 DEF QuietRound, nodeVars
    <3> QED
      BY <3>1, AsideEnters DEF Observe, Stages, Staging, Fresh
  <2>6. CASE AfterAot(c)
    <3>1. /\ UNCHANGED <<files, box, op, cause, term>>
          /\ pairFiles' = pairFiles \/ pairFiles' = pairFiles \cup {"health-ready"}
          /\ Enter(c, "sleep") \/ Observe(c)
      BY <2>6 DEF AfterAot, nodeVars
    <3> QED
      BY <3>1, AsideEnters DEF Observe, Stages, Staging, Fresh
  <2>7. CASE SafetyStop(c) \/ WatchRaises(c)
    BY <2>7, AsideAsks DEF SafetyStop, WatchRaises
  <2>8. CASE Interrupted(c)
    <3>1. term'[Launched] = term[Launched]
      BY <2>8, LaunchedTyped DEF Interrupted, Set
    <3> QED
      BY <2>8, <3>1, AsideAsks DEF Interrupted
  <2>9. CASE AfterStop(c)
    BY <2>9, AsideExits, AsideEnters DEF AfterStop, Stages, Staging, Fresh, nodeVars
  <2>10. CASE AfterStopAll(c)
    BY <2>10, AsideExits, AsideAsks DEF AfterStopAll
  <2>11. CASE InterruptedAgain(c) \/ RecordRaises(c) \/ Killed(c)
    BY <2>11, AsideExits DEF InterruptedAgain, RecordRaises, Killed, Happened
  <2>12. CASE Sigterm(c)
    <3>1. CASE Exit(c, "killed")
      BY <2>12, <3>1, AsideExits DEF Sigterm
    <3>2. CASE Set(term, c, TRUE) /\ UNCHANGED <<stage, waiting, row, lock>>
      <4>1. term'[Launched] = term[Launched] /\ UNCHANGED <<files, box, op, pairFiles, cause>>
        BY <2>12, <3>2, LaunchedTyped DEF Sigterm, Set, nodeVars
      <4>2. OnItsWay' /\ \A n \in Nodes : NodeByThen(n)'
        BY <1>1, <3>2, <4>1 DEF LaunchInv, OnItsWay, NodeByThen
      <4>3. LaunchInv'
        BY <1>1, <3>2, <4>2 DEF LaunchInv
      <4>4. LifeCtl' = LifeCtl /\ LifeBox' = LifeBox
        BY <3>2, <4>1 DEF LifeCtl, LifeBox, BoxLife
      <4> QED
        BY <4>1, <4>3, <4>4, SameLife
    <3> QED
      BY <2>12, <3>1, <3>2 DEF Sigterm
  <2>13. CASE SecondSigterm(c)
    <3>1. CASE stage[c] = "stopall"
      BY <2>13, <3>1, AsideExits DEF SecondSigterm, Happened
    <3>2. CASE stage[c] # "stopall"
      <4>1. term'[Launched] = term[Launched]
        BY <2>13, <3>2, LaunchedTyped DEF SecondSigterm, Set
      <4>2. Ask(c, "stop", "stopall") /\ UNCHANGED <<pairFiles, cause>>
        BY <2>13, <3>2 DEF SecondSigterm
      <4> QED
        BY <4>1, <4>2, AsideAsks
    <3> QED
      BY <3>1, <3>2
  <2> QED
    BY <2>1, <2>2, <2>3, <2>4, <2>5, <2>6, <2>7, <2>8, <2>9, <2>10, <2>11, <2>12, <2>13 DEF CtlStep
<1> QED
  BY <1>0, <1>1

\* What a step of a node can do to the files the pair goes by and to its worker.
FilesEffect(m) ==
  /\ files[m] \subseteq files'[m]
  /\ "created" \in files'[m] =>
       "created" \in files[m] \/ op[m]["create"] # "idle" \/ op[m]["recover"] # "idle"
  /\ "start-attempt" \in files'[m] => "start-attempt" \in files[m] \/ op[m]["start"] # "idle"
  /\ \A k \in {"create", "recover"} :
       /\ op'[m][k] # "idle" => op[m][k] # "idle"
       /\ op'[m][k] = "ok" => op[m][k] = "ok" \/ "created" \in files'[m]

BoxEffect(m) ==
  \/ box'[m] = box[m]
  \/ /\ files'[m] = files[m]
     /\ \/ box[m] = "none" /\ box'[m] = "created"
        \/ "start" \in cli[m] /\ box'[m] = "running"
        \/ box[m] \in Up /\ box'[m] \in Up \cup {"exited"}

NodeStep(n) ==
  \/ HostStep(n)
  \/ \E c \in Calls : AgentStep(n, c) \/ DockerStep(n, c)
  \/ \E c \in Calls : AgentFails(n, c) \/ CommandTimeout(n, c) \/ AgentKilled(n, c)

LEMMA AgentFiles ==
  ASSUME PairInv, NEW n \in Nodes, NEW c \in Calls, AgentStep(n, c), NEW m \in Nodes
  PROVE  FilesEffect(m) /\ box' = box /\ (m # n => files'[m] = files[m])
<1> USE DEF FilesEffect, At, Goto, Absent, Exclusive, Issue, Kinds
<1>1. /\ files \in [Nodes -> SUBSET RunFiles]
      /\ op \in [Nodes -> [Kinds -> Steps]] /\ Kind[c] = c /\ c \in Kinds
  BY TypedParts, PairAssumption DEF NodeTypeOK
<1>2. CASE CreateAdmit(n, c)
  BY <1>1, <1>2 DEF CreateAdmit
<1>3. CASE CreateRequest(n, c)
  BY <1>1, <1>3 DEF CreateRequest
<1>4. CASE CreateAttempt(n, c)
  BY <1>1, <1>4 DEF CreateAttempt
<1>5. CASE CreateRecord(n, c)
  BY <1>1, <1>5 DEF CreateRecord
<1>6. CASE RecoverKnown(n, c)
  BY <1>1, <1>6 DEF RecoverKnown
<1>7. CASE RecoverFind(n, c)
  BY <1>1, <1>7 DEF RecoverFind
<1>8. CASE RecoverRecord(n, c)
  BY <1>1, <1>8 DEF RecoverRecord
<1>9. CASE StartCheck(n, c)
  BY <1>1, <1>9 DEF StartCheck
<1>10. CASE StartCommit(n, c)
  BY <1>1, <1>10 DEF StartCommit
<1>11. CASE StartReply(n, c)
  BY <1>1, <1>11 DEF StartReply
<1>12. CASE StopInspect(n, c)
  BY <1>1, <1>12 DEF StopInspect
<1>13. CASE StopConfirm(n, c)
  BY <1>1, <1>13 DEF StopConfirm
<1> QED
  BY <1>2, <1>3, <1>4, <1>5, <1>6, <1>7, <1>8, <1>9, <1>10, <1>11, <1>12, <1>13 DEF AgentStep

LEMMA DockerFiles ==
  ASSUME PairInv, NEW n \in Nodes, NEW c \in Calls, DockerStep(n, c), NEW m \in Nodes
  PROVE  FilesEffect(m) /\ BoxEffect(m) /\ files' = files /\ (m # n => box'[m] = box[m])
<1> USE DEF FilesEffect, BoxEffect, Served, Acked, Kinds, Up
<1>1. /\ box \in [Nodes -> BoxStates]
      /\ op \in [Nodes -> [Kinds -> Steps]] /\ Kind[c] = c /\ c \in Kinds
  BY TypedParts, PairAssumption DEF NodeTypeOK
<1>2. CASE DockerCreates(n, c)
  BY <1>1, <1>2 DEF DockerCreates
<1>3. CASE DockerStarts(n, c)
  BY <1>1, <1>3 DEF DockerStarts
<1>4. CASE DockerStops(n, c)
  BY <1>1, <1>4 DEF DockerStops
<1>5. CASE DockerRefuses(n, c)
  BY <1>1, <1>5 DEF DockerRefuses
<1> QED
  BY <1>2, <1>3, <1>4, <1>5 DEF DockerStep

LEMMA OtherFiles ==
  ASSUME PairInv, NEW n \in Nodes, NEW m \in Nodes,
         \/ HostStep(n)
         \/ \E c \in Calls : AgentFails(n, c) \/ CommandTimeout(n, c) \/ AgentKilled(n, c)
  PROVE  FilesEffect(m) /\ BoxEffect(m) /\ files' = files /\ (m # n => box'[m] = box[m])
<1>1. CASE HostStep(n)
  BY <1>1, TypedParts DEF HostStep, WorkerExits, WorkerSickens, ForeignRestart, RamDrops,
     RamRecovers, FilesEffect, BoxEffect, Up, NodeTypeOK
<1>2. ASSUME NEW c \in Calls, AgentFails(n, c) \/ CommandTimeout(n, c) \/ AgentKilled(n, c)
      PROVE  FilesEffect(m) /\ UNCHANGED <<files, box>>
  <2>1. op \in [Nodes -> [Kinds -> Steps]] /\ c \in Kinds /\ op[n][c] \in InFlight
    BY <1>2, TypedParts, PairAssumption DEF NodeTypeOK, AgentFails, CommandTimeout, AgentKilled,
       InFlight, Replies, Steps
  <2>2. /\ op' = [op EXCEPT ![n][c] = "error"] \/ op' = [op EXCEPT ![n][c] = "idle"]
        /\ UNCHANGED <<files, box>>
    BY <1>2 DEF AgentFails, CommandTimeout, AgentKilled, Fail, Goto
  <2>3. op[n][c] # "idle"
    BY <2>1 DEF InFlight
  <2>4. ASSUME NEW k \in Kinds
        PROVE  /\ op'[m][k] # "idle" => op[m][k] # "idle"
               /\ op'[m][k] = "ok" => op[m][k] = "ok"
    <3> HIDE DEF Kinds, Steps
    <3> QED
      BY <2>1, <2>2, <2>3
  <2> QED
    BY <2>2, <2>4 DEF FilesEffect, Kinds
<1> QED
  BY <1>1, <1>2 DEF BoxEffect

\* A node under the executor turns its container from one stage to the next.
LEMMA NodeLives ==
  ASSUME OneExecutor, PairInv, NodeInv', LaunchInv, NEW n \in Nodes, cause' = "none",
         UNCHANGED <<pairFiles, stage, waiting, row, term, cause>>,
         \A m \in Nodes : FilesEffect(m) /\ BoxEffect(m),
         \A m \in Nodes \ {n} : files'[m] = files[m] /\ box'[m] = box[m]
  PROVE  LaunchInv' /\ Lives
<1>0. ~Blamed
  BY DEF Blamed
\* Only the executor has a start under way.
<1>1. ASSUME NEW m \in Nodes, op[m]["start"] # "idle"
      PROVE  stage[Launched] = "start" /\ m \in waiting[Launched]
  <2>1. PICK c \in Ctls : stage[c] = "start" /\ m \in waiting[c]
    BY <1>0, <1>1, TypedParts DEF WatchInv, StartInv
  <2>2. c = Launched
    BY <1>0, <2>1 DEF LaunchInv
  <2> QED
    BY <2>1, <2>2
<1>2. ASSUME NEW m \in Nodes
      PROVE  NodeByThen(m)'
  <2>1. NodeByThen(m) /\ FilesEffect(m)
    BY <1>0 DEF LaunchInv
  <2>2. stage[Launched] \in Staging => "start-attempt" \notin files'[m]
    BY <1>1, <2>1 DEF NodeByThen, FilesEffect, Staging, Fresh
  <2>3. "pair_dir" \notin pairFiles' =>
          "created" \notin files'[m] /\ op'[m]["create"] = "idle" /\ op'[m]["recover"] = "idle"
    BY <2>1 DEF NodeByThen, FilesEffect
  <2>4. \A k \in {"create", "recover"} : op'[m][k] = "ok" => "created" \in files'[m]
    BY <2>1 DEF NodeByThen, FilesEffect
  <2>5. "created" \in files[m] => "created" \in files'[m]
    BY <2>1 DEF FilesEffect
  <2> QED
    BY <2>1, <2>2, <2>3, <2>4, <2>5 DEF NodeByThen
<1>3. LaunchInv'
  <2>1. OnItsWay'
    BY <1>0 DEF LaunchInv, OnItsWay
  <2> QED
    BY <1>0, <1>2, <2>1 DEF LaunchInv
<1>4. LifeCtl' = LifeCtl /\ term'[Launched] = term[Launched]
  BY DEF LifeCtl
<1>5. \A m \in Nodes \ {n} : BoxLife(m)' = BoxLife(m)
  BY DEF BoxLife
<1>6. /\ NodeByThen(n) /\ FilesEffect(n) /\ BoxEffect(n) /\ Evidence(n) /\ Evidence(n)'
      /\ "start" \in cli[n] => op[n]["start"] # "idle" /\ "created" \in files[n] /\ box[n] = "created"
  <2>1. Evidence(n) /\ Evidence(n)' /\ Knows(n, "start") /\ Kind["start"] = "start"
    BY TypedParts, PairAssumption DEF NodeInv, Kinds
  <2>2. "start" \in cli[n] => op[n]["start"] # "idle"
    BY <1>0, TypedParts DEF WatchInv, StartInv
  <2> QED
    BY <1>0, <2>1, <2>2 DEF LaunchInv, Knows, Evidence
<1>7. CASE "created" \in files'[n] /\ "created" \notin files[n]
  <2>1. box'[n] = box[n] /\ box'[n] # "none"
    BY <1>6, <1>7 DEF BoxEffect, Evidence
  <2>2. box[n] \notin Up \cup {"exited"}
    BY <1>6, <1>7 DEF Evidence
  <2>3. "pair_dir" \in pairFiles
    BY <1>6, <1>7 DEF NodeByThen, FilesEffect
  <2>4. stage[Launched] # "start"
    BY <1>6, <1>7 DEF NodeByThen, Guarded
  <2>5. BoxLife(n) = "asked" /\ BoxLife(n)' = "created"
    BY <1>7, <2>1, <2>2, <2>3, <2>4 DEF BoxLife
  <2>6. Life!Turns(n, "asked", "created")
    BY <1>4, <1>5, <2>5, TurnsFrom
  <2>7. Life!Creates(n)
    BY <2>6 DEF Life!Creates
  <2> QED
    BY <1>3, <2>7 DEF Lives, Life!LifeNext
<1>8. CASE "created" \in files'[n] /\ "created" \in files[n] /\ "start" \in cli[n] /\ box'[n] = "running"
  <2>1. stage[Launched] = "start" /\ n \in waiting[Launched]
    BY <1>1, <1>6, <1>8
  <2>2. BoxLife(n) = "starting" /\ BoxLife(n)' = "running"
    BY <1>6, <1>8, <2>1 DEF BoxLife, Up
  <2>3. Life!Turns(n, "starting", "running")
    BY <1>4, <1>5, <2>2, TurnsFrom
  <2>4. Life!Comes(n)
    BY <2>3 DEF Life!Comes
  <2> QED
    BY <1>3, <2>4 DEF Lives, Life!LifeNext
<1>9. CASE "created" \in files'[n] /\ "created" \in files[n] /\ box[n] \in Up /\ box'[n] = "exited"
  <2>1. BoxLife(n) = "running" /\ BoxLife(n)' = "exited"
    BY <1>9 DEF BoxLife, Up
  <2>2. Life!Turns(n, "running", "exited")
    BY <1>4, <1>5, <2>1, TurnsFrom
  <2>3. Life!Ends(n)
    BY <2>2 DEF Life!Ends
  <2> QED
    BY <1>3, <2>3 DEF Lives, Life!LifeNext
<1>10. CASE BoxLife(n)' = BoxLife(n)
  <2>1. LifeBox' = LifeBox
    BY <1>5, <1>10 DEF LifeBox
  <2> QED
    BY <1>3, <1>4, <2>1, SameLife
<1>11. "created" \notin files'[n] => "created" \notin files[n]
  BY <1>6 DEF FilesEffect
<1>12. CASE "created" \notin files'[n]
  <2>1. BoxLife(n)' = BoxLife(n)
    BY <1>11, <1>12 DEF BoxLife
  <2> QED
    BY <1>10, <2>1
<1>13. CASE "created" \in files[n] /\ "created" \in files'[n]
  <2>1. box[n] # "none"
    BY <1>6, <1>13 DEF Evidence
  <2>2. CASE box'[n] = box[n]
    <3>1. BoxLife(n)' = BoxLife(n)
      BY <1>13, <2>2 DEF BoxLife
    <3> QED
      BY <1>10, <3>1
  <2>3. CASE "start" \in cli[n] /\ box'[n] = "running"
    BY <1>8, <1>13, <2>3
  <2>4. CASE box[n] \in Up /\ box'[n] = "exited"
    BY <1>9, <1>13, <2>4
  <2>5. CASE box[n] \in Up /\ box'[n] \in Up
    <3>1. BoxLife(n)' = BoxLife(n)
      BY <1>13, <2>5 DEF BoxLife
    <3> QED
      BY <1>10, <3>1
  <2> QED
    BY <1>6, <2>1, <2>2, <2>3, <2>4, <2>5 DEF BoxEffect
<1> QED
  BY <1>7, <1>12, <1>13

LEMMA NodesLive ==
  ASSUME OneExecutor, PairInv, PairInv', LaunchInv, NEW n \in Nodes, NodeActs(n) \/ NodeErrs(n)
  PROVE  LaunchInv' /\ Lives
<1>1. /\ UNCHANGED <<pairFiles, stage, waiting, row, term>>
      /\ cause' = cause \/ cause' # "none"
  BY DEF NodeActs, NodeErrs, ctlVars, Happened
<1>2. CASE cause' # "none"
  BY <1>2 DEF LaunchInv, Lives, Blamed
<1>3. CASE cause' = "none"
  <2>1. \/ HostStep(n)
        \/ \E c \in Calls : AgentStep(n, c)
        \/ \E c \in Calls : DockerStep(n, c)
        \/ \E c \in Calls : AgentFails(n, c) \/ CommandTimeout(n, c) \/ AgentKilled(n, c)
    BY RefusesFails DEF NodeActs, NodeErrs, HostStep, DockerStep
  <2>2. ASSUME NEW m \in Nodes
        PROVE  /\ FilesEffect(m) /\ BoxEffect(m)
               /\ m # n => files'[m] = files[m] /\ box'[m] = box[m]
    BY <2>1, AgentFiles, DockerFiles, OtherFiles DEF BoxEffect
  <2>3. NodeInv'
    BY TypedParts, PTL DEF PairInv
  <2>4. cause' = cause
    BY <1>1, <1>3
  <2> QED
    BY <1>1, <1>3, <2>2, <2>3, <2>4, NodeLives
<1> QED
  BY <1>2, <1>3

LEMMA LaunchStart == OneExecutor /\ Init => LaunchInv /\ Life!LifeInit
<1> SUFFICES ASSUME OneExecutor, Init
             PROVE  LaunchInv /\ Life!LifeInit
  OBVIOUS
<1>1. Launched \in Ctls
  BY PairAssumption DEF OneExecutor
<1>2. stage[Launched] = "off" /\ term[Launched] = FALSE /\ \A c \in Ctls : stage[c] = "off"
  BY <1>1 DEF Init
<1>3. OnItsWay
  BY <1>2 DEF Init, OnItsWay, Fresh
<1>4. ASSUME NEW n \in Nodes
      PROVE  NodeByThen(n) /\ BoxLife(n) = "none"
  <2>1. files[n] = {} /\ \A k \in Kinds : op[n][k] = "idle"
    BY PairAssumption DEF Init, NodeInit
  <2>2. op[n]["create"] = "idle" /\ op[n]["recover"] = "idle"
    BY <2>1 DEF Kinds
  <2>3. NodeByThen(n)
    BY <1>2, <2>1, <2>2 DEF NodeByThen, Guarded
  <2>4. BoxLife(n) = "none"
    BY <2>1 DEF Init, BoxLife
  <2> QED
    BY <2>3, <2>4
<1>5. LaunchInv
  BY <1>2, <1>3, <1>4 DEF LaunchInv, Staging, Fresh
<1>6. LifeCtl = "unborn"
  BY <1>2 DEF LifeCtl, CtlLife, Ended
<1>7. LifeBox = [n \in Nodes |-> "none"]
  BY <1>4 DEF LifeBox
<1> QED
  BY <1>2, <1>5, <1>6, <1>7 DEF Life!LifeInit

LEMMA LaunchStep ==
  OneExecutor /\ PairInv /\ PairInv' /\ LaunchInv /\ [Next]_vars => LaunchInv' /\ Lives
<1> SUFFICES ASSUME OneExecutor, PairInv, PairInv', LaunchInv, [Next]_vars
             PROVE  LaunchInv' /\ Lives
  OBVIOUS
<1>1. CASE UNCHANGED vars
  <2>1. UNCHANGED <<stage, row, term, waiting, pairFiles, cause, files, box, op>>
    BY <1>1 DEF vars, nodeVars, ctlVars
  <2>2. LaunchInv'
    BY <2>1 DEF LaunchInv, Blamed, OnItsWay, NodeByThen
  <2>3. LifeCtl' = LifeCtl /\ LifeBox' = LifeBox
    BY <2>1 DEF LifeCtl, LifeBox, BoxLife
  <2> QED
    BY <2>1, <2>2, <2>3, SameLife
<1>2. CASE CtlStep(Launched)
  BY <1>2, StagingLives, MakePairLives, TakeLockLives, MarkStartLives, WatchLives, SafetyStopLives,
     TurnLives, AfterStopsLive, CausedLive DEF CtlStep
<1>3. CASE \/ Execute(Launched) \/ WatchExisting(Launched) \/ WatchRaises(Launched)
           \/ Sigterm(Launched) \/ SecondSigterm(Launched) \/ Killed(Launched)
  BY <1>3, BeginLives, TurnLives, SigtermLives, CausedLive
<1>4. ASSUME NEW c \in Ctls \ {Launched},
             \/ Execute(c) \/ WatchExisting(c) \/ CtlStep(c)
             \/ WatchRaises(c) \/ Sigterm(c) \/ SecondSigterm(c) \/ Killed(c)
      PROVE  LaunchInv' /\ Lives
  BY <1>4, AsideLives
<1>5. ASSUME NEW c \in Ctls, NEW n \in Nodes, CtlHears(c, n)
      PROVE  LaunchInv' /\ Lives
  BY <1>5, HearsLives
<1>6. ASSUME NEW n \in Nodes, NodeActs(n) \/ NodeErrs(n)
      PROVE  LaunchInv' /\ Lives
  BY <1>6, NodesLive
<1>7. ASSUME NEW n \in Nodes, Partition(n)
      PROVE  LaunchInv' /\ Lives
  <2>1. UNCHANGED <<stage, row, term, waiting, pairFiles, cause, files, box, op>>
    BY <1>7 DEF Partition, nodeVars
  <2>2. LaunchInv'
    BY <2>1 DEF LaunchInv, Blamed, OnItsWay, NodeByThen
  <2>3. LifeCtl' = LifeCtl /\ LifeBox' = LifeBox
    BY <2>1 DEF LifeCtl, LifeBox, BoxLife
  <2> QED
    BY <2>1, <2>2, <2>3, SameLife
<1>8. CASE BreakJournal
  <2>1. cause' # "none"
    BY <1>8, HappenedTyped, TypedParts DEF BreakJournal, Causes
  <2> QED
    BY <2>1 DEF LaunchInv, Lives, Blamed
<1> QED
  BY <1>1, <1>2, <1>3, <1>4, <1>5, <1>6, <1>7, <1>8 DEF Next

(* The pair of one executor, with any number of controllers that reattach to *)
(* it, lives the life of PairLife until a cause: the calls, timeouts, agents *)
(* and docker commands below implement it.                                   *)
THEOREM LaunchedPairsLive == OneExecutor => (Spec => LaunchedLife)
<1> SUFFICES ASSUME OneExecutor
             PROVE  Spec => LaunchedLife
  OBVIOUS
<1>1. Init => LaunchInv /\ Life!LifeInit
  BY LaunchStart
<1>2. PairInv /\ PairInv' /\ LaunchInv /\ [Next]_vars => LaunchInv'
  BY LaunchStep
<1>3. PairInv /\ PairInv' /\ LaunchInv /\ [Next]_vars =>
        [Life!LifeNext \/ cause' # "none"]_(Life!lifeVars)
  BY LaunchStep DEF Lives
<1> QED
  BY <1>1, <1>2, <1>3, PairInvariant, PTL DEF Spec, LaunchedLife

-----------------------------------------------------------------------------
(* Nobody waits in vain.                                                     *)

\* The stages in which replies are waited for, and those between the pair
\* directory and the start.
Both == {"create", "recover", "start", "inspect", "stop", "aot", "stopall"}
Making == {"create", "recover", "publish", "lock", "mark"}

\* The steps of each kind of process; where it need not wait for docker, it goes
\* on or must raise (AgentStep, Refuses).
StepsOf(k) == CASE k = "create" -> {"called", "admitted", "staging", "acked"}
                [] k = "recover" -> {"called", "found"}
                [] k = "start" -> {"called", "checked", "acked"}
                [] k = "stop" -> {"called", "acked"}

\* The daemon can serve the command.
Serves(n, k) ==
  /\ k \in cli[n]
  /\ k = "create" => box[n] = "none"
  /\ k = "start" => box[n] \in {"created", "exited"} /\ boot[n] < MaxBoot

\* The call of c on n is answered, given up with a node that is out of reach or
\* a process that is not there, or has its process or its docker command go on.
CallMoves(c, n) ==
  \/ ~Reachable(n)
  \/ stage[c] = "aot"
  \/ stage[c] = "inspect" /\ "created" \in files[n]
  \/ /\ stage[c] \in Both \ {"inspect", "aot"}
     /\ \/ op[n][Asked(c)] \in {"idle"} \cup Replies \cup StepsOf(Asked(c))
        \/ Serves(n, Asked(c))

\* Whatever a controller that runs waits for has a step without any error: each
\* of the calls that are out, and itself once they are in.  There every stage but
\* one goes on unconditionally; MarkStart wants its file not to be there.
NobodyHangs ==
  \A c \in Ctls : stage[c] \notin Ended \cup {"off"} =>
    /\ waiting[c] # {} => stage[c] \in Both
    /\ \A n \in waiting[c] : CallMoves(c, n)
    /\ stage[c] = "mark" => "start-attempt" \notin pairFiles

\* What each process may be at, and what the docker commands it waits for find.
GoesOn(n) ==
  /\ \A k \in Kinds : /\ op[n][k] \in StepsOf(k) \cup {"idle", "issued"} \cup Replies
                      /\ op[n][k] = "issued" => k \in cli[n]
  /\ "create" \in cli[n] => box[n] = "none"
  /\ box[n] \in {"none", "created"} => boot[n] = 0
  /\ \A k \in {"create", "recover"} : op[n][k] = "ok" => "created" \in files[n]

\* A controller publishes, locks and watches what both nodes have created.
Found(c) ==
  /\ stage[c] \in {"create", "recover"} =>
       \A n \in Nodes : row[c][n].ok => "created" \in files[n]
  /\ stage[c] \in {"publish", "lock", "attach"} \cup Guarded => \A n \in Nodes : "created" \in files[n]

\* One controller at most makes the pair.
Alone(c) ==
  stage[c] \in Making =>
    /\ "pair_dir" \in pairFiles /\ "start-attempt" \notin pairFiles
    /\ \A d \in Ctls : stage[d] \in Making => d = c

GoInv ==
  /\ \A n \in Nodes : GoesOn(n)
  /\ \A c \in Ctls : Found(c) /\ Alone(c) /\ (waiting[c] # {} => stage[c] \in Both)
  /\ "controller" \in pairFiles => \A n \in Nodes : "created" \in files[n]
  /\ "start-attempt" \in pairFiles => "pair_dir" \in pairFiles

-----------------------------------------------------------------------------
(* What the steps of a node do to it.                                        *)
LEMMA NodeShape ==
  ASSUME PairInv
  PROVE  /\ files \in [Nodes -> SUBSET RunFiles] /\ box \in [Nodes -> BoxStates]
         /\ boot \in [Nodes -> Nat] /\ op \in [Nodes -> [Kinds -> Steps]]
         /\ cli \in [Nodes -> SUBSET Commanding] /\ Calls = Kinds
         /\ \A k \in Kinds : Kind[k] = k
BY TypedParts, PairAssumption DEF NodeTypeOK

LEMMA KindSteps ==
  /\ Kinds = {"create", "recover", "start", "stop"}
  /\ StepsOf("create") = {"called", "admitted", "staging", "acked"}
  /\ StepsOf("recover") = {"called", "found"}
  /\ StepsOf("start") = {"called", "checked", "acked"}
  /\ StepsOf("stop") = {"called", "acked"}
BY DEF Kinds, StepsOf

\* A process of kind c comes to step s, and what it has done by then.
Comes(n, c, s) ==
  /\ op' = [op EXCEPT ![n][c] = s] /\ s \in StepsOf(c) \cup {"issued"} \cup Replies
  /\ \/ s = "issued" /\ cli' = [cli EXCEPT ![n] = @ \cup {c}] /\ (c = "create" => box[n] = "none")
     \/ s # "issued" /\ cli' = cli
  /\ s = "ok" /\ c \in {"create", "recover"} => "created" \in files'[n]
  /\ UNCHANGED <<box, boot>>
  /\ \A m \in Nodes : files[m] \subseteq files'[m]

LEMMA AgentComes ==
  ASSUME PairInv, NEW n \in Nodes, NEW c \in Calls, AgentStep(n, c)
  PROVE  \E s \in Steps : Comes(n, c, s)
<1>0. /\ files \in [Nodes -> SUBSET RunFiles] /\ Kind[c] = c
      /\ {"admitted", "staging", "issued", "ok", "found", "checked", "acked", "error"} \subseteq Steps
      /\ Replies = {"ok", "error"}
  BY NodeShape DEF Steps, Replies
<1>1. UNCHANGED files => \A m \in Nodes : files[m] \subseteq files'[m]
  OBVIOUS
<1>2. ASSUME NEW f, Exclusive(n, f)
      PROVE  \A m \in Nodes : files[m] \subseteq files'[m]
  BY <1>0, <1>2 DEF Exclusive
<1>3. ASSUME Exclusive(n, "created")
      PROVE  "created" \in files'[n]
  BY <1>0, <1>3 DEF Exclusive
<1>4. CASE CreateAdmit(n, c)
  <2>1. Comes(n, c, "admitted")
    BY <1>0, <1>4, KindSteps DEF CreateAdmit, At, Goto, Comes
  <2> QED
    BY <1>0, <2>1
<1>5. CASE CreateRequest(n, c)
  <2>1. Comes(n, c, "staging")
    BY <1>0, <1>2, <1>5, KindSteps DEF CreateRequest, At, Goto, Comes
  <2> QED
    BY <1>0, <2>1
<1>6. CASE CreateAttempt(n, c)
  <2>1. box[n] = "none"
    BY <1>6, TypedParts DEF CreateAttempt, NodeInv, Evidence, Exclusive, Absent
  <2>2. Comes(n, c, "issued")
    BY <1>0, <1>2, <1>6, <2>1, KindSteps DEF CreateAttempt, At, Goto, Issue, Comes
  <2> QED
    BY <1>0, <2>2
<1>7. CASE CreateRecord(n, c)
  <2>1. Comes(n, c, "ok")
    BY <1>0, <1>2, <1>3, <1>7, KindSteps DEF CreateRecord, At, Goto, Comes
  <2> QED
    BY <1>0, <2>1
<1>8. CASE RecoverKnown(n, c)
  <2>1. Comes(n, c, "ok")
    BY <1>0, <1>1, <1>8, KindSteps DEF RecoverKnown, At, Goto, Comes, Absent
  <2> QED
    BY <1>0, <2>1
<1>9. CASE RecoverFind(n, c)
  <2>1. Comes(n, c, "found")
    BY <1>0, <1>1, <1>9, KindSteps DEF RecoverFind, At, Goto, Comes
  <2> QED
    BY <1>0, <2>1
<1>10. CASE RecoverRecord(n, c)
  <2>1. Comes(n, c, "ok")
    BY <1>0, <1>2, <1>3, <1>10, KindSteps DEF RecoverRecord, At, Goto, Comes
  <2> QED
    BY <1>0, <2>1
<1>11. CASE StartCheck(n, c)
  <2>1. Comes(n, c, "checked")
    BY <1>0, <1>1, <1>11, KindSteps DEF StartCheck, At, Goto, Comes
  <2> QED
    BY <1>0, <2>1
<1>12. CASE StartCommit(n, c)
  <2>1. Comes(n, c, "issued")
    BY <1>0, <1>2, <1>12, KindSteps DEF StartCommit, At, Goto, Issue, Comes
  <2> QED
    BY <1>0, <2>1
<1>13. CASE StartReply(n, c)
  <2>1. Comes(n, c, "ok")
    BY <1>0, <1>1, <1>13, KindSteps DEF StartReply, At, Goto, Comes
  <2> QED
    BY <1>0, <2>1
<1>14. CASE StopInspect(n, c)
  <2>1. Comes(n, c, "issued") \/ Comes(n, c, "acked")
    BY <1>0, <1>1, <1>14, KindSteps DEF StopInspect, At, Goto, Issue, Comes
  <2> QED
    BY <1>0, <2>1
<1>15. CASE StopConfirm(n, c)
  <2>1. PICK s \in Replies : s = IF box[n] \in Up THEN "error" ELSE "ok"
    BY <1>0
  <2>2. Comes(n, c, s)
    BY <1>0, <1>1, <1>15, <2>1, KindSteps DEF StopConfirm, At, Goto, Comes
  <2> QED
    BY <1>0, <2>2
<1> QED
  BY <1>4, <1>5, <1>6, <1>7, <1>8, <1>9, <1>10, <1>11, <1>12, <1>13, <1>14, <1>15 DEF AgentStep

LEMMA AgentGoes ==
  ASSUME PairInv, NEW n \in Nodes, NEW c \in Calls, AgentStep(n, c), NEW m \in Nodes, GoesOn(m)
  PROVE  GoesOn(m)' /\ files[m] \subseteq files'[m]
<1>1. PICK s \in Steps : Comes(n, c, s)
  BY AgentComes
<1>2. /\ op \in [Nodes -> [Kinds -> Steps]] /\ c \in Kinds
      /\ op' = [op EXCEPT ![n][c] = s] /\ UNCHANGED <<box, boot>>
      /\ files[n] \subseteq files'[n] /\ files[m] \subseteq files'[m]
  BY <1>1, NodeShape DEF Comes
<1>3. /\ cli \in [Nodes -> SUBSET Commanding]
      /\ cli' = cli \/ (s = "issued" /\ cli' = [cli EXCEPT ![n] = @ \cup {c}])
  BY <1>1, NodeShape DEF Comes
<1>4. /\ cli[m] \subseteq cli'[m] /\ cli'[m] \subseteq cli[m] \cup {c}
      /\ s = "issued" => c \in cli'[n]
      /\ m # n \/ s # "issued" => cli'[m] = cli[m]
  BY <1>1, <1>3 DEF Comes
<1>5. ASSUME NEW k \in Kinds
      PROVE  op'[m][k] = IF m = n /\ k = c THEN s ELSE op[m][k]
  <2> HIDE DEF Kinds, Steps
  <2> QED
    BY <1>2
<1>6. \A k \in Kinds : /\ op'[m][k] \in StepsOf(k) \cup {"idle", "issued"} \cup Replies
                       /\ op'[m][k] = "issued" => k \in cli'[m]
  BY <1>1, <1>4, <1>5 DEF Comes, GoesOn
<1>7. "create" \in cli'[m] => box[m] = "none"
  <2>1. CASE "create" \in cli[m]
    BY <2>1 DEF GoesOn
  <2>2. CASE "create" \notin cli[m]
    <3>1. "create" \in cli'[m] => m = n /\ c = "create" /\ s = "issued"
      BY <1>4, <2>2
    <3> QED
      BY <1>1, <3>1 DEF Comes
  <2> QED
    BY <2>1, <2>2
<1>8. \A k \in {"create", "recover"} : op'[m][k] = "ok" => "created" \in files'[m]
  <2>1. "create" \in Kinds /\ "recover" \in Kinds
    BY KindSteps
  <2> QED
    BY <1>1, <1>2, <1>5, <2>1 DEF Comes, GoesOn
<1> QED
  BY <1>2, <1>6, <1>7, <1>8 DEF GoesOn

\* The daemon is done with the command of a process, which hears of it if it
\* still waits.
LEMMA DockerGoes ==
  ASSUME PairInv, NEW n \in Nodes, NEW c \in Calls, DockerStep(n, c), NEW m \in Nodes, GoesOn(m)
  PROVE  GoesOn(m)' /\ files' = files
<1>1. /\ box \in [Nodes -> BoxStates] /\ boot \in [Nodes -> Nat]
      /\ op \in [Nodes -> [Kinds -> Steps]] /\ cli \in [Nodes -> SUBSET Commanding]
      /\ Kind[c] = c /\ c \in Kinds
  BY NodeShape
<1>2. /\ c \in cli[n] /\ cli' = [cli EXCEPT ![n] = @ \ {c}] /\ files' = files
      /\ \E r \in {"acked", "error"} : op' = [op EXCEPT ![n][c] = IF @ = "issued" THEN r ELSE @]
  BY DEF DockerStep, DockerCreates, DockerStarts, DockerStops, DockerRefuses, Served, Acked
<1>3. /\ cli'[m] \subseteq cli[m] /\ (m # n => cli'[m] = cli[m])
      /\ m = n => cli'[m] = cli[m] \ {c}
  BY <1>1, <1>2
<1>4. PICK r \in {"acked", "error"} : op' = [op EXCEPT ![n][c] = IF @ = "issued" THEN r ELSE @]
  BY <1>2
<1>5. ASSUME NEW k \in Kinds
      PROVE  op'[m][k] = IF m = n /\ k = c /\ op[m][k] = "issued" THEN r ELSE op[m][k]
  <2> HIDE DEF Kinds, Steps
  <2> QED
    BY <1>1, <1>4
<1>6. r = "acked" => r \in StepsOf(c)
  <2>1. c # "recover"
    BY <1>1, <1>2 DEF Commanding
  <2> QED
    BY <1>1, <2>1, KindSteps
<1>7. r \in StepsOf(c) \cup Replies /\ r \notin {"issued", "ok"}
  BY <1>4, <1>6 DEF Replies
<1>8. \A k \in Kinds : /\ op'[m][k] \in StepsOf(k) \cup {"idle", "issued"} \cup Replies
                       /\ op'[m][k] = "issued" => k \in cli'[m]
  BY <1>3, <1>5, <1>7 DEF GoesOn
<1>9. \A k \in {"create", "recover"} : op'[m][k] = "ok" => "created" \in files[m]
  <2>1. "create" \in Kinds /\ "recover" \in Kinds
    BY KindSteps
  <2> QED
    BY <1>5, <1>7, <2>1 DEF GoesOn
<1>10. /\ "create" \in cli'[m] => box'[m] = "none"
       /\ box'[m] \in {"none", "created"} => boot'[m] = 0
  <2>1. "create" \in cli[m] => box[m] = "none"
    BY DEF GoesOn
  <2>2. box[m] \in {"none", "created"} => boot[m] = 0
    BY DEF GoesOn
  <2>3. CASE DockerCreates(n, c)
    <3>1. c = "create" /\ box[n] = "none" /\ box' = [box EXCEPT ![n] = "created"] /\ boot' = boot
      BY <1>1, <2>3 DEF DockerCreates
    <3> QED
      BY <1>1, <1>3, <2>1, <2>2, <3>1
  <2>4. CASE DockerStarts(n, c)
    <3>1. /\ box[n] \in {"created", "exited"} /\ box' = [box EXCEPT ![n] = "running"]
          /\ boot' = [boot EXCEPT ![n] = @ + 1]
      BY <2>4 DEF DockerStarts
    <3> QED
      BY <1>1, <1>3, <2>1, <2>2, <3>1
  <2>5. CASE DockerStops(n, c)
    <3>1. box' = [box EXCEPT ![n] = IF @ \in Up THEN "exited" ELSE @] /\ boot' = boot
      BY <2>5 DEF DockerStops
    <3>2. box'[m] = box[m] \/ (box[m] \in Up /\ box'[m] = "exited")
      BY <1>1, <3>1
    <3> QED
      BY <1>3, <2>1, <2>2, <3>1, <3>2 DEF Up
  <2>6. CASE DockerRefuses(n, c)
    <3>1. UNCHANGED <<box, boot>>
      BY <2>6 DEF DockerRefuses
    <3> QED
      BY <1>3, <2>1, <2>2, <3>1
  <2> QED
    BY <2>3, <2>4, <2>5, <2>6 DEF DockerStep
<1> QED
  BY <1>2, <1>8, <1>9, <1>10 DEF GoesOn

LEMMA OtherGoes ==
  ASSUME PairInv, NEW n \in Nodes, NEW m \in Nodes, GoesOn(m),
         \/ HostStep(n)
         \/ \E c \in Calls : AgentFails(n, c) \/ CommandTimeout(n, c) \/ AgentKilled(n, c)
  PROVE  GoesOn(m)' /\ files' = files
<1>1. CASE HostStep(n)
  BY <1>1, NodeShape DEF HostStep, WorkerExits, WorkerSickens, ForeignRestart, RamDrops,
     RamRecovers, GoesOn, Up
<1>2. ASSUME NEW c \in Calls, AgentFails(n, c) \/ CommandTimeout(n, c) \/ AgentKilled(n, c)
      PROVE  GoesOn(m)' /\ files' = files
  <2>1. op \in [Nodes -> [Kinds -> Steps]] /\ c \in Kinds
    BY NodeShape
  <2>2. /\ op' = [op EXCEPT ![n][c] = "error"] \/ op' = [op EXCEPT ![n][c] = "idle"]
        /\ UNCHANGED <<files, box, boot, cli>>
    BY <1>2 DEF AgentFails, CommandTimeout, AgentKilled, Fail, Goto
  <2>3. ASSUME NEW k \in Kinds
        PROVE  op'[m][k] \in {op[m][k], "error", "idle"}
    <3> HIDE DEF Kinds, Steps
    <3> QED
      BY <2>1, <2>2
  <2>4. \A k \in Kinds : /\ op'[m][k] \in StepsOf(k) \cup {"idle", "issued"} \cup Replies
                         /\ op'[m][k] = "issued" => op[m][k] = "issued"
    BY <2>3 DEF GoesOn, Replies
  <2>5. \A k \in {"create", "recover"} : op'[m][k] = "ok" => op[m][k] = "ok"
    BY <2>3 DEF Kinds
  <2> QED
    BY <2>2, <2>4, <2>5 DEF GoesOn
<1> QED
  BY <1>1, <1>2

LEMMA NodesGo ==
  ASSUME PairInv, GoInv, NEW n \in Nodes, NodeActs(n) \/ NodeErrs(n)
  PROVE  GoInv'
<1>1. UNCHANGED <<pairFiles, stage, waiting, row>>
  BY DEF NodeActs, NodeErrs, ctlVars
<1>2. \/ HostStep(n)
      \/ \E c \in Calls : AgentStep(n, c) \/ DockerStep(n, c)
      \/ \E c \in Calls : AgentFails(n, c) \/ CommandTimeout(n, c) \/ AgentKilled(n, c)
  BY RefusesFails DEF NodeActs, NodeErrs, HostStep, DockerStep
<1>3. \A m \in Nodes : GoesOn(m)' /\ files[m] \subseteq files'[m]
  BY <1>2, AgentGoes, DockerGoes, OtherGoes DEF GoInv
<1>4. ASSUME NEW c \in Ctls
      PROVE  Found(c)' /\ Alone(c)' /\ (waiting'[c] # {} => stage'[c] \in Both)
  BY <1>1, <1>3 DEF GoInv, Found, Alone
<1> QED
  BY <1>1, <1>3, <1>4 DEF GoInv

-----------------------------------------------------------------------------
(* What a controller that moves on does to the files of the pair.            *)
Writes(c, s) ==
  \/ /\ pairFiles' \in {pairFiles, pairFiles \cup {"health-ready"}}
     /\ s \in Making => stage[c] \in Making
  \/ /\ pairFiles' = pairFiles \cup {"controller"}
     /\ stage[c] = "publish" /\ s \in Making
  \/ /\ pairFiles' = pairFiles \cup {"pair_dir"}
     /\ "pair_dir" \notin pairFiles /\ s = "create"
  \/ /\ pairFiles' = pairFiles \cup {"start-attempt"}
     /\ stage[c] = "mark" /\ s = "start"

LEMMA MovesGo ==
  ASSUME PairInv, GoInv, NEW c \in Ctls, NEW s \in Stages, NEW w \in SUBSET Nodes, Moves(c, s, w),
         UNCHANGED files, \A n \in Nodes : GoesOn(n)',
         w # {} => s \in Both, Writes(c, s),
         s \in {"publish", "lock", "attach"} \cup Guarded => \A n \in Nodes : "created" \in files[n]
  PROVE  GoInv'
<1>1. /\ stage'[c] = s /\ waiting'[c] = w /\ \A n \in Nodes : row'[c][n] = NoRow
      /\ \A d \in Ctls \ {c} : stage'[d] = stage[d] /\ waiting'[d] = waiting[d] /\ row'[d] = row[d]
  BY Moved, TypedParts
<1>2. \A n \in Nodes : ~row'[c][n].ok
  BY <1>1 DEF NoRow
<1>3. ASSUME NEW d \in Ctls
      PROVE  Found(d)' /\ (waiting'[d] # {} => stage'[d] \in Both)
  BY <1>1, <1>2 DEF GoInv, Found
<1>4. ASSUME NEW d \in Ctls, stage'[d] \in Making
      PROVE  /\ "pair_dir" \in pairFiles' /\ "start-attempt" \notin pairFiles'
             /\ \A e \in Ctls : stage'[e] \in Making => e = d
  <2>1. CASE pairFiles' = pairFiles \cup {"start-attempt"} /\ stage[c] = "mark" /\ s = "start"
    BY <1>1, <1>4, <2>1 DEF GoInv, Alone, Making
  <2>2. CASE /\ pairFiles' = pairFiles \cup {"pair_dir"}
             /\ "pair_dir" \notin pairFiles /\ s = "create"
    <3>1. \A e \in Ctls : stage[e] \notin Making
      BY <2>2 DEF GoInv, Alone
    <3>2. "start-attempt" \notin pairFiles
      BY <2>2 DEF GoInv
    <3> QED
      BY <1>1, <1>4, <2>2, <3>1, <3>2
  <2>3. CASE /\ pairFiles' \in {pairFiles, pairFiles \cup {"health-ready"}, pairFiles \cup {"controller"}}
             /\ s \in Making => stage[c] \in Making
    BY <1>1, <1>4, <2>3 DEF GoInv, Alone
  <2>4. "publish" \in Making
    BY DEF Making
  <2> QED
    BY <2>1, <2>2, <2>3, <2>4 DEF Writes
<1>5. "controller" \in pairFiles' => \A n \in Nodes : "created" \in files'[n]
  BY DEF GoInv, Writes, Found
<1>6. "start-attempt" \in pairFiles' => "pair_dir" \in pairFiles'
  BY DEF GoInv, Writes, Alone, Making
<1> QED
  BY <1>3, <1>4, <1>5, <1>6 DEF GoInv, Alone

\* Its four ways to move.
LEMMA EnterGoes ==
  ASSUME PairInv, GoInv, NEW c \in Ctls, NEW s \in Stages, Enter(c, s), UNCHANGED nodeVars,
         waiting[c] = {}, Writes(c, s),
         s \in {"publish", "lock", "attach"} \cup Guarded => \A n \in Nodes : "created" \in files[n]
  PROVE  GoInv'
<1>1. Moves(c, s, {})
  BY TypedParts DEF Enter, Moves, Set, MoveTypeOK
<1>2. UNCHANGED files /\ \A n \in Nodes : GoesOn(n)'
  BY DEF nodeVars, GoInv, GoesOn
<1> QED
  BY <1>1, <1>2, MovesGo

LEMMA ExitGoes ==
  ASSUME PairInv, GoInv, NEW c \in Ctls, NEW s \in Ended, Exit(c, s), UNCHANGED <<nodeVars, pairFiles>>
  PROVE  GoInv'
<1>1. s \in Stages \ (Making \cup {"publish", "lock", "attach"} \cup Guarded)
  BY DEF Ended, Stages, Making, Guarded
<1>2. Moves(c, s, {})
  BY Forms, TypedParts
<1>3. UNCHANGED files /\ \A n \in Nodes : GoesOn(n)'
  BY DEF nodeVars, GoInv, GoesOn
<1>4. Writes(c, s)
  BY <1>1 DEF Writes
<1> QED
  BY <1>1, <1>2, <1>3, <1>4, MovesGo

LEMMA ReadsGo ==
  ASSUME PairInv, GoInv, NEW c \in Ctls, NEW s \in {"inspect", "aot"}, Moves(c, s, Nodes),
         UNCHANGED nodeVars, stage[c] \in {"lock", "attach"} \cup Guarded,
         pairFiles' \in {pairFiles, pairFiles \cup {"health-ready"}}
  PROVE  GoInv'
<1>1. s \in Stages \ Making /\ s \in Both
  BY DEF Stages, Making, Both
<1>2. UNCHANGED files /\ \A n \in Nodes : GoesOn(n)'
  BY DEF nodeVars, GoInv, GoesOn
<1>3. Writes(c, s) /\ \A n \in Nodes : "created" \in files[n]
  BY <1>1 DEF Writes, GoInv, Found
<1> QED
  BY <1>1, <1>2, <1>3, MovesGo

LEMMA AskGoes ==
  ASSUME PairInv, GoInv, NEW c \in Ctls, NEW call \in Kinds, NEW s \in Stages, Ask(c, call, s),
         s \in Both, Writes(c, s), s \in Guarded => stage[c] \in Guarded
  PROVE  GoInv'
<1>1. /\ Moves(c, s, Nodes) /\ UNCHANGED <<files, box, boot, ram, cli, starts>>
      /\ \A n \in Nodes : op'[n][call] \in {"called", op[n][call]}
      /\ \A n \in Nodes, k \in Kinds \ {call} : op'[n][k] = op[n][k]
  BY AskMoves
<1>2. \A k \in Kinds : "called" \in StepsOf(k)
  BY DEF Kinds, StepsOf
<1>3. ASSUME NEW n \in Nodes
      PROVE  GoesOn(n)'
  <2>1. \A k \in Kinds : op'[n][k] \in {"called", op[n][k]}
    BY <1>1
  <2>2. \A k \in Kinds : /\ op'[n][k] \in StepsOf(k) \cup {"idle", "issued"} \cup Replies
                         /\ op'[n][k] = "issued" => k \in cli[n]
    BY <1>2, <2>1 DEF GoInv, GoesOn
  <2>3. \A k \in {"create", "recover"} : op'[n][k] = "ok" => "created" \in files[n]
    BY <2>1 DEF GoInv, GoesOn, Kinds
  <2> QED
    BY <1>1, <2>2, <2>3 DEF GoInv, GoesOn
<1>4. s \notin {"publish", "lock", "attach"} /\ (s \in Guarded => \A n \in Nodes : "created" \in files[n])
  BY DEF Both, GoInv, Found
<1> QED
  BY <1>1, <1>3, <1>4, MovesGo

-----------------------------------------------------------------------------
(* The steps of a controller.                                                *)
LEMMA StagingGoes ==
  ASSUME PairInv, GoInv, NEW c \in Ctls,
         \/ Execute(c) \/ WatchExisting(c) \/ Preflight(c) \/ MakePair(c) \/ AfterCreate(c)
         \/ AfterRecover(c) \/ Publish(c) \/ TakeLock(c) \/ MarkStart(c)
  PROVE  GoInv'
<1> USE DEF Making, Stages, Guarded, Turn
<1>0. "failed" \in Ended
  BY DEF Ended
<1>1. CASE Execute(c) \/ WatchExisting(c)
  <2>1. waiting[c] = {}
    BY <1>1 DEF Execute, WatchExisting, GoInv, Both
  <2>2. CASE Execute(c)
    BY <2>1, <2>2, EnterGoes DEF Execute, Writes
  <2>3. CASE WatchExisting(c)
    BY <2>1, <2>3, EnterGoes DEF WatchExisting, Writes, GoInv
  <2> QED
    BY <1>1, <2>2, <2>3
<1>2. CASE Preflight(c)
  BY <1>0, <1>2, EnterGoes, ExitGoes DEF Preflight, Writes
<1>3. CASE MakePair(c)
  BY <1>3, AskGoes DEF MakePair, Writes, Kinds, Both
<1>4. CASE AfterCreate(c)
  <2>1. CASE AllOk(c)
    <3>1. \A n \in Nodes : "created" \in files[n]
      BY <1>4, <2>1 DEF AfterCreate, AllOk, GoInv, Found
    <3> QED
      BY <1>4, <2>1, <3>1, EnterGoes DEF AfterCreate, Writes
  <2>2. CASE ~AllOk(c)
    BY <1>4, <2>2, AskGoes DEF AfterCreate, Writes, Kinds, Both
  <2> QED
    BY <2>1, <2>2
<1>5. CASE AfterRecover(c)
  <2>1. CASE AllOk(c)
    <3>1. \A n \in Nodes : "created" \in files[n]
      BY <1>5, <2>1 DEF AfterRecover, AllOk, GoInv, Found
    <3> QED
      BY <1>5, <2>1, <3>1, EnterGoes DEF AfterRecover, Writes
  <2>2. CASE ~AllOk(c)
    BY <1>0, <1>5, <2>2, ExitGoes DEF AfterRecover
  <2> QED
    BY <2>1, <2>2
<1>6. CASE Publish(c)
  <2>1. \A n \in Nodes : "created" \in files[n]
    BY <1>6 DEF Publish, GoInv, Found
  <2> QED
    BY <1>6, <2>1, EnterGoes DEF Publish, Writes
<1>7. CASE TakeLock(c)
  <2>1. /\ stage[c] \in {"lock", "attach"} /\ waiting[c] = {} /\ UNCHANGED <<nodeVars, pairFiles>>
        /\ IF stage[c] = "attach" THEN Observe(c) ELSE Enter(c, "mark")
    BY <1>7 DEF TakeLock, AtLock
  <2>2. \A n \in Nodes : "created" \in files[n]
    BY <2>1 DEF GoInv, Found
  <2>3. CASE stage[c] = "attach"
    BY <2>1, <2>3, Forms, TypedParts, ReadsGo
  <2>4. CASE stage[c] = "lock"
    BY <2>1, <2>2, <2>4, EnterGoes DEF Writes
  <2> QED
    BY <2>1, <2>3, <2>4
<1>8. CASE MarkStart(c)
  BY <1>8, AskGoes DEF MarkStart, Writes, Kinds, Both
<1> QED
  BY <1>1, <1>2, <1>3, <1>4, <1>5, <1>6, <1>7, <1>8

LEMMA WatchGoes ==
  ASSUME PairInv, GoInv, NEW c \in Ctls,
         \/ AfterStart(c) \/ Wake(c) \/ SkipRound(c) \/ SafetyStop(c) \/ QuietRound(c)
         \/ AfterAot(c) \/ AfterStop(c)
  PROVE  GoInv'
<1> USE DEF Turn
<1>0. /\ stage[c] \in Guarded \ Making /\ waiting[c] = {}
      /\ \A n \in Nodes : "created" \in files[n]
  <2>1. stage[c] \in {"start", "sleep", "inspect", "aot", "stop"} /\ waiting[c] = {}
    BY DEF AfterStart, Wake, SkipRound, SafetyStop, QuietRound, AfterAot, AfterStop
  <2> QED
    BY <2>1 DEF GoInv, Found, Guarded, Making
<1>1. /\ "sleep" \in Stages \ Making /\ "stop" \in Stages \ Making /\ "stop" \in Both
      /\ "stop" \in Kinds /\ "done" \in Ended
  BY DEF Stages, Making, Both, Kinds, Ended
<1>2. CASE AfterStart(c) \/ Wake(c)
  BY <1>0, <1>2, Forms, TypedParts, ReadsGo DEF AfterStart, Wake
<1>3. CASE SkipRound(c)
  BY <1>0, <1>1, <1>3, EnterGoes DEF SkipRound, Writes
<1>4. CASE SafetyStop(c)
  BY <1>0, <1>1, <1>4, AskGoes DEF SafetyStop, Writes
<1>5. CASE QuietRound(c)
  <2>1. /\ UNCHANGED <<nodeVars, pairFiles>>
        /\ Enter(c, "sleep") \/ Observe(c) \/ Moves(c, "aot", Nodes)
    BY <1>5 DEF QuietRound, Moves
  <2> QED
    BY <1>0, <1>1, <2>1, EnterGoes, Forms, TypedParts, ReadsGo DEF Writes
<1>6. CASE AfterAot(c)
  <2>1. /\ UNCHANGED nodeVars
        /\ Enter(c, "sleep") \/ Observe(c)
        /\ pairFiles' \in {pairFiles, pairFiles \cup {"health-ready"}}
    BY <1>6 DEF AfterAot
  <2> QED
    BY <1>0, <1>1, <2>1, EnterGoes, Forms, TypedParts, ReadsGo DEF Writes
<1>7. CASE AfterStop(c)
  BY <1>0, <1>1, <1>7, EnterGoes, ExitGoes DEF AfterStop, Writes
<1> QED
  BY <1>2, <1>3, <1>4, <1>5, <1>6, <1>7

LEMMA EndGoes ==
  ASSUME PairInv, GoInv, NEW c \in Ctls,
         \/ PairExists(c) \/ LockBusy(c) \/ Interrupted(c) \/ InterruptedAgain(c) \/ AfterStopAll(c)
         \/ RecordRaises(c) \/ WatchRaises(c) \/ Killed(c)
  PROVE  GoInv'
<1>1. "failed" \in Ended /\ "killed" \in Ended /\ "done" \in Ended
  BY DEF Ended
<1>2. "stopall" \in Stages \ Making /\ "stopall" \in Both /\ "stop" \in Kinds
  BY DEF Stages, Making, Both, Kinds
<1>3. CASE PairExists(c) \/ LockBusy(c) \/ InterruptedAgain(c) \/ RecordRaises(c) \/ Killed(c)
  BY <1>1, <1>3, ExitGoes DEF PairExists, LockBusy, InterruptedAgain, RecordRaises, Killed
<1>4. CASE Interrupted(c) \/ WatchRaises(c)
  <2>1. /\ stage[c] \in Guarded /\ Ask(c, "stop", "stopall") /\ UNCHANGED pairFiles
    BY <1>4 DEF Interrupted, WatchRaises, Guarded
  <2> QED
    BY <1>2, <2>1, AskGoes DEF Writes
<1>5. CASE AfterStopAll(c)
  <2>1. /\ stage[c] \in Guarded /\ UNCHANGED pairFiles
        /\ Ask(c, "stop", "stopall") \/ (Exit(c, "done") /\ UNCHANGED nodeVars)
    BY <1>5 DEF AfterStopAll, Turn, Guarded
  <2> QED
    BY <1>1, <1>2, <2>1, AskGoes, ExitGoes DEF Writes
<1> QED
  BY <1>3, <1>4, <1>5

\* The second signal: stops without the replies, or the end.
LEMMA SecondSigtermGoes ==
  ASSUME PairInv, GoInv, NEW c \in Ctls, SecondSigterm(c)
  PROVE  GoInv'
<1>1. "failed" \in Ended /\ "stopall" \in Stages \ Making /\ "stopall" \in Both /\ "stop" \in Kinds
  BY DEF Ended, Stages, Making, Both, Kinds
<1>2. /\ stage[c] \in Guarded /\ UNCHANGED pairFiles
      /\ Ask(c, "stop", "stopall") \/ (Exit(c, "failed") /\ UNCHANGED nodeVars)
  BY DEF SecondSigterm
<1> QED
  BY <1>1, <1>2, AskGoes, ExitGoes DEF Writes

\* A signal that is only noted, the journal and the network.
LEMMA RestGoes ==
  ASSUME GoInv, UNCHANGED <<nodeVars, pairFiles, stage, waiting, row>>
  PROVE  GoInv'
<1>1. \A n \in Nodes : GoesOn(n)'
  BY DEF GoInv, GoesOn, nodeVars
<1>2. \A c \in Ctls : Found(c)' /\ Alone(c)'
  BY DEF GoInv, Found, Alone, nodeVars
<1> QED
  BY <1>1, <1>2 DEF GoInv, nodeVars

LEMMA SigtermGoes ==
  ASSUME PairInv, GoInv, NEW c \in Ctls, Sigterm(c)
  PROVE  GoInv'
<1>1. "killed" \in Ended
  BY DEF Ended
<1> QED
  BY <1>1, ExitGoes, RestGoes DEF Sigterm

-----------------------------------------------------------------------------
(* Replies.                                                                  *)
LEMMA HearsGo ==
  ASSUME PairInv, GoInv, NEW c \in Ctls, NEW n \in Nodes, CtlHears(c, n)
  PROVE  GoInv'
<1>0. /\ waiting \in [Ctls -> SUBSET Nodes] /\ row \in [Ctls -> [Nodes -> Rows]]
      /\ op \in [Nodes -> [Kinds -> Steps]]
  BY TypedParts, NodeShape DEF MoveTypeOK
<1>1. /\ UNCHANGED <<files, box, boot, cli, pairFiles, stage>>
      /\ waiting' = [waiting EXCEPT ![c] = @ \ {n}]
  BY DEF CtlHears, Reply, CallFails, Inspected, Mapped, ReadFails, Answer, nodeVars
<1>2. op' = op \/ (Asked(c) \in Kinds /\ op' = [op EXCEPT ![n][Asked(c)] = "idle"])
  BY DEF CtlHears, Reply, CallFails, Inspected, Mapped, ReadFails, nodeVars, Goto, Asked, Kinds
<1>3. ASSUME NEW m \in Nodes
      PROVE  GoesOn(m)'
  <2>1. \A k \in Kinds : op'[m][k] \in {op[m][k], "idle"}
    <3> HIDE DEF Kinds, Steps, Asked
    <3> QED
      BY <1>0, <1>2
  <2>2. \A k \in Kinds : /\ op'[m][k] \in StepsOf(k) \cup {"idle", "issued"} \cup Replies
                         /\ op'[m][k] = "issued" => k \in cli[m]
    BY <2>1 DEF GoInv, GoesOn
  <2>3. \A k \in {"create", "recover"} : op'[m][k] = "ok" => "created" \in files[m]
    BY <2>1 DEF GoInv, GoesOn, Kinds
  <2> QED
    BY <1>1, <2>2, <2>3 DEF GoInv, GoesOn
<1>4. PICK r : row' = [row EXCEPT ![c][n] = r]
  BY DEF CtlHears, Reply, CallFails, Inspected, Mapped, ReadFails, Answer
<1>5. stage[c] \in {"create", "recover"} => row'[c][n].ok = FALSE \/ "created" \in files[n]
  <2> SUFFICES ASSUME stage[c] \in {"create", "recover"}
               PROVE  row'[c][n].ok = FALSE \/ "created" \in files[n]
    OBVIOUS
  <2>1. CASE Reply(c, n)
    <3>1. Asked(c) = stage[c]
      BY DEF Asked
    <3>2. CASE op[n][Asked(c)] = "ok"
      BY <3>1, <3>2 DEF GoInv, GoesOn
    <3>3. CASE op[n][Asked(c)] # "ok"
      <4>1. row' = [row EXCEPT ![c][n] = [NoRow EXCEPT !.ok = FALSE]]
        BY <2>1, <3>3 DEF Reply, Answer
      <4> QED
        BY <1>0, <4>1 DEF NoRow
    <3> QED
      BY <3>2, <3>3
  <2>2. CASE CallFails(c, n)
    BY <1>0, <2>2 DEF CallFails, Answer, NoRow
  <2> QED
    BY <2>1, <2>2 DEF CtlHears, Inspected, Mapped, ReadFails
<1>6. \A d \in Ctls, m \in Nodes : d # c \/ m # n => row'[d][m] = row[d][m]
  BY <1>0, <1>4
<1>7. \A d \in Ctls : Found(d)'
  BY <1>1, <1>5, <1>6 DEF GoInv, Found
<1>8. \A d \in Ctls : Alone(d)' /\ (waiting'[d] # {} => waiting[d] # {})
  BY <1>0, <1>1 DEF GoInv, Alone
<1> QED
  BY <1>1, <1>3, <1>7, <1>8 DEF GoInv

-----------------------------------------------------------------------------
LEMMA GoStart == Init => GoInv
<1> SUFFICES ASSUME Init
             PROVE  GoInv
  OBVIOUS
<1>1. ASSUME NEW n \in Nodes
      PROVE  GoesOn(n)
  <2>1. \A k \in Kinds : op[n][k] = "idle"
    BY PairAssumption DEF Init, NodeInit
  <2>2. cli[n] = {} /\ boot[n] = 0
    BY DEF Init, NodeInit
  <2>3. "create" \in Kinds /\ "recover" \in Kinds
    BY DEF Kinds
  <2> QED
    BY <2>1, <2>2, <2>3 DEF GoesOn
<1>2. ASSUME NEW c \in Ctls
      PROVE  Found(c) /\ Alone(c) /\ waiting[c] = {}
  BY DEF Init, Found, Alone, Making, Guarded
<1> QED
  BY <1>1, <1>2 DEF GoInv, Init

LEMMA GoStep == PairInv /\ GoInv /\ [Next]_vars => GoInv'
<1> SUFFICES ASSUME PairInv, GoInv, [Next]_vars
             PROVE  GoInv'
  OBVIOUS
<1>1. CASE UNCHANGED vars
  BY <1>1, RestGoes DEF vars, ctlVars
<1>2. ASSUME NEW c \in Ctls, \/ Execute(c) \/ WatchExisting(c) \/ CtlStep(c)
                             \/ WatchRaises(c) \/ Sigterm(c) \/ SecondSigterm(c) \/ Killed(c)
      PROVE  GoInv'
  BY <1>2, StagingGoes, WatchGoes, EndGoes, SigtermGoes, SecondSigtermGoes
     DEF CtlStep
<1>3. ASSUME NEW n \in Nodes, Partition(n)
      PROVE  GoInv'
  BY <1>3, RestGoes DEF Partition
<1>4. CASE BreakJournal
  BY <1>4, RestGoes DEF BreakJournal
<1> QED
  BY <1>1, <1>2, <1>3, <1>4, NodesGo, HearsGo DEF Next

LEMMA GoInvariant == Spec => []GoInv
  BY GoStart, GoStep, PairInvariant, PTL DEF Spec

(* No controller waits in vain, for any nodes and controllers, whatever      *)
(* processes were killed or forgotten and whatever docker commands outlived  *)
(* them: the safety core of TermEndsController, AlarmStopsPair and           *)
(* RestartIsAnswered, of which TLC adds that the steps are taken.            *)
THEOREM NobodyWaitsInVain == Spec => []NobodyHangs
<1>1. ASSUME PairInv, GoInv
      PROVE  NobodyHangs
  <2> SUFFICES ASSUME NEW c \in Ctls, stage[c] \notin Ended \cup {"off"}
               PROVE  /\ \A n \in waiting[c] : CallMoves(c, n)
                      /\ stage[c] = "mark" => "start-attempt" \notin pairFiles
    BY <1>1 DEF NobodyHangs, GoInv
  <2>1. stage[c] = "mark" => "start-attempt" \notin pairFiles
    BY <1>1 DEF GoInv, Alone, Making
  <2>2. ASSUME NEW n \in waiting[c]
        PROVE  CallMoves(c, n)
    <3>1. n \in Nodes /\ stage[c] \in Both /\ GoesOn(n)
      BY <1>1, TypedParts DEF GoInv, MoveTypeOK
    <3>2. CASE stage[c] \in {"inspect", "aot"}
      BY <1>1, <3>1, <3>2 DEF CallMoves, GoInv, Found, Guarded
    <3>3. CASE stage[c] \notin {"inspect", "aot"}
      <4>1. PICK k \in Kinds : k = Asked(c)
        BY <3>1, <3>3 DEF Both, Asked, Kinds
      <4>2. op[n][k] = "issued" => k \in cli[n]
        BY <3>1 DEF GoesOn
      <4>3. k = "create" /\ k \in cli[n] => box[n] = "none"
        BY <3>1 DEF GoesOn
      <4>4. k = "start" /\ k \in cli[n] => box[n] = "created" /\ boot[n] < MaxBoot
        <5>1. k = "start" /\ k \in cli[n] => box[n] = "created"
          <6>1. Knows(n, k) /\ Kind[k] = k
            BY <1>1, <3>1, NodeShape, TypedParts DEF NodeInv
          <6> QED
            BY <6>1 DEF Knows
        <5> QED
          BY <3>1, <5>1, BootAssumption DEF GoesOn
      <4>5. op[n][k] = "issued" => Serves(n, k)
        BY <4>2, <4>3, <4>4 DEF Serves
      <4>6. op[n][k] \in StepsOf(k) \cup {"idle", "issued"} \cup Replies
        BY <3>1 DEF GoesOn
      <4> QED
        BY <3>1, <3>3, <4>1, <4>5, <4>6 DEF CallMoves
    <3> QED
      BY <3>2, <3>3
  <2> QED
    BY <2>1, <2>2
<1> QED
  BY <1>1, PairInvariant, GoInvariant, PTL

-----------------------------------------------------------------------------
(* What the watcher makes of what it sees.                                   *)

\* Something for which stop_reason would have the pair stopped.
Wrong(c, n) ==
  box[n] # "running" \/ ram[n] = "low" \/ \E b \in base[c] : boot[n] # b[n]

Tells(c, n) ==
  \/ ~row[c][n].up \/ ~row[c][n].well \/ row[c][n].ram = "low"
  \/ \E b \in base[c] : row[c][n].boot # b[n]

\* The round under way has not overlooked the node.
Heeds(c, n) ==
  stage[c] = "inspect" => n \in waiting[c] \/ ~row[c][n].ok \/ Tells(c, n)

\* A round with all its replies ends, and no stop follows.
Passes(c) ==
  /\ stage[c] = "inspect" /\ waiting[c] = {} /\ AllOk(c)
  /\ stage'[c] \in {"sleep", "aot"}

\* What is wrong from the beginning of a round to its end is not overlooked,
\* in whatever order the replies come in and whatever the nodes do meanwhile.
WrongIsHeeded ==
  [][\A c \in Ctls, n \in Nodes :
       Wrong(c, n) /\ Heeds(c, n) => Heeds(c, n)' /\ ~Passes(c)]_vars

\* The worker of the node was started.
Ran(n) == box[n] \in Up \cup {"exited"}

\* "health-ready" stands for workers that ran on both nodes, and a controller
\* that is ready has the boots to which it compares the later ones.
ReadyIsEarned ==
  /\ "health-ready" \in pairFiles => \A n \in Nodes : Ran(n)
  /\ \A c \in Ctls : ready[c] =>
       /\ "health-ready" \in pairFiles
       /\ \E b \in base[c] : \A n \in Nodes : b[n] \in 1..boot[n]

\* What the replies and the recorded boots say of the nodes.
ReadyInv ==
  /\ ReadyIsEarned
  /\ \A n \in Nodes : Ran(n) <=> boot[n] # 0
  /\ \A c \in Ctls, n \in Nodes : row[c][n].ok =>
       /\ stage[c] = "inspect" /\ row[c][n].up => row[c][n].boot \in 1..boot[n]
       /\ stage[c] = "aot" => Ran(n)
  /\ \A c \in Ctls :
       /\ stage[c] = "aot" => base[c] # {}
       /\ \A b \in base[c], n \in Nodes : b[n] \in 1..boot[n]

\* A step of a controller's own begins a new round of replies, or leaves them.
OwnStep(c) ==
  \/ Execute(c) \/ WatchExisting(c) \/ CtlStep(c)
  \/ WatchRaises(c) \/ Sigterm(c) \/ SecondSigterm(c) \/ Killed(c)

Blanks(c) == \A n \in Nodes : ~row'[c][n].ok

LEMMA RowsBlank ==
  ASSUME PairInv, NEW c \in Ctls, Blank(c)
  PROVE  Blanks(c) /\ \A d \in Ctls \ {c} : row'[d] = row[d]
<1>1. row' = [row EXCEPT ![c] = [n \in Nodes |-> NoRow]] /\ row \in [Ctls -> [Nodes -> Rows]]
  BY TypedParts DEF Blank, Set, MoveTypeOK
<1>2. row'[c] = [n \in Nodes |-> NoRow] /\ \A d \in Ctls \ {c} : row'[d] = row[d]
  BY <1>1
<1> QED
  BY <1>2 DEF Blanks, NoRow

LEMMA OwnSteps ==
  ASSUME PairInv, NEW c \in Ctls, OwnStep(c)
  PROVE  /\ UNCHANGED <<box, boot, ram>>
         /\ Blank(c) \/ UNCHANGED <<stage, waiting, row, base>>
<1> USE DEF Enter, Exit, Observe, Ask, nodeVars, watchVars
<1>1. CASE Execute(c) \/ WatchExisting(c) \/ Preflight(c) \/ MakePair(c) \/ PairExists(c)
  BY <1>1 DEF Execute, WatchExisting, Preflight, MakePair, PairExists
<1>2. CASE AfterCreate(c) \/ AfterRecover(c) \/ Publish(c)
  BY <1>2 DEF AfterCreate, AfterRecover, Publish
<1>3. CASE TakeLock(c) \/ LockBusy(c) \/ MarkStart(c) \/ AfterStart(c) \/ Wake(c)
  BY <1>3 DEF TakeLock, LockBusy, MarkStart, AfterStart, Wake
<1>4. CASE SkipRound(c) \/ SafetyStop(c) \/ QuietRound(c)
  BY <1>4 DEF SkipRound, SafetyStop, QuietRound
<1>5. CASE AfterAot(c) \/ AfterStop(c) \/ Interrupted(c) \/ InterruptedAgain(c)
  BY <1>5 DEF AfterAot, AfterStop, Interrupted, InterruptedAgain
<1>6. CASE AfterStopAll(c) \/ RecordRaises(c) \/ WatchRaises(c) \/ Killed(c)
  BY <1>6 DEF AfterStopAll, RecordRaises, WatchRaises, Killed
<1>7. CASE Sigterm(c) \/ SecondSigterm(c)
  BY <1>7 DEF Sigterm, SecondSigterm
<1> QED
  BY <1>1, <1>2, <1>3, <1>4, <1>5, <1>6, <1>7 DEF OwnStep, CtlStep

\* Of those only the end of a quiet round records boots, and only the AOT maps
\* of both nodes make the pair ready.
LEMMA OwnRecords ==
  ASSUME PairInv, NEW c \in Ctls, OwnStep(c)
  PROVE  \/ QuietRound(c)
         \/ AfterAot(c)
         \/ /\ UNCHANGED <<base, ready>>
            /\ "health-ready" \in pairFiles' <=> "health-ready" \in pairFiles
            /\ stage'[c] = "aot" => stage[c] = "aot"
            /\ stage'[c] = "sleep" =>
                 stage[c] \in {"sleep", "stop"} \/ (stage[c] = "inspect" /\ ~AllOk(c))
<1>0. stage \in [Ctls -> Stages]
  BY TypedParts DEF MoveTypeOK
<1> USE DEF Enter, Exit, Observe, Ask, Set, Ended, Turn, watchVars
<1>1. CASE Execute(c) \/ WatchExisting(c) \/ Preflight(c) \/ PairExists(c)
  BY <1>0, <1>1 DEF Execute, WatchExisting, Preflight, PairExists
<1>2. CASE MakePair(c) \/ Publish(c) \/ MarkStart(c)
  BY <1>0, <1>2 DEF MakePair, Publish, MarkStart
<1>3. CASE AfterCreate(c) \/ AfterRecover(c)
  BY <1>0, <1>3 DEF AfterCreate, AfterRecover
<1>4. CASE TakeLock(c) \/ LockBusy(c) \/ AfterStart(c) \/ Wake(c)
  BY <1>0, <1>4 DEF TakeLock, LockBusy, AfterStart, Wake
<1>5. CASE SkipRound(c) \/ SafetyStop(c)
  BY <1>0, <1>5 DEF SkipRound, SafetyStop
<1>6. CASE AfterStop(c) \/ Interrupted(c) \/ InterruptedAgain(c)
  BY <1>0, <1>6 DEF AfterStop, Interrupted, InterruptedAgain
<1>7. CASE AfterStopAll(c) \/ RecordRaises(c) \/ WatchRaises(c) \/ Killed(c)
  BY <1>0, <1>7 DEF AfterStopAll, RecordRaises, WatchRaises, Killed
<1>8. CASE Sigterm(c) \/ SecondSigterm(c)
  BY <1>0, <1>8 DEF Sigterm, SecondSigterm
<1> QED
  BY <1>1, <1>2, <1>3, <1>4, <1>5, <1>6, <1>7, <1>8 DEF OwnStep, CtlStep

\* It is its own: the other controllers stay where they are.
LEMMA OtherStays ==
  ASSUME PairInv, NEW d \in Ctls, OwnStep(d), NEW c \in Ctls \ {d}
  PROVE  stage'[c] = stage[c] /\ waiting'[c] = waiting[c] /\ row'[c] = row[c] /\ base'[c] = base[c]
<1>0. /\ stage \in [Ctls -> Stages] /\ waiting \in [Ctls -> SUBSET Nodes]
      /\ base \in [Ctls -> SUBSET [Nodes -> 0..MaxBoot]]
  BY TypedParts DEF MoveTypeOK, RestTypeOK
<1>1. row'[c] = row[c]
  BY OwnSteps, RowsBlank
<1> HIDE DEF Stages
<1>2. base' = base \/ base' = [base EXCEPT ![d] = IF @ = {} THEN {Boots(d)} ELSE @]
  BY OwnRecords DEF QuietRound, AfterAot
<1>3. (\E s : Set(stage, d, s)) /\ (UNCHANGED waiting \/ \E w : Set(waiting, d, w))
  <2> USE DEF Enter, Exit, Observe, Ask
  <2>1. CASE Execute(d) \/ WatchExisting(d) \/ Preflight(d) \/ MakePair(d) \/ PairExists(d)
    BY <2>1 DEF Execute, WatchExisting, Preflight, MakePair, PairExists
  <2>2. CASE AfterCreate(d) \/ AfterRecover(d) \/ Publish(d)
    BY <2>2 DEF AfterCreate, AfterRecover, Publish
  <2>3. CASE TakeLock(d) \/ LockBusy(d) \/ MarkStart(d) \/ AfterStart(d) \/ Wake(d)
    BY <2>3 DEF TakeLock, LockBusy, MarkStart, AfterStart, Wake
  <2>4. CASE SkipRound(d) \/ SafetyStop(d) \/ QuietRound(d)
    BY <2>4 DEF SkipRound, SafetyStop, QuietRound
  <2>5. CASE AfterAot(d) \/ AfterStop(d) \/ Interrupted(d) \/ InterruptedAgain(d)
    BY <2>5 DEF AfterAot, AfterStop, Interrupted, InterruptedAgain
  <2>6. CASE AfterStopAll(d) \/ RecordRaises(d) \/ WatchRaises(d) \/ Killed(d)
    BY <2>6 DEF AfterStopAll, RecordRaises, WatchRaises, Killed
  <2>7. CASE Sigterm(d) /\ UNCHANGED stage
    BY <1>0, <2>7 DEF Sigterm, Set
  <2>8. CASE SecondSigterm(d) \/ (Sigterm(d) /\ stage' # stage)
    BY <2>8 DEF Sigterm, SecondSigterm
  <2> QED
    BY <2>1, <2>2, <2>3, <2>4, <2>5, <2>6, <2>7, <2>8 DEF OwnStep, CtlStep
<1> QED
  BY <1>0, <1>1, <1>2, <1>3 DEF Set

\* A reply.
LEMMA HearsTells ==
  ASSUME PairInv, NEW c \in Ctls, NEW n \in Nodes, CtlHears(c, n)
  PROVE  /\ UNCHANGED <<pairFiles, stage, base, ready, box, boot, ram>>
         /\ waiting' = [waiting EXCEPT ![c] = @ \ {n}]
         /\ \A d \in Ctls, m \in Nodes : d # c \/ m # n => row'[d][m] = row[d][m]
         /\ stage[c] = "inspect" /\ row'[c][n].ok =>
              /\ row'[c][n].up = (box[n] \in Up) /\ row'[c][n].well = (box[n] = "running")
              /\ row'[c][n].boot = boot[n] /\ row'[c][n].ram = ram[n]
         /\ stage[c] = "aot" /\ row'[c][n].ok => box[n] = "running"
<1>0. row \in [Ctls -> [Nodes -> Rows]]
  BY TypedParts DEF MoveTypeOK
<1>1. PICK r : /\ row' = [row EXCEPT ![c][n] = r]
               /\ Answer(c, n, r) /\ UNCHANGED <<box, boot, ram>>
               /\ stage[c] = "inspect" => r = NoRow \/
                    r = [ok |-> TRUE, up |-> box[n] \in Up, well |-> box[n] = "running",
                         boot |-> boot[n], ram |-> ram[n]]
               /\ stage[c] = "aot" => r = NoRow \/ r = [NoRow EXCEPT !.ok = box[n] = "running"]
  <2>1. CASE Reply(c, n)
    BY <2>1 DEF Reply, Answer
  <2>2. CASE CallFails(c, n)
    BY <2>2 DEF CallFails, Answer, nodeVars
  <2>3. CASE Inspected(c, n)
    BY <2>3 DEF Inspected, Answer, nodeVars
  <2>4. CASE Mapped(c, n)
    BY <2>4 DEF Mapped, Answer, nodeVars
  <2>5. CASE ReadFails(c, n)
    BY <2>5 DEF ReadFails, Answer, nodeVars
  <2> QED
    BY <2>1, <2>2, <2>3, <2>4, <2>5 DEF CtlHears
<1>2. row'[c][n] = r /\ \A d \in Ctls, m \in Nodes : d # c \/ m # n => row'[d][m] = row[d][m]
  BY <1>0, <1>1
<1>3. ~NoRow.ok
  BY DEF NoRow
<1>4. /\ stage[c] = "inspect" /\ r.ok =>
           /\ r.up = (box[n] \in Up) /\ r.well = (box[n] = "running")
           /\ r.boot = boot[n] /\ r.ram = ram[n]
      /\ stage[c] = "aot" /\ r.ok => box[n] = "running"
  <2>1. r.ok => r # NoRow
    BY <1>3
  <2>2. ASSUME stage[c] = "inspect", r.ok
        PROVE  /\ r.up = (box[n] \in Up) /\ r.well = (box[n] = "running")
               /\ r.boot = boot[n] /\ r.ram = ram[n]
    <3>1. r = [ok |-> TRUE, up |-> box[n] \in Up, well |-> box[n] = "running",
               boot |-> boot[n], ram |-> ram[n]]
      BY <1>1, <2>1, <2>2, Zenon
    <3> QED
      BY <3>1, Zenon
  <2>3. ASSUME stage[c] = "aot", r.ok
        PROVE  box[n] = "running"
    <3>1. r = [NoRow EXCEPT !.ok = box[n] = "running"]
      BY <1>1, <2>1, <2>3, Zenon
    <3>2. r = [ok |-> box[n] = "running", up |-> NoRow.up, well |-> NoRow.well,
               boot |-> NoRow.boot, ram |-> NoRow.ram]
      BY <3>1 DEF NoRow
    <3>3. r.ok = (box[n] = "running")
      BY <3>2, Zenon
    <3> QED
      BY <2>3, <3>3, Zenon
  <2> QED
    BY <2>2, <2>3, Zenon
<1>5. /\ UNCHANGED <<pairFiles, stage, base, ready>>
      /\ waiting' = [waiting EXCEPT ![c] = @ \ {n}]
  BY <1>1 DEF Answer
<1> QED
  BY <1>1, <1>2, <1>4, <1>5

(* A round does not pass over what is wrong, whatever the nodes do while it  *)
(* is under way: the safety core of LowRamIsAnswered.                        *)
THEOREM WrongsAreHeeded == Spec => WrongIsHeeded
<1>1. PairInv /\ [Next]_vars =>
        [\A c \in Ctls, n \in Nodes :
           Wrong(c, n) /\ Heeds(c, n) => Heeds(c, n)' /\ ~Passes(c)]_vars
  <2> SUFFICES ASSUME PairInv, Next, NEW c \in Ctls, NEW n \in Nodes, Wrong(c, n), Heeds(c, n)
               PROVE  Heeds(c, n)' /\ ~Passes(c)
    OBVIOUS
  <2>0. /\ base \in [Ctls -> SUBSET [Nodes -> 0..MaxBoot]] /\ stage \in [Ctls -> Stages]
        /\ waiting \in [Ctls -> SUBSET Nodes]
    BY TypedParts DEF RestTypeOK, MoveTypeOK
  <2>1. ASSUME OwnStep(c)
        PROVE  Heeds(c, n)' /\ ~Passes(c)
    <3>1. Heeds(c, n)'
      <4>1. CASE Blank(c)
        BY <4>1, RowsBlank DEF Blanks, Heeds
      <4>2. CASE UNCHANGED <<stage, waiting, row, base>>
        BY <4>2 DEF Heeds, Tells
      <4> QED
        BY <2>1, <4>1, <4>2, OwnSteps
    <3>2. ~Passes(c)
      <4> SUFFICES ASSUME Passes(c)
                   PROVE  FALSE
        OBVIOUS
      <4>1. stage[c] = "inspect" /\ waiting[c] = {} /\ AllOk(c) /\ stage'[c] \in {"sleep", "aot"}
        BY DEF Passes
      <4>2. QuietRound(c)
        BY <2>1, <4>1, OwnRecords DEF AfterAot, Turn
      <4>3. Tells(c, n)
        BY <4>1 DEF Heeds, AllOk
      <4> QED
        BY <4>2, <4>3 DEF QuietRound, Alarm, Tells
    <3> QED
      BY <3>1, <3>2
  <2>2. ASSUME NEW d \in Ctls \ {c}, OwnStep(d)
        PROVE  Heeds(c, n)' /\ ~Passes(c)
    <3>1. stage'[c] = stage[c] /\ waiting'[c] = waiting[c] /\ row'[c] = row[c] /\ base'[c] = base[c]
      BY <2>0, <2>2, OtherStays
    <3> QED
      BY <3>1 DEF Heeds, Tells, Passes
  <2>3. ASSUME NEW d \in Ctls, NEW m \in Nodes, CtlHears(d, m)
        PROVE  Heeds(c, n)' /\ ~Passes(c)
    <3>1. stage' = stage /\ base' = base
      BY <2>3, HearsTells
    <3>2. CASE d = c /\ m = n
      <4>1. stage[c] = "inspect" /\ row'[c][n].ok => Tells(c, n)'
        <5> SUFFICES ASSUME stage[c] = "inspect", row'[c][n].ok
                     PROVE  Tells(c, n)'
          OBVIOUS
        <5>1. /\ row'[c][n].up = (box[n] \in Up) /\ row'[c][n].well = (box[n] = "running")
              /\ row'[c][n].boot = boot[n] /\ row'[c][n].ram = ram[n]
          BY <2>3, <3>2, HearsTells, Zenon
        <5>2. CASE box[n] # "running"
          BY <5>1, <5>2, Zenon DEF Tells
        <5>3. CASE ram[n] = "low"
          BY <5>1, <5>3, Zenon DEF Tells
        <5>4. CASE \E b \in base[c] : boot[n] # b[n]
          BY <3>1, <5>1, <5>4, Zenon DEF Tells
        <5> QED
          BY <5>2, <5>3, <5>4, Zenon DEF Wrong
      <4> QED
        BY <3>1, <4>1 DEF Heeds, Passes
    <3>3. CASE d # c \/ m # n
      <4>1. row'[c][n] = row[c][n]
        BY <2>3, <3>3, HearsTells
      <4>2. n \in waiting[c] => n \in waiting'[c]
        BY <2>0, <2>3, <3>3, HearsTells
      <4> QED
        BY <3>1, <4>1, <4>2 DEF Heeds, Tells, Passes
    <3> QED
      BY <3>2, <3>3
  <2>4. ASSUME UNCHANGED <<stage, waiting, row, base>>
        PROVE  Heeds(c, n)' /\ ~Passes(c)
    BY <2>4 DEF Heeds, Tells, Passes
  <2>5. ASSUME NEW m \in Nodes, NodeActs(m) \/ NodeErrs(m) \/ Partition(m)
        PROVE  UNCHANGED <<stage, waiting, row, base>>
    BY <2>5 DEF NodeActs, NodeErrs, Partition, ctlVars, watchVars
  <2>6. BreakJournal => UNCHANGED <<stage, waiting, row, base>>
    BY DEF BreakJournal, watchVars
  <2> QED
    BY <2>1, <2>2, <2>3, <2>4, <2>5, <2>6 DEF Next, OwnStep
<1> QED
  BY <1>1, PairInvariant, PTL DEF Spec, WrongIsHeeded

\* Boots only count up, and tell the workers that were started.
Counted(m) == (Ran(m) <=> boot[m] # 0) =>
  (Ran(m)' <=> boot'[m] # 0) /\ boot[m] <= boot'[m] /\ (Ran(m) => Ran(m)')

LEMMA SameBoots == ASSUME PairInv, UNCHANGED <<box, boot>>, NEW m \in Nodes PROVE Counted(m)
  BY TypedParts DEF Counted, Ran, NodeTypeOK

LEMMA NodeCounts ==
  ASSUME PairInv, NEW n \in Nodes, NodeActs(n) \/ NodeErrs(n), NEW m \in Nodes
  PROVE  Counted(m)
<1>0. /\ box \in [Nodes -> BoxStates] /\ boot \in [Nodes -> Nat]
      /\ \A c \in Calls : Knows(m, c)
  BY TypedParts DEF NodeTypeOK, NodeInv
<1>1. ASSUME NEW c \in Calls, AgentStep(n, c)
      PROVE  Counted(m)
  <2>1. UNCHANGED <<box, boot>>
    BY <1>1 DEF AgentStep, CreateAdmit, CreateRequest, CreateAttempt, CreateRecord, RecoverKnown,
       RecoverFind, RecoverRecord, StartCheck, StartCommit, StartReply, StopInspect, StopConfirm
  <2> QED
    BY <2>1, SameBoots
<1>2. ASSUME NEW c \in Calls, \/ AgentFails(n, c) \/ CommandTimeout(n, c) \/ AgentKilled(n, c)
                              \/ DockerRefuses(n, c)
      PROVE  Counted(m)
  <2>1. UNCHANGED <<box, boot>>
    BY <1>2 DEF AgentFails, Fail, CommandTimeout, AgentKilled, DockerRefuses
  <2> QED
    BY <2>1, SameBoots
<1>3. ASSUME NEW c \in Calls, DockerCreates(n, c)
      PROVE  Counted(m)
  <2>1. boot' = boot /\ box[n] = "none" /\ box' = [box EXCEPT ![n] = "created"]
    BY <1>3 DEF DockerCreates
  <2> QED
    BY <1>0, <2>1 DEF Counted, Ran, Up
<1>4. ASSUME NEW c \in Calls, DockerStarts(n, c)
      PROVE  Counted(m)
  <2>1. /\ box' = [box EXCEPT ![n] = "running"] /\ boot' = [boot EXCEPT ![n] = @ + 1]
    BY <1>4 DEF DockerStarts
  <2> QED
    BY <1>0, <2>1 DEF Counted, Ran, Up
<1>5. ASSUME NEW c \in Calls, DockerStops(n, c)
      PROVE  Counted(m)
  <2>1. boot' = boot /\ box' = [box EXCEPT ![n] = IF @ \in Up THEN "exited" ELSE @]
    BY <1>5 DEF DockerStops
  <2> QED
    BY <1>0, <2>1 DEF Counted, Ran, Up
<1>6. ASSUME HostStep(n)
      PROVE  Counted(m)
  <2>1. CASE WorkerExits(n) \/ WorkerSickens(n)
    <3>1. boot' = boot /\ box[n] \in Up
          /\ (box' = [box EXCEPT ![n] = "exited"] \/ box' = [box EXCEPT ![n] = "sick"])
      BY <2>1 DEF WorkerExits, WorkerSickens, Up
    <3> QED
      BY <1>0, <3>1 DEF Counted, Ran, Up
  <2>2. CASE ForeignRestart(n)
    <3>1. /\ box' = [box EXCEPT ![n] = "running"] /\ boot' = [boot EXCEPT ![n] = @ + 1]
      BY <2>2 DEF ForeignRestart
    <3> QED
      BY <1>0, <3>1 DEF Counted, Ran, Up
  <2>3. CASE RamDrops(n) \/ RamRecovers(n)
    <3>1. UNCHANGED <<box, boot>>
      BY <2>3 DEF RamDrops, RamRecovers
    <3> QED
      BY <3>1, SameBoots
  <2> QED
    BY <1>6, <2>1, <2>2, <2>3 DEF HostStep
<1> QED
  BY <1>1, <1>2, <1>3, <1>4, <1>5, <1>6, RefusesFails DEF NodeActs, NodeErrs, HostStep

LEMMA ReadyStart == Init => ReadyInv
  BY DEF Init, NodeInit, ReadyInv, ReadyIsEarned, Ran, Up, NoRow

\* A step that leaves the replies and the records of the controllers.
LEMMA ReadyNode ==
  ASSUME PairInv, PairInv', ReadyInv, UNCHANGED <<pairFiles, stage, row, base, ready>>,
         \A m \in Nodes : Counted(m)
  PROVE  ReadyInv'
<1>1. \A m \in Nodes : /\ Ran(m)' <=> boot'[m] # 0
                       /\ Ran(m) => Ran(m)'
                       /\ boot[m] <= boot'[m] /\ boot[m] \in Nat /\ boot'[m] \in Nat
  BY TypedParts DEF Counted, ReadyInv, PairInv, TypeOK, NodeTypeOK
<1>2. \A m \in Nodes : \A k \in 1..boot[m] : k \in 1..boot'[m]
  BY <1>1
<1>3. ReadyIsEarned'
  BY <1>1, <1>2 DEF ReadyInv, ReadyIsEarned
<1> QED
  BY <1>1, <1>2, <1>3 DEF ReadyInv

\* The controllers' own steps.
LEMMA ReadyOwn ==
  ASSUME PairInv, ReadyInv, NEW c \in Ctls, OwnStep(c)
  PROVE  ReadyInv'
<1>0. /\ stage \in [Ctls -> Stages] /\ ready \in [Ctls -> BOOLEAN]
      /\ base \in [Ctls -> SUBSET [Nodes -> 0..MaxBoot]]
  BY TypedParts DEF RestTypeOK, MoveTypeOK
<1>1. UNCHANGED <<box, boot>> /\ (\A n \in Nodes : Ran(n)' <=> Ran(n))
  BY OwnSteps DEF Ran
<1>2. \A d \in Ctls \ {c} : /\ stage'[d] = stage[d] /\ row'[d] = row[d] /\ base'[d] = base[d]
  BY OtherStays
<1>3. \A n \in Nodes : row'[c][n].ok => row'[c][n] = row[c][n] /\ stage'[c] = stage[c]
  BY OwnSteps, RowsBlank DEF Blanks
<1>4. \A d \in Ctls, n \in Nodes : row'[d][n].ok =>
        /\ stage'[d] = "inspect" /\ row'[d][n].up => row'[d][n].boot \in 1..boot'[n]
        /\ stage'[d] = "aot" => Ran(n)'
  BY <1>1, <1>2, <1>3 DEF ReadyInv
<1>5. CASE QuietRound(c)
  <2>1. /\ base' = [base EXCEPT ![c] = IF @ = {} THEN {Boots(c)} ELSE @]
        /\ stage[c] = "inspect" /\ AllOk(c) /\ ~Alarm(c) /\ UNCHANGED <<pairFiles, ready>>
    BY <1>5 DEF QuietRound, Turn
  <2>2. base'[c] = (IF base[c] = {} THEN {Boots(c)} ELSE base[c])
    BY <1>0, <2>1
  <2>3. \A n \in Nodes : Boots(c)[n] \in 1..boot[n]
    BY <2>1 DEF ReadyInv, AllOk, Alarm, Boots
  <2>4. ASSUME NEW d \in Ctls, NEW b \in base'[d], NEW n \in Nodes
        PROVE  b[n] \in 1..boot[n]
    <3>1. b = Boots(c) \/ b \in base[d]
      BY <1>2, <2>2
    <3>2. \A a \in base[d] : a[n] \in 1..boot[n]
      BY DEF ReadyInv
    <3> QED
      BY <2>3, <3>1, <3>2
  <2>5. \A d \in Ctls : base[d] \subseteq base'[d] /\ (d = c \/ base[d] # {} => base'[d] # {})
    <3>1. base'[c] # {} /\ base[c] \subseteq base'[c]
      BY <2>2
    <3> QED
      BY <1>2, <3>1
  <2>6. ReadyIsEarned'
    BY <1>1, <2>1, <2>5 DEF ReadyInv, ReadyIsEarned
  <2> QED
    BY <1>1, <1>2, <1>4, <2>4, <2>5, <2>6 DEF ReadyInv
<1>6. CASE AfterAot(c)
  <2>1. /\ base' = base /\ stage[c] = "aot" /\ stage'[c] # "aot"
        /\ \/ UNCHANGED <<pairFiles, ready>>
           \/ /\ AllOk(c) /\ pairFiles' = pairFiles \cup {"health-ready"}
              /\ ready' = [ready EXCEPT ![c] = TRUE]
    BY <1>0, <1>6 DEF AfterAot, Turn, Enter, Observe, Set
  <2>2. \A d \in Ctls : ready'[d] => ready[d] \/ (d = c /\ AllOk(c) /\ "health-ready" \in pairFiles')
    BY <1>0, <2>1
  <2>3. "health-ready" \in pairFiles' => \A n \in Nodes : Ran(n)
    BY <2>1 DEF ReadyInv, ReadyIsEarned, AllOk
  <2>4. \A d \in Ctls : ready'[d] => "health-ready" \in pairFiles' /\ base[d] # {}
    BY <2>1, <2>2 DEF ReadyInv, ReadyIsEarned
  <2>5. ReadyIsEarned'
    BY <1>1, <2>1, <2>3, <2>4 DEF ReadyInv, ReadyIsEarned
  <2> QED
    BY <1>1, <1>2, <1>4, <2>1, <2>5 DEF ReadyInv
<1>7. CASE /\ UNCHANGED <<base, ready>>
           /\ "health-ready" \in pairFiles' <=> "health-ready" \in pairFiles
           /\ stage'[c] = "aot" => stage[c] = "aot"
  <2>1. ReadyIsEarned'
    BY <1>1, <1>7 DEF ReadyInv, ReadyIsEarned
  <2> QED
    BY <1>1, <1>2, <1>4, <1>7, <2>1 DEF ReadyInv
<1> QED
  BY <1>5, <1>6, <1>7, OwnRecords, Zenon

LEMMA ReadyHears ==
  ASSUME PairInv, ReadyInv, NEW c \in Ctls, NEW n \in Nodes, CtlHears(c, n)
  PROVE  ReadyInv'
<1>1. /\ UNCHANGED <<pairFiles, stage, base, ready, box, boot>>
      /\ \A d \in Ctls, m \in Nodes : d # c \/ m # n => row'[d][m] = row[d][m]
      /\ stage[c] = "inspect" /\ row'[c][n].ok =>
           row'[c][n].up = (box[n] \in Up) /\ row'[c][n].boot = boot[n]
      /\ stage[c] = "aot" /\ row'[c][n].ok => box[n] = "running"
  BY HearsTells
<1>2. boot[n] \in Nat
  BY TypedParts DEF NodeTypeOK
<1>3. stage[c] = "inspect" /\ row'[c][n].ok /\ row'[c][n].up => row'[c][n].boot \in 1..boot[n]
  <2>1. boot[n] # 0 <=> box[n] \in Up \cup {"exited"}
    BY DEF ReadyInv, Ran
  <2>2. box[n] \in Up => boot[n] \in 1..boot[n]
    BY <1>2, <2>1
  <2> QED
    BY <1>1, <2>2, Zenon
<1>4. stage[c] = "aot" /\ row'[c][n].ok => Ran(n)
  BY <1>1 DEF Ran, Up
<1>5. ReadyIsEarned' /\ \A m \in Nodes : Ran(m)' <=> Ran(m)
  BY <1>1 DEF ReadyInv, ReadyIsEarned, Ran
<1> QED
  BY <1>1, <1>3, <1>4, <1>5 DEF ReadyInv

(* The pair is declared ready only when both workers have run, and from then *)
(* on the boots of both are compared with recorded ones.                     *)
THEOREM ReadyAfterBothRan == Spec => []ReadyIsEarned
<1>1. PairInv /\ PairInv' /\ ReadyInv /\ [Next]_vars => ReadyInv'
  <2> SUFFICES ASSUME PairInv, PairInv', ReadyInv, [Next]_vars
               PROVE  ReadyInv'
    OBVIOUS
  <2>1. ASSUME NEW n \in Nodes, NodeActs(n) \/ NodeErrs(n)
        PROVE  ReadyInv'
    <3>1. UNCHANGED <<pairFiles, stage, row, base, ready>>
      BY <2>1 DEF NodeActs, NodeErrs, ctlVars
    <3> QED
      BY <2>1, <3>1, NodeCounts, ReadyNode
  <2>2. ASSUME NEW n \in Nodes, Partition(n) \/ BreakJournal \/ UNCHANGED vars
        PROVE  ReadyInv'
    <3>1. UNCHANGED <<pairFiles, stage, row, base, ready, box, boot>>
      BY <2>2 DEF Partition, BreakJournal, vars, nodeVars, ctlVars, watchVars
    <3> QED
      BY <3>1, SameBoots, ReadyNode
  <2>3. Head \in Nodes
    BY PairAssumption
  <2> QED
    BY <2>1, <2>2, <2>3, ReadyOwn, ReadyHears DEF Next, OwnStep
<1>2. ReadyInv => ReadyIsEarned
  BY DEF ReadyInv
<1> QED
  BY <1>1, <1>2, ReadyStart, PairInvariant, PTL DEF Spec
=============================================================================
