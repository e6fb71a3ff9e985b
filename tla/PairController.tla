--------------------------- MODULE PairController ---------------------------
(***************************************************************************)
(* The pair controller (release/runtime/tools/portable_pair.py): it stages *)
(* and starts one fresh pair, one container on each node, and stays as its *)
(* RAM watcher.  Several controllers can exist for one run: one that       *)
(* executes it, one that was killed, one that reattaches with              *)
(* --watch-existing.  They share the pair directory and its watch lock.    *)
(* Each runs an action on both nodes in parallel and goes on when both     *)
(* replies are in; a call that exceeds its timeout counts as an error,     *)
(* whatever its process is still doing on the node.                        *)
(***************************************************************************)
EXTENDS PairNode

CONSTANTS
  Ctls,      \* controller processes of the run
  Executors, \* those of them that may be run with --execute
  Attachers, \* those that may be run with --watch-existing
  NoCtl,     \* the watch lock is free
  Head,      \* node 0, which serves the API
  Faults,    \* what may go wrong in this instance
  MaxErrors  \* bound on agent errors and on calls and commands given up

AllFaults == {"agent", "kill", "journal", "raise", "partition",
              "exit", "sick", "restart", "ram", "deadline", "term", "term2"}

ASSUME PairAssumption ==
  /\ Calls = Kinds /\ Kind = [k \in Kinds |-> k]
  /\ Head \in Nodes
  /\ Executors \subseteq Ctls /\ Attachers \subseteq Ctls
  /\ NoCtl \notin Ctls
  /\ Faults \subseteq AllFaults
  /\ MaxErrors \in Nat

PairFiles == {"pair_dir", "controller", "start-attempt", "health-ready"}

Stages == {"off", "preflight", "mkdir", "create", "recover", "publish", "lock", "attach",
           "mark", "start", "inspect", "stop", "aot", "sleep", "stopall"} \cup
          {"done", "failed", "killed"}
Ended == {"done", "failed", "killed"}
\* The only ways to a running worker that nobody watches: the controller killed
\* outright, its journal unwritable, a signal while it already stops the pair or
\* a second one while a start call is out, a start that was given up while
\* docker start was still to come.
Causes == {"none", "killed", "journal", "second signal", "lost start"}

\* Between the installation of the SIGTERM handler and the release of the lock.
Guarded == {"mark", "start", "inspect", "stop", "aot", "sleep", "stopall"}

\* A node is out of reach at most once in a run, while the pair is guarded
\* (bound OneOutage).
Links == {"up", "down", "healed"}

NoRow == [ok |-> FALSE, up |-> FALSE, well |-> FALSE, boot |-> 0, ram |-> "ok"]
Rows == [ok : BOOLEAN, up : BOOLEAN, well : BOOLEAN, boot : 0..MaxBoot,
         ram : {"ok", "low"}]

VARIABLES
  pairFiles,  \* the pair directory on node 0
  lock,       \* holder of watch.lock
  journal,    \* whether events.jsonl and the controller log can be written
  reach,      \* [Nodes -> Links]: the controller's host reaches the node
  stage,      \* [Ctls -> Stages]: where each controller is
  waiting,    \* [Ctls -> SUBSET Nodes]: replies of the current both() not in
  row,        \* [Ctls -> [Nodes -> Rows]]: the replies that are
  base,       \* [Ctls -> SUBSET [Nodes -> boots]]: started_at, {} is None
  latched,    \* [Ctls -> BOOLEAN]: pending_reason is set
  ready,      \* [Ctls -> BOOLEAN]: ready
  term,       \* [Ctls -> BOOLEAN]: a signal arrived, KeyboardInterrupt is due
  errors,     \* agent errors, calls and docker commands given up so far
  cause       \* history: the first thing that can leave workers unwatched

ctlVars == <<pairFiles, lock, journal, reach, stage, waiting, row, base, latched,
             ready, term, errors, cause>>
vars == <<nodeVars, ctlVars>>
watchVars == <<base, latched, ready, errors>>

\* The state is well typed, and one controller at most is between taking the
\* watch lock and its release.
TypeOK ==
  /\ NodeTypeOK
  /\ pairFiles \subseteq PairFiles
  /\ lock \in Ctls \cup {NoCtl}
  /\ journal \in {"ok", "broken"}
  /\ reach \in [Nodes -> Links]
  /\ stage \in [Ctls -> Stages]
  /\ waiting \in [Ctls -> SUBSET Nodes]
  /\ row \in [Ctls -> [Nodes -> Rows]]
  /\ base \in [Ctls -> SUBSET [Nodes -> 0..MaxBoot]]
  /\ \A c \in Ctls : Cardinality(base[c]) <= 1
  /\ latched \in [Ctls -> BOOLEAN]
  /\ ready \in [Ctls -> BOOLEAN]
  /\ term \in [Ctls -> BOOLEAN]
  /\ errors \in 0..MaxErrors
  /\ cause \in Causes
  /\ \A c \in Ctls : lock = c <=> stage[c] \in Guarded

Init ==
  /\ NodeInit
  /\ pairFiles = {}
  /\ lock = NoCtl
  /\ journal = "ok"
  /\ reach = [n \in Nodes |-> "up"]
  /\ stage = [c \in Ctls |-> "off"]
  /\ waiting = [c \in Ctls |-> {}]
  /\ row = [c \in Ctls |-> [n \in Nodes |-> NoRow]]
  /\ base = [c \in Ctls |-> {}]
  /\ latched = [c \in Ctls |-> FALSE]
  /\ ready = [c \in Ctls |-> FALSE]
  /\ term = [c \in Ctls |-> FALSE]
  /\ errors = 0
  /\ cause = "none"

-----------------------------------------------------------------------------
(* both(): one call per node, in parallel *)

Reachable(n) == reach[n] # "down"

Set(f, c, v) == f' = [f EXCEPT ![c] = v]

\* The controller is at this stage, every reply is in and no signal is due.
Turn(c, s) == stage[c] = s /\ waiting[c] = {} /\ ~term[c]

Blank(c) == Set(row, c, [n \in Nodes |-> NoRow])

\* Start agent processes on the nodes in reach and wait for both at stage s.
Ask(c, call, s) ==
  /\ Set(stage, c, s)
  /\ Set(waiting, c, Nodes)
  /\ Blank(c)
  /\ op' = [n \in Nodes |-> [op[n] EXCEPT ![call] = IF Reachable(n) THEN "called" ELSE @]]
  /\ UNCHANGED <<files, box, boot, ram, cli, starts>>

\* A new round of observations.
Observe(c) ==
  /\ Set(stage, c, "inspect")
  /\ Set(waiting, c, Nodes)
  /\ Blank(c)

Enter(c, s) ==
  /\ Set(stage, c, s)
  /\ Blank(c)
  /\ UNCHANGED waiting

\* The process ends: the kernel releases its lock, its calls have no caller.
Exit(c, s) ==
  /\ Set(stage, c, s)
  /\ Blank(c)
  /\ Set(waiting, c, {})
  /\ Set(term, c, FALSE)
  /\ lock' = IF lock = c THEN NoCtl ELSE lock

Asked(c) == CASE stage[c] = "create" -> "create"
              [] stage[c] = "recover" -> "recover"
              [] stage[c] = "start" -> "start"
              [] stage[c] \in {"stop", "stopall"} -> "stop"

Answer(c, n, r) ==
  /\ row' = [row EXCEPT ![c][n] = r]
  /\ waiting' = [waiting EXCEPT ![c] = @ \ {n}]
  /\ UNCHANGED <<pairFiles, lock, journal, reach, stage, base, latched, ready, term>>

OneMoreError == errors < MaxErrors /\ errors' = errors + 1
Happened(what) == cause' = IF cause = "none" THEN what ELSE cause

Reply(c, n) ==
  /\ stage[c] \in {"create", "recover", "start", "stop", "stopall"}
  /\ n \in waiting[c]
  /\ Reachable(n)
  /\ op[n][Asked(c)] \in Replies
  /\ Answer(c, n, [NoRow EXCEPT !.ok = op[n][Asked(c)] = "ok"])
  /\ Goto(n, Asked(c), "idle")
  /\ UNCHANGED <<files, box, boot, ram, cli, starts, errors, cause>>

\* The call's timeout, or a node out of reach: an error row.  A remote process
\* that did start goes on, or (AgentKilled) is killed.
CallFails(c, n) ==
  /\ stage[c] \in {"create", "recover", "start", "stop", "stopall"}
  /\ n \in waiting[c]
  /\ IF Reachable(n) /\ op[n][Asked(c)] # "idle" THEN OneMoreError ELSE UNCHANGED errors
  /\ Answer(c, n, NoRow)
  /\ IF stage[c] = "start" /\ op[n]["start"] # "idle"
     THEN Happened("lost start") ELSE UNCHANGED cause
  /\ UNCHANGED nodeVars

\* inspect and aot only read: their reply is the node at one moment.
Inspected(c, n) ==
  /\ stage[c] = "inspect"
  /\ n \in waiting[c]
  /\ Reachable(n)
  /\ "created" \in files[n]
  /\ Answer(c, n, [ok |-> TRUE, up |-> box[n] \in Up, well |-> box[n] = "running",
                   boot |-> boot[n], ram |-> ram[n]])
  /\ UNCHANGED <<nodeVars, errors, cause>>

Mapped(c, n) ==
  /\ stage[c] = "aot"
  /\ n \in waiting[c]
  /\ Reachable(n)
  /\ Answer(c, n, [NoRow EXCEPT !.ok = box[n] = "running"])
  /\ UNCHANGED <<nodeVars, errors, cause>>

ReadFails(c, n) ==
  /\ stage[c] \in {"inspect", "aot"}
  /\ n \in waiting[c]
  /\ "agent" \in Faults \/ ~Reachable(n)
  /\ Answer(c, n, NoRow)
  /\ UNCHANGED <<nodeVars, errors, cause>>

AllOk(c) == \A n \in Nodes : row[c][n].ok

-----------------------------------------------------------------------------
(* main: create, recover, lock, start *)

\* Both preflights pass before anything is written.
Preflight(c) ==
  /\ Turn(c, "preflight")
  /\ \/ /\ \A n \in Nodes : "run_dir" \notin files[n] /\ box[n] \notin Up
        /\ Enter(c, "mkdir")
        /\ UNCHANGED <<lock, term>>
     \/ Exit(c, "failed")
  /\ UNCHANGED <<nodeVars, pairFiles, journal, reach, watchVars, cause>>

Execute(c) ==
  /\ stage[c] = "off" /\ c \in Executors
  /\ Enter(c, "preflight")
  /\ UNCHANGED <<nodeVars, pairFiles, lock, journal, reach, watchVars, term, cause>>

\* --watch-existing reads controller.json and skips to the lock.
WatchExisting(c) ==
  /\ stage[c] = "off" /\ c \in Attachers
  /\ "controller" \in pairFiles
  /\ Enter(c, "attach")
  /\ UNCHANGED <<nodeVars, pairFiles, lock, journal, reach, watchVars, term, cause>>

\* mkdir(exist_ok=False), preflight.json, deployment.json, create-attempt.json.
MakePair(c) ==
  /\ Turn(c, "mkdir")
  /\ "pair_dir" \notin pairFiles
  /\ pairFiles' = pairFiles \cup {"pair_dir"}
  /\ Ask(c, "create", "create")
  /\ UNCHANGED <<lock, journal, reach, watchVars, term, cause>>

PairExists(c) ==
  /\ Turn(c, "mkdir")
  /\ "pair_dir" \in pairFiles
  /\ Exit(c, "failed")
  /\ UNCHANGED <<nodeVars, pairFiles, journal, reach, watchVars, cause>>

\* A failed create is resolved on both nodes by recover-created, never retried.
AfterCreate(c) ==
  /\ Turn(c, "create")
  /\ IF AllOk(c)
     THEN Enter(c, "publish") /\ UNCHANGED nodeVars
     ELSE Ask(c, "recover", "recover")
  /\ UNCHANGED <<pairFiles, lock, journal, reach, watchVars, term, cause>>

AfterRecover(c) ==
  /\ Turn(c, "recover")
  /\ IF AllOk(c)
     THEN Enter(c, "publish") /\ UNCHANGED <<lock, term>>
     ELSE Exit(c, "failed")
  /\ UNCHANGED <<nodeVars, pairFiles, journal, reach, watchVars, cause>>

Publish(c) ==
  /\ Turn(c, "publish")
  /\ pairFiles' = pairFiles \cup {"controller"}
  /\ Enter(c, "lock")
  /\ UNCHANGED <<nodeVars, lock, journal, reach, watchVars, term, cause>>

AtLock(c) == Turn(c, "lock") \/ Turn(c, "attach")

\* Mutant: the lock file is opened but its flock result is not heeded.
UnheededLock(c) ==
  /\ AtLock(c)
  /\ lock' = c
  /\ IF stage[c] = "attach" THEN Observe(c) ELSE Enter(c, "mark")
  /\ UNCHANGED <<nodeVars, pairFiles, journal, reach, watchVars, term, cause>>

\* flock(LOCK_EX|LOCK_NB), then the SIGTERM handler; an attacher never starts.
TakeLock(c) ==
  /\ AtLock(c)
  /\ lock = NoCtl
  /\ lock' = c
  /\ IF stage[c] = "attach" THEN Observe(c) ELSE Enter(c, "mark")
  /\ UNCHANGED <<nodeVars, pairFiles, journal, reach, watchVars, term, cause>>

LockBusy(c) ==
  /\ AtLock(c)
  /\ lock # NoCtl
  /\ Exit(c, "failed")
  /\ UNCHANGED <<nodeVars, pairFiles, journal, reach, watchVars, cause>>

MarkStart(c) ==
  /\ Turn(c, "mark")
  /\ "start-attempt" \notin pairFiles
  /\ pairFiles' = pairFiles \cup {"start-attempt"}
  /\ Ask(c, "start", "start")
  /\ UNCHANGED <<lock, journal, reach, watchVars, term, cause>>

\* Whatever the replies are, the same containers are observed from here on.
AfterStart(c) ==
  /\ Turn(c, "start")
  /\ journal = "ok"
  /\ Observe(c)
  /\ UNCHANGED <<nodeVars, pairFiles, lock, journal, reach, watchVars, term, cause>>

-----------------------------------------------------------------------------
(* watch *)

Wake(c) ==
  /\ Turn(c, "sleep")
  /\ Observe(c)
  /\ UNCHANGED <<nodeVars, pairFiles, lock, journal, reach, watchVars, term, cause>>

\* Mutant: the memory of the observation is not compared with the floor.
RamBlindAlarm(c) ==
  \E n \in Nodes :
    ~row[c][n].up \/ ~row[c][n].well \/ \E b \in base[c] : row[c][n].boot # b[n]

\* Mutant: StartedAt is not compared with the recorded one.
RestartBlindAlarm(c) ==
  \E n \in Nodes :
    ~row[c][n].up \/ ~row[c][n].well \/ row[c][n].ram = "low"

\* stop_reason: not Running, unhealthy, another StartedAt, RAM below the floor.
Alarm(c) ==
  \E n \in Nodes :
    \/ ~row[c][n].up
    \/ ~row[c][n].well
    \/ \E b \in base[c] : row[c][n].boot # b[n]
    \/ row[c][n].ram = "low"

Boots(c) == [n \in Nodes |-> row[c][n].boot]

\* Some node was not observed: the round is skipped.
SkipRound(c) ==
  /\ Turn(c, "inspect")
  /\ journal = "ok"
  /\ ~AllOk(c)
  /\ Enter(c, "sleep")
  /\ UNCHANGED <<nodeVars, pairFiles, lock, journal, reach, watchVars, term, cause>>

\* Mutant: each round decides afresh, without pending_reason.
ForgetfulSafetyStop(c) ==
  /\ Turn(c, "inspect")
  /\ journal = "ok"
  /\ AllOk(c)
  /\ Alarm(c)
  /\ Set(latched, c, FALSE)
  /\ Ask(c, "stop", "stop")
  /\ UNCHANGED <<pairFiles, lock, journal, reach, base, ready, term, errors, cause>>

\* The reason is latched before the stops are asked.
SafetyStop(c) ==
  /\ Turn(c, "inspect")
  /\ journal = "ok"
  /\ AllOk(c)
  /\ latched[c] \/ Alarm(c)
  /\ Set(latched, c, TRUE)
  /\ Ask(c, "stop", "stop")
  /\ UNCHANGED <<pairFiles, lock, journal, reach, base, ready, term, errors, cause>>

\* A quiet round: the first one records started_at.  Until the pair is ready
\* the deadline is tested and then the health of node 0.
QuietRound(c) ==
  /\ Turn(c, "inspect")
  /\ journal = "ok"
  /\ AllOk(c)
  /\ ~latched[c]
  /\ ~Alarm(c)
  /\ base' = [base EXCEPT ![c] = IF @ = {} THEN {Boots(c)} ELSE @]
  /\ \/ /\ ready[c]
        /\ Enter(c, "sleep")
        /\ UNCHANGED latched
     \/ /\ ~ready[c]
        /\ "deadline" \in Faults
        /\ Set(latched, c, TRUE)
        /\ Observe(c)
     \/ /\ ~ready[c]          \* health answers: the AOT maps of both nodes
        /\ box[Head] = "running" /\ Reachable(Head)
        /\ Set(stage, c, "aot")
        /\ Set(waiting, c, Nodes)
        /\ Blank(c)
        /\ UNCHANGED latched
     \/ /\ ~ready[c]          \* not healthy yet, or the health call fails
        /\ Enter(c, "sleep")
        /\ UNCHANGED latched
  /\ UNCHANGED <<nodeVars, pairFiles, lock, journal, reach, ready, term, errors, cause>>

AfterAot(c) ==
  /\ Turn(c, "aot")
  /\ journal = "ok"
  /\ IF AllOk(c)
     THEN /\ pairFiles' = pairFiles \cup {"health-ready"}
          /\ Set(ready, c, TRUE)
          /\ Enter(c, "sleep")
          /\ UNCHANGED latched
     ELSE /\ Set(latched, c, TRUE)
          /\ Observe(c)
          /\ UNCHANGED <<pairFiles, ready>>
  /\ UNCHANGED <<nodeVars, lock, journal, reach, base, term, errors, cause>>

\* Mutant: the watcher returns after one round of stops, whatever they said.
HastyAfterStop(c) ==
  /\ Turn(c, "stop")
  /\ Exit(c, "done")
  /\ UNCHANGED <<nodeVars, pairFiles, journal, reach, watchVars, cause>>

\* Terminal when both stops saw their worker not Running; else stop again.
AfterStop(c) ==
  /\ Turn(c, "stop")
  /\ journal = "ok"
  /\ IF AllOk(c)
     THEN Exit(c, "done")
     ELSE Enter(c, "sleep") /\ UNCHANGED <<lock, term>>
  /\ UNCHANGED <<nodeVars, pairFiles, journal, reach, watchVars, cause>>

-----------------------------------------------------------------------------
(* Signals, exceptions, crashes *)

\* SIGTERM kills a controller that has not installed its handler; later it
\* raises KeyboardInterrupt in the main thread, which the exit of the thread
\* pool of a running both() holds back until its calls are in.
Sigterm(c) ==
  /\ "term" \in Faults
  /\ stage[c] \notin Ended \cup {"off"}
  /\ stage[c] = "stopall" => "term2" \in Faults
  /\ \/ stage[c] \in Guarded /\ ~term[c]
        /\ Set(term, c, TRUE)
        /\ UNCHANGED <<stage, waiting, row, lock>>
     \/ stage[c] \notin Guarded
        /\ Exit(c, "killed")
  /\ UNCHANGED <<nodeVars, pairFiles, journal, reach, watchVars, cause>>

\* A second SIGTERM while the first waits for the pool escapes the join of its
\* threads: the except clause runs, or at its own stops the process ends, with
\* the calls still out.  If they are start calls, a worker may come up after
\* the stops have seen both down.
SecondSigterm(c) ==
  /\ {"term", "term2"} \subseteq Faults
  /\ stage[c] \in Guarded
  /\ term[c] /\ waiting[c] # {}
  /\ IF stage[c] = "stopall"
     THEN Exit(c, "failed") /\ UNCHANGED nodeVars
     ELSE Set(term, c, FALSE) /\ Ask(c, "stop", "stopall") /\ UNCHANGED lock
  /\ IF stage[c] \in {"start", "stopall"}
     THEN Happened("second signal") ELSE UNCHANGED cause
  /\ UNCHANGED <<pairFiles, journal, reach, watchVars>>

\* Mutant: the interrupt is taken for a failed observation round.
RetriedInterrupt(c) ==
  /\ term[c] /\ waiting[c] = {}
  /\ stage[c] \in Guarded \ {"stopall"}
  /\ Set(term, c, FALSE)
  /\ Observe(c)
  /\ UNCHANGED <<nodeVars, pairFiles, lock, journal, reach, watchVars, cause>>

\* Mutant: the interrupt ends the process with no stop.
UnhandledInterrupt(c) ==
  /\ term[c] /\ waiting[c] = {}
  /\ stage[c] \in Guarded \ {"stopall"}
  /\ Exit(c, "failed")
  /\ UNCHANGED <<nodeVars, pairFiles, journal, reach, watchVars, cause>>

\* KeyboardInterrupt, except clause: stop both until terminal.
Interrupted(c) ==
  /\ term[c] /\ waiting[c] = {}
  /\ stage[c] \in Guarded \ {"stopall"}
  /\ Set(term, c, FALSE)
  /\ Ask(c, "stop", "stopall")
  /\ UNCHANGED <<pairFiles, lock, journal, reach, watchVars, cause>>

\* A signal during stop_until_terminal leaves it, and the process.
InterruptedAgain(c) ==
  /\ term[c] /\ waiting[c] = {}
  /\ stage[c] = "stopall"
  /\ Exit(c, "failed")
  /\ Happened("second signal")
  /\ UNCHANGED <<nodeVars, pairFiles, journal, reach, watchVars>>

\* A file that cannot be written or an observation watch cannot use: the
\* except clause stops the pair.
WatchRaises(c) ==
  /\ "raise" \in Faults
  /\ stage[c] \in {"mark", "inspect", "aot"}
  /\ waiting[c] = {} /\ ~term[c]
  /\ journal = "ok"
  /\ Ask(c, "stop", "stopall")
  /\ UNCHANGED <<pairFiles, lock, journal, reach, watchVars, term, cause>>

AfterStopAll(c) ==
  /\ Turn(c, "stopall")
  /\ journal = "ok"
  /\ IF AllOk(c)
     THEN Exit(c, "done") /\ UNCHANGED nodeVars
     ELSE Ask(c, "stop", "stopall") /\ UNCHANGED <<lock, term>>
  /\ UNCHANGED <<pairFiles, journal, reach, watchVars, cause>>

\* record() raises OSError; the record() of the except clause does too, before
\* its stop_until_terminal.
RecordRaises(c) ==
  /\ \E s \in {"start", "inspect", "stop", "aot", "stopall"} : Turn(c, s)
  /\ journal = "broken"
  /\ Exit(c, "failed")
  /\ UNCHANGED <<nodeVars, pairFiles, journal, reach, watchVars, cause>>

Killed(c) ==
  /\ "kill" \in Faults
  /\ stage[c] \notin Ended \cup {"off"}
  /\ Exit(c, "killed")
  /\ Happened("killed")
  /\ UNCHANGED <<nodeVars, pairFiles, journal, reach, watchVars>>

-----------------------------------------------------------------------------
(* The nodes under the controllers, and the faults of this instance *)

NodeActs(n) ==
  /\ \/ \E c \in Calls : AgentStep(n, c) \/ Refuses(n, c)
     \/ \E c \in Calls : DockerCreates(n, c) \/ DockerStarts(n, c) \/ DockerStops(n, c)
     \/ "exit" \in Faults /\ WorkerExits(n)
     \/ "sick" \in Faults /\ WorkerSickens(n)
     \/ "restart" \in Faults /\ ForeignRestart(n)
     \/ "ram" \in Faults /\ (RamDrops(n) \/ RamRecovers(n))
  /\ UNCHANGED ctlVars

\* A process raises or is killed, a docker command fails or is given up.
NodeErrs(n) ==
  /\ OneMoreError
  /\ \E c \in Calls :
       \/ (AgentFails(n, c) \/ DockerRefuses(n, c)) /\ UNCHANGED cause
       \/ /\ CommandTimeout(n, c) \/ AgentKilled(n, c)
          /\ IF At(n, c, "start", "issued") THEN Happened("lost start") ELSE UNCHANGED cause
  /\ UNCHANGED <<pairFiles, lock, journal, reach, stage, waiting, row, base, latched,
                 ready, term>>

BreakJournal ==
  /\ "journal" \in Faults
  /\ journal = "ok"
  /\ journal' = "broken"
  /\ Happened("journal")
  /\ UNCHANGED <<nodeVars, pairFiles, lock, reach, stage, waiting, row, watchVars, term>>

Partition(n) ==
  /\ "partition" \in Faults
  /\ n # Head
  /\ \/ reach[n] = "up"
        /\ reach' = [reach EXCEPT ![n] = "down"]
        /\ \E c \in Ctls : stage[c] \in Guarded
     \/ reach[n] = "down" /\ reach' = [reach EXCEPT ![n] = "healed"]
  /\ UNCHANGED <<nodeVars, pairFiles, lock, journal, stage, waiting, row, watchVars, term, cause>>

-----------------------------------------------------------------------------
(* Specification *)

\* What the controller's own code goes on to do.
CtlStep(c) ==
  \/ Preflight(c) \/ MakePair(c) \/ PairExists(c) \/ AfterCreate(c)
  \/ AfterRecover(c) \/ Publish(c) \/ TakeLock(c) \/ LockBusy(c)
  \/ MarkStart(c) \/ AfterStart(c)
  \/ Wake(c) \/ SkipRound(c) \/ SafetyStop(c) \/ QuietRound(c) \/ AfterAot(c)
  \/ AfterStop(c)
  \/ Interrupted(c) \/ InterruptedAgain(c) \/ AfterStopAll(c) \/ RecordRaises(c)

\* Replies, timeouts and failed reads.
CtlHears(c, n) ==
  \/ Reply(c, n) \/ CallFails(c, n) \/ Inspected(c, n) \/ Mapped(c, n)
  \/ ReadFails(c, n)

Next ==
  \/ \E c \in Ctls :
       \/ Execute(c) \/ WatchExisting(c) \/ CtlStep(c)
       \/ WatchRaises(c) \/ Sigterm(c) \/ SecondSigterm(c) \/ Killed(c)
       \/ \E n \in Nodes : CtlHears(c, n)
  \/ \E n \in Nodes : NodeActs(n) \/ NodeErrs(n) \/ Partition(n)
  \/ BreakJournal

Spec == Init /\ [][Next]_vars

AgentRuns(n) ==
  /\ \/ \E c \in Calls : AgentStep(n, c) \/ Refuses(n, c)
     \/ \E c \in Calls : DockerCreates(n, c) \/ DockerStarts(n, c) \/ DockerStops(n, c)
  /\ UNCHANGED ctlVars

\* While the controller can take a step, a call be answered or time out, an
\* agent process run or the daemon serve a command, one of these happens.  That
\* is less than fairness for each of them.  Nothing obliges a fault, a signal,
\* the operator or a worker to act, nor a node to come back in reach.
Progress ==
  \/ \E c \in Ctls : CtlStep(c) \/ \E n \in Nodes : CtlHears(c, n)
  \/ \E n \in Nodes : AgentRuns(n)

Fairness == WF_vars(Progress)

LiveSpec == Spec /\ Fairness

-----------------------------------------------------------------------------
(* Properties *)

Watched == \E c \in Ctls : stage[c] \in Guarded

\* A worker never runs without a controller that holds the watch lock and will
\* still stop the pair (portable_pair: "A broken observer must not silently
\* abandon resident models").
NeverAbandoned == \A n \in Nodes : box[n] \in Up => Watched

\* And it holds but for the four causes: whatever order the two controllers,
\* their signals, failed calls, exceptions and the nodes act in, a worker that
\* runs unwatched is the work of one of them.
AbandonedOnlyByCause == NeverAbandoned \/ cause # "none"

\* Once a stop reason is pending no later round of good observations clears it,
\* and the pair is never declared ready any more.
AlarmIsFinal ==
  [][\A c \in Ctls : latched[c] => /\ latched'[c]
                                   /\ ready'[c] = ready[c]]_vars

(***************************************************************************)
(* What a launched pair is to the outside (PairLife): the life of the      *)
(* executor and of the container of the run on each node.                  *)
(***************************************************************************)
\* The launcher starts one controller with --execute for a run.
Launched == CHOOSE c \in Executors : TRUE

\* A SIGTERM kills it before the handler is there; from then on it is answered.
CtlLife(s) ==
  CASE s = "off" -> "unborn"
    [] s \in {"preflight", "mkdir", "create", "recover", "publish", "lock"} -> "early"
    [] s = "mark" -> "armed"
    [] s = "stopall" -> "stopping"
    [] s \in Ended -> "gone"
    [] OTHER -> "late"

LifeCtl == CtlLife(stage[Launched])

\* The container counts once created.json names it; its one start is under way
\* until the reply of the start action is in.
BoxLife(n) ==
  IF "created" \notin files[n] THEN IF "pair_dir" \in pairFiles THEN "asked" ELSE "none"
  ELSE IF box[n] \in Up THEN "running"
  ELSE IF box[n] = "exited" THEN "exited"
  ELSE IF stage[Launched] = "start" /\ n \in waiting[Launched] THEN "starting"
  ELSE "created"

LifeBox == [n \in Nodes |-> BoxLife(n)]

Life == INSTANCE PairLife WITH ctl <- LifeCtl, term <- term[Launched], box <- LifeBox

\* Until a cause, whatever agents, calls, signals and nodes do, the pair lives
\* the life that its launcher counts on: no worker comes up but by the one start
\* of a controller that waits for it, none does again, and a controller that is
\* gone for another reason than a cause left both down.
LaunchedLife == Life!LifeInit /\ [][Life!LifeNext \/ cause' # "none"]_(Life!lifeVars)

-----------------------------------------------------------------------------
AllReachable == \A n \in Nodes : Reachable(n)
Down == \A n \in Nodes : box[n] \notin Up

\* Where a liveness property is excused: a node out of reach at the moment, or
\* a cause that may have left workers unwatched.  Both are stable or end, so a
\* pair that is whole again still owes the answer.
Excused == ~AllReachable \/ cause # "none"

\* A pending stop reason brings both workers down, and a watcher that ended for
\* it left both down.
AlarmStopsPair ==
  \A c \in Ctls : latched[c] ~> Down \/ Excused

\* A watched worker does not stay up on a host that stays below the RAM floor.
LowRamIsAnswered ==
  \A n \in Nodes : ~<>[](/\ ram[n] = "low" /\ box[n] \in Up /\ Watched
                         /\ AllReachable)

\* A container restarted behind the watcher's back is stopped.
RestartIsAnswered ==
  \A c \in Ctls :
    stage[c] \in Guarded /\ (\E b \in base[c] : boot # b) ~> Down \/ Excused

\* SIGTERM ends a controller that guards the pair, whatever it waits for, unless
\* a node is out of reach.
TermEndsController ==
  \A c \in Ctls : term[c] ~> stage[c] \in Ended \/ ~AllReachable
=============================================================================
