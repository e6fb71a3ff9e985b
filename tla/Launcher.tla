------------------------------ MODULE Launcher ------------------------------
(***************************************************************************)
(* The public launcher (release/launch.py): commands start, start          *)
(* --restart and stop on the head, under operation.lock, over the detached *)
(* controller they start and the containers it makes.  current.json names  *)
(* the one run that the launcher owns.  Each run lives a PairLife, which   *)
(* is what PairController shows of a launched pair; controllers are also   *)
(* killed, and give up a start that comes all the same.                    *)
(***************************************************************************)
EXTENDS Naturals

CONSTANTS
  Launchers, \* launcher processes
  Runs,      \* run ids, each used once
  Pids,      \* process ids, used again by the system
  Nobody,    \* no process, no run, no holder
  Faults     \* what may go wrong in this instance

ASSUME LauncherAssumption ==
  /\ Nobody \notin Launchers \cup Runs \cup Pids
  /\ {"torn", "foreign"} \cap Runs = {}
  /\ Faults \subseteq {"kill launcher", "kill controller", "identity", "node", "lost start"}

Nodes == 0..1

VARIABLES
  lock,    \* holder of operation.lock
  current, \* run that current.json names, "torn", or Nobody
  job,     \* [Launchers -> [cmd, pc, run, at]]: its command, where it is, the run
           \* it is about and the next node of the loop in stop
  proc,    \* [Pids -> ...]: the process behind each PID
  pid,     \* [Runs -> Pids]: PID of the controller
  ctl,     \* [Runs -> ...]: its controller
  term,    \* runs whose controller has a KeyboardInterrupt due
  box,     \* [Runs -> [Nodes -> ...]]: its container on each node
  stopped, \* history: runs that a stop declared stopped
  raced,   \* history: a controller ended between its check and its signal
  hit,     \* history: a foreign process was signalled
  cause    \* history: the first thing that can leave a pair without an owner

cmdVars == <<lock, current, job, stopped, hit>>
ctlVars == <<proc, pid, ctl, term, box, raced>>
vars == <<cmdVars, ctlVars, cause>>

Stages == {"idle", "check", "signal", "wait", "nodes", "prepare", "launch", "identify",
           "write", "written", "watch"}
Live == {"early", "armed", "late", "stopping"}
Causes == {"none", "identity", "launcher", "controller", "lost start", "second signal",
           "unlisted"}

\* created.json is in the run directory of the node.
Created == {"created", "starting", "running", "exited"}

Idle == [cmd |-> "none", pc |-> "idle", run |-> Nobody, at |-> 0]
AtStage(l, s) == job[l].pc = s
Mine(l) == job[l].run

\* process_identity: same PID, same start time, same command line.
Alive(r) == pid[r] # Nobody /\ proc[pid[r]] = r

Starting(r) == \E n \in Nodes : box[r][n] = "starting"
Running(r) == \E n \in Nodes : box[r][n] = "running"
Workers == {w \in Runs \X Nodes : box[w[1]][w[2]] = "running"}
Blame(what) == cause' = IF cause = "none" THEN what ELSE cause

Set(f, x, v) == f' = [f EXCEPT ![x] = v]

-----------------------------------------------------------------------------
Init ==
  /\ lock = Nobody /\ current = Nobody
  /\ job = [l \in Launchers |-> Idle]
  /\ proc = [p \in Pids |-> Nobody] /\ pid = [r \in Runs |-> Nobody]
  /\ ctl = [r \in Runs |-> "unborn"] /\ term = {}
  /\ box = [r \in Runs |-> [n \in Nodes |-> "none"]]
  /\ stopped = {} /\ raced = FALSE /\ hit = FALSE /\ cause = "none"

(* The commands *)

\* The process ends, with or without an error, and so does its lock.
Leave(l) == lock' = Nobody /\ Set(job, l, Idle)
Turn(l, s) == job' = [job EXCEPT ![l].pc = s] /\ UNCHANGED lock

\* Mutant: the lock is not asked for.
UnlockedBegin(l, c) ==
  /\ AtStage(l, "idle") /\ current # "torn"
  /\ current = Nobody => c # "stop"
  /\ c = "start" /\ current # Nobody => ~Alive(current)
  /\ lock' = l
  /\ Set(job, l, [cmd |-> c, run |-> current, at |-> 0,
                  pc |-> IF c = "start" \/ current = Nobody THEN "prepare" ELSE "check"])
  /\ UNCHANGED <<current, stopped, hit, ctlVars, cause>>

\* main: with the lock taken the state is read.  On a torn file, on a busy lock
\* and on a stop of nothing the command ends at once and changes nothing.
Begin(l, c) ==
  /\ AtStage(l, "idle") /\ lock = Nobody /\ current # "torn"
  /\ current = Nobody => c # "stop"
  /\ c = "start" /\ current # Nobody => ~Alive(current)
  /\ lock' = l
  /\ Set(job, l, [cmd |-> c, run |-> current, at |-> 0,
                  pc |-> IF c = "start" \/ current = Nobody THEN "prepare" ELSE "check"])
  /\ UNCHANGED <<current, stopped, hit, ctlVars, cause>>

\* Mutant: any process with the recorded PID is taken for the controller.
CheckPid(l) ==
  /\ AtStage(l, "check")
  /\ Turn(l, IF proc[pid[Mine(l)]] # Nobody THEN "signal" ELSE "nodes")
  /\ UNCHANGED <<current, stopped, hit, ctlVars, cause>>

CheckAlive(l) ==
  /\ AtStage(l, "check")
  /\ Turn(l, IF Alive(Mine(l)) THEN "signal" ELSE "nodes")
  /\ UNCHANGED <<current, stopped, hit, ctlVars, cause>>

\* A signal while an earlier one waits for the start calls that are out.
Escapes(r) == ctl[r] = "late" /\ r \in term /\ Starting(r)

\* The effect of SIGTERM: before the handler is installed it kills; then it
\* raises KeyboardInterrupt, which waits until no call is out, or is pushed
\* through to the stops by the next signal.
Terminated(r) ==
  \/ /\ ctl[r] = "early"
     /\ Set(ctl, r, "gone") /\ Set(proc, pid[r], Nobody) /\ UNCHANGED <<term, cause>>
  \/ /\ ctl[r] # "early" /\ ~Escapes(r)
     /\ term' = term \cup {r} /\ UNCHANGED <<ctl, proc, cause>>
  \/ /\ Escapes(r)
     /\ Set(ctl, r, "stopping") /\ term' = term \ {r} /\ Blame("second signal")
     /\ UNCHANGED proc

\* os.kill on the PID, whatever process it is by now.
Signal(l) ==
  /\ AtStage(l, "signal")
  /\ LET target == proc[pid[Mine(l)]] IN
     /\ IF target \in Runs THEN Terminated(target)
        ELSE UNCHANGED <<ctl, proc, term, cause>>
     /\ hit' = (hit \/ target = "foreign")
     /\ IF target = Nobody THEN Leave(l) ELSE Turn(l, "wait")
  /\ UNCHANGED <<current, stopped, pid, box, raced>>

\* The controller is gone, or two minutes are over.
Waited(l) ==
  /\ AtStage(l, "wait")
  /\ Turn(l, "nodes")
  /\ UNCHANGED <<current, stopped, hit, ctlVars, cause>>

\* The stop action where created.json exists; the other nodes are passed over.
StopNode(l) ==
  /\ AtStage(l, "nodes") /\ job[l].at \in Nodes
  /\ LET r == Mine(l) n == job[l].at IN
     box' = IF box[r][n] = "running" THEN [box EXCEPT ![r][n] = "exited"] ELSE box
  /\ job' = [job EXCEPT ![l].at = @ + 1]
  /\ UNCHANGED <<lock, current, stopped, hit, proc, pid, ctl, term, raced, cause>>

\* The node cannot be asked, or the worker is still up.
StopFails(l) ==
  /\ "node" \in Faults
  /\ AtStage(l, "nodes") /\ job[l].at \in Nodes
  /\ Leave(l)
  /\ UNCHANGED <<current, stopped, hit, ctlVars, cause>>

\* Mutant: a controller that is still there after its nodes is not looked for.
StopForgets(l) ==
  /\ AtStage(l, "nodes") /\ job[l].at \notin Nodes
  /\ stopped' = stopped \cup {Mine(l)}
  /\ IF job[l].cmd = "stop" THEN Leave(l) ELSE Turn(l, "prepare")
  /\ UNCHANGED <<current, hit, ctlVars, cause>>

StopEnds(l) ==
  /\ AtStage(l, "nodes") /\ job[l].at \notin Nodes
  /\ IF Alive(Mine(l)) THEN Leave(l) /\ UNCHANGED stopped
     ELSE /\ stopped' = stopped \cup {Mine(l)}
          /\ IF job[l].cmd = "stop" THEN Leave(l) ELSE Turn(l, "prepare")
  /\ UNCHANGED <<current, hit, ctlVars, cause>>

\* Mutant: the processes on the GPUs do not matter.
BusyPrepare(l) ==
  /\ AtStage(l, "prepare")
  /\ \E named \in SUBSET Workers :
       \/ /\ \E r \in Runs :
               ctl[r] = "unborn" /\ job' = [job EXCEPT ![l].run = r, ![l].pc = "launch"]
          /\ IF named # Workers THEN Blame("unlisted") ELSE UNCHANGED cause
          /\ UNCHANGED lock
       \/ Leave(l) /\ UNCHANGED cause
  /\ UNCHANGED <<current, stopped, hit, ctlVars>>

\* nvidia-smi names no process on either host, then assets and a fresh run id;
\* any of it may raise.  It names those that have a CUDA context: of the workers
\* that run, some may still be loading and pass unnamed.
Prepare(l) ==
  /\ AtStage(l, "prepare")
  /\ \E named \in SUBSET Workers :
       \/ /\ named = {}
          /\ \E r \in Runs :
               ctl[r] = "unborn" /\ job' = [job EXCEPT ![l].run = r, ![l].pc = "launch"]
          /\ IF named # Workers THEN Blame("unlisted") ELSE UNCHANGED cause
          /\ UNCHANGED lock
       \/ Leave(l) /\ UNCHANGED cause
  /\ UNCHANGED <<current, stopped, hit, ctlVars>>

Popen(l) ==
  /\ AtStage(l, "launch")
  /\ LET r == Mine(l) IN
     \E p \in Pids :
       /\ proc[p] = Nobody
       /\ Set(proc, p, r) /\ Set(pid, r, p) /\ Set(ctl, r, "early")
  /\ Turn(l, "identify")
  /\ UNCHANGED <<current, stopped, hit, term, box, raced, cause>>

\* The identity is read, the child has ended, or the second runs out.
Identify(l) ==
  /\ AtStage(l, "identify")
  /\ \/ Alive(Mine(l)) /\ Turn(l, "write") /\ UNCHANGED cause
     \/ ~Alive(Mine(l)) /\ Leave(l) /\ UNCHANGED cause
     \/ "identity" \in Faults /\ Leave(l) /\ Blame("identity")
  /\ UNCHANGED <<current, stopped, hit, ctlVars>>

\* current.json is truncated, then written.
Record(l) ==
  /\ \/ AtStage(l, "write") /\ current' = "torn" /\ Turn(l, "written")
     \/ AtStage(l, "written") /\ current' = Mine(l) /\ Turn(l, "watch")
  /\ UNCHANGED <<stopped, hit, ctlVars, cause>>

\* --no-wait, readiness, the end of the child, an hour, or Ctrl+C.
Observed(l) ==
  /\ AtStage(l, "watch")
  /\ Leave(l)
  /\ UNCHANGED <<current, stopped, hit, ctlVars, cause>>

KillLauncher(l) ==
  /\ "kill launcher" \in Faults
  /\ ~AtStage(l, "idle")
  /\ Leave(l)
  /\ IF job[l].pc \in {"identify", "write", "written"} THEN Blame("launcher") ELSE UNCHANGED cause
  /\ UNCHANGED <<current, stopped, hit, ctlVars>>

-----------------------------------------------------------------------------
(* The controllers, the nodes and the other processes of the head *)

Ends(r) == /\ Set(ctl, r, "gone") /\ Set(proc, pid[r], Nobody) /\ term' = term \ {r}
           /\ raced' = (raced \/ \E l \in Launchers : AtStage(l, "signal") /\ Mine(l) = r)

CtlAsks(r) ==
  /\ ctl[r] = "early" /\ \A n \in Nodes : box[r][n] = "none"
  /\ Set(box, r, [n \in Nodes |-> "asked"])
  /\ UNCHANGED <<cmdVars, proc, pid, ctl, term, raced, cause>>

\* The agent on the node creates the container, also when nobody waits for it.
AgentCreates(r, n) ==
  /\ box[r][n] = "asked"
  /\ \E b \in {"created", "none"} : box' = [box EXCEPT ![r][n] = b]
  /\ UNCHANGED <<cmdVars, proc, pid, ctl, term, raced, cause>>

\* The watch lock and the SIGTERM handler.
CtlArms(r) ==
  /\ ctl[r] = "early" /\ \A n \in Nodes : box[r][n] = "created"
  /\ Set(ctl, r, "armed")
  /\ UNCHANGED <<cmdVars, proc, pid, term, box, raced, cause>>

CtlStarts(r) ==
  /\ ctl[r] = "armed" /\ r \notin term
  /\ Set(ctl, r, "late")
  /\ Set(box, r, [n \in Nodes |-> "starting"])
  /\ UNCHANGED <<cmdVars, proc, pid, term, raced, cause>>

\* The one start of a node: the worker comes up, or never will.
DockerStarts(r, n) ==
  /\ box[r][n] = "starting"
  /\ \E b \in {"running", "created"} : box' = [box EXCEPT ![r][n] = b]
  /\ UNCHANGED <<cmdVars, proc, pid, ctl, term, raced, cause>>

\* A stop reason of its own, or the interrupt that is due: both wait for the
\* start calls that are out (or see Terminated).
CtlTurns(r) ==
  /\ ctl[r] \in {"armed", "late"} /\ ~Starting(r)
  /\ Set(ctl, r, "stopping")
  /\ term' = term \ {r}
  /\ UNCHANGED <<cmdVars, proc, pid, box, raced, cause>>

\* A start call that is out was given up: the pair is stopped, but for the start.
CtlGivesUp(r) ==
  /\ "lost start" \in Faults
  /\ ctl[r] = "late" /\ Starting(r)
  /\ Set(ctl, r, "stopping")
  /\ term' = term \ {r}
  /\ Blame("lost start")
  /\ UNCHANGED <<cmdVars, proc, pid, box, raced>>

\* It ends before it has started anything, with its pair down, or, interrupted
\* while it stops the pair, at once.
CtlEnds(r) ==
  /\ \/ ctl[r] = "early"
     \/ ctl[r] = "late" /\ r \notin term /\ ~Starting(r) /\ ~Running(r)
     \/ ctl[r] = "stopping" /\ (r \in term \/ ~Running(r))
  /\ Ends(r)
  /\ UNCHANGED <<cmdVars, pid, box, cause>>

\* A start that is out still comes, whatever the launcher does next; and a command
\* that is about this run may already have looked at its nodes.
KillController(r) ==
  /\ "kill controller" \in Faults
  /\ ctl[r] \in Live
  /\ Ends(r)
  /\ IF Starting(r) \/ \E l \in Launchers : Mine(l) = r
     THEN Blame("controller") ELSE UNCHANGED cause
  /\ UNCHANGED <<cmdVars, pid, box>>

\* By itself, or stopped by its controller.
WorkerExits(r, n) ==
  /\ box[r][n] = "running"
  /\ box' = [box EXCEPT ![r][n] = "exited"]
  /\ UNCHANGED <<cmdVars, proc, pid, ctl, term, raced, cause>>

\* Another process of the head, one at a time, takes the PID of a controller
\* that has ended, or leaves it.
Foreign(p) ==
  /\ \/ proc[p] = "foreign" /\ Set(proc, p, Nobody)
     \/ /\ proc[p] = Nobody /\ \E r \in Runs : pid[r] = p
        /\ \A q \in Pids : proc[q] # "foreign"
        /\ Set(proc, p, "foreign")
  /\ UNCHANGED <<cmdVars, pid, ctl, term, box, raced, cause>>

-----------------------------------------------------------------------------
(* Specification *)

Command(l) ==
  \/ CheckAlive(l) \/ Signal(l) \/ Waited(l) \/ StopNode(l) \/ StopFails(l) \/ StopEnds(l)
  \/ Prepare(l) \/ Popen(l) \/ Identify(l) \/ Record(l) \/ Observed(l)

Next ==
  \/ \E l \in Launchers :
       \/ \E c \in {"start", "restart", "stop"} : Begin(l, c)
       \/ Command(l) \/ KillLauncher(l)
  \/ \E r \in Runs :
       \/ CtlAsks(r) \/ CtlArms(r) \/ CtlStarts(r) \/ CtlTurns(r) \/ CtlGivesUp(r)
       \/ CtlEnds(r) \/ KillController(r)
       \/ \E n \in Nodes : AgentCreates(r, n) \/ DockerStarts(r, n) \/ WorkerExits(r, n)
  \/ \E p \in Pids : Foreign(p)

Spec == Init /\ [][Next]_vars

-----------------------------------------------------------------------------
(* Properties *)

\* The state is well typed, and operation.lock lets one command at a time work.
LauncherTypeOK ==
  /\ lock \in Launchers \cup {Nobody}
  /\ current \in Runs \cup {Nobody, "torn"}
  /\ job \in [Launchers -> [cmd : {"none", "start", "restart", "stop"}, pc : Stages,
                            run : Runs \cup {Nobody}, at : 0..2]]
  /\ proc \in [Pids -> Runs \cup {Nobody, "foreign"}] /\ pid \in [Runs -> Pids \cup {Nobody}]
  /\ ctl \in [Runs -> Live \cup {"unborn", "gone"}] /\ term \subseteq Runs
  /\ box \in [Runs -> [Nodes -> {"none", "asked"} \cup Created]]
  /\ stopped \subseteq Runs /\ raced \in BOOLEAN /\ hit \in BOOLEAN
  /\ cause \in Causes
  /\ \A l \in Launchers : AtStage(l, "idle") <=> lock # l

BeingRecorded(r) == \E l \in Launchers : Mine(l) = r /\ job[l].pc \in {"identify", "write", "written"}

\* The launcher can still name whatever it has set off: a controller that lives
\* or a worker that runs is of the run in current.json, or of the start that is
\* about to write it.  Only a launcher cut down in between, an identity that was
\* not read in time, a controller killed or leaving with a start under way, and
\* a start past a worker that nvidia-smi did not name yet break it.
OwnedUnlessCaused ==
  \A r \in Runs : ctl[r] \in Live \/ Running(r) =>
                    current = r \/ BeingRecorded(r) \/ cause # "none"

\* A run declared stopped ("Stopped only this launcher's recorded pair") has no
\* controller and no worker, then and for ever, whatever the controller was
\* doing and whichever nodes had no created.json yet.
StopMeansStopped ==
  \A r \in stopped : ctl[r] = "gone" /\ (Running(r) => cause # "none")

\* A signal never reaches a process that is not the controller ("A recycled
\* process ID cannot be signalled as the old controller"), unless the
\* controller ends, and its PID is used again, between the check and os.kill.
SignalsItsOwn == hit => raced
=============================================================================
