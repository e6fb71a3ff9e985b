------------------------------ MODULE PairNode ------------------------------
(***************************************************************************)
(* The node agent (release/runtime/tools/portable_node.py) of one run and  *)
(* the Docker daemon under it.  Every agent action is a separate process   *)
(* started by a caller: the pair controller, the launcher or an operator.  *)
(* A caller may give up on a call and the process goes on, or is killed;   *)
(* a docker command may outlive the process that issued it.  So several    *)
(* agent processes and docker commands can be in flight on one node, and   *)
(* only the files of the run directory, each written in mode "xb", order   *)
(* them.                                                                   *)
(***************************************************************************)
EXTENDS Naturals, FiniteSets

CONSTANTS
  Nodes,     \* the two hosts of the pair
  Calls,     \* agent processes that can be in flight on a node
  Kind,      \* what each of them does, [Calls -> Kinds]
  MaxBoot    \* bound on the container boots a run counts (BoundedBoot)

Kinds == {"create", "recover", "start", "stop"}

ASSUME CallAssumption == Kind \in [Calls -> Kinds]
ASSUME BootAssumption == MaxBoot \in Nat \ {0}

\* The files of a run directory that later actions test, in the order they
\* are written; "run_dir" is the directory itself.
RunFiles == {"run_dir", "create-request", "docker-create-attempt", "created",
             "start-attempt"}

\* What docker inspect reports of the run's container: "sick" is Running with
\* OOMKilled, Paused, Restarting or Dead also set.
BoxStates == {"none", "created", "running", "sick", "exited"}
Up == {"running", "sick"}

Steps == {"idle", "called", "admitted", "staging", "checked", "found",
          "issued", "acked", "ok", "error"}
Replies == {"ok", "error"}
InFlight == Steps \ ({"idle"} \cup Replies)

\* recover only resolves an attempted create: it holds no docker command that
\* changes a container.
Commanding == {c \in Calls : Kind[c] # "recover"}

VARIABLES
  files,   \* [Nodes -> SUBSET RunFiles]
  box,     \* [Nodes -> BoxStates]
  boot,    \* [Nodes -> Nat]: State.StartedAt, as a count of boots
  ram,     \* [Nodes -> {"ok", "low"}]: MemAvailable against STOP_AVAILABLE
  op,      \* [Nodes -> [Calls -> Steps]]: where each agent process is
  cli,     \* [Nodes -> SUBSET Calls]: docker commands the daemon still holds
  starts   \* [Nodes -> Nat]: history, docker start commands ever issued

nodeVars == <<files, box, boot, ram, op, cli, starts>>

\* Files, containers, agent processes and docker commands are well typed; only
\* create, start and stop processes ever have a docker command in flight.
NodeTypeOK ==
  /\ files \in [Nodes -> SUBSET RunFiles]
  /\ box \in [Nodes -> BoxStates]
  /\ boot \in [Nodes -> Nat]
  /\ ram \in [Nodes -> {"ok", "low"}]
  /\ op \in [Nodes -> [Calls -> Steps]]
  /\ cli \in [Nodes -> SUBSET Commanding]
  /\ starts \in [Nodes -> Nat]

NodeInit ==
  /\ files = [n \in Nodes |-> {}]
  /\ box = [n \in Nodes |-> "none"]
  /\ boot = [n \in Nodes |-> 0]
  /\ ram = [n \in Nodes |-> "ok"]
  /\ op = [n \in Nodes |-> [c \in Calls |-> "idle"]]
  /\ cli = [n \in Nodes |-> {}]
  /\ starts = [n \in Nodes |-> 0]

At(n, c, kind, step) == Kind[c] = kind /\ op[n][c] = step
Goto(n, c, step) == op' = [op EXCEPT ![n][c] = step]

Absent(n, f) == f \notin files[n]

\* Mutant: the file is opened in mode "wb".
OverwritingWrite(n, f) == files' = [files EXCEPT ![n] = @ \cup {f}]

\* exclusive(), mode "xb": an existing file raises.
Exclusive(n, f) ==
  /\ Absent(n, f)
  /\ files' = [files EXCEPT ![n] = @ \cup {f}]

\* A docker command is handed to the daemon.
Issue(n, c) == cli' = [cli EXCEPT ![n] = @ \cup {c}]

\* The process raises: its caller sees a nonzero exit.  Before any file or
\* command of its own every step can do so (a failed check, a full disk).
Fail(n, c) ==
  /\ Goto(n, c, "error")
  /\ UNCHANGED <<files, box, boot, ram, cli, starts>>

-----------------------------------------------------------------------------
(* create *)

\* preflight and mkdir(exist_ok=False): an existing run is never created again.
CreateAdmit(n, c) ==
  /\ At(n, c, "create", "called")
  /\ box[n] \notin Up
  /\ ram[n] = "ok"
  /\ Absent(n, "run_dir")
  /\ files' = [files EXCEPT ![n] = @ \cup {"run_dir"}]
  /\ Goto(n, c, "admitted")
  /\ UNCHANGED <<box, boot, ram, cli, starts>>

CreateRequest(n, c) ==
  /\ At(n, c, "create", "admitted")
  /\ Exclusive(n, "create-request")
  /\ Goto(n, c, "staging")
  /\ UNCHANGED <<box, boot, ram, cli, starts>>

\* Mutant: docker create runs before its attempt is on disk.
UnrecordedCreate(n, c) ==
  /\ At(n, c, "create", "staging")
  /\ Issue(n, c)
  /\ Goto(n, c, "issued")
  /\ UNCHANGED <<files, box, boot, ram, starts>>

\* The staged copies are complete; the attempt is on disk before docker runs.
CreateAttempt(n, c) ==
  /\ At(n, c, "create", "staging")
  /\ Exclusive(n, "docker-create-attempt")
  /\ Issue(n, c)
  /\ Goto(n, c, "issued")
  /\ UNCHANGED <<box, boot, ram, starts>>

CreateRecord(n, c) ==
  /\ At(n, c, "create", "acked")
  /\ Exclusive(n, "created")
  /\ Goto(n, c, "ok")
  /\ UNCHANGED <<box, boot, ram, cli, starts>>

-----------------------------------------------------------------------------
(* recover-created: resolve an attempted create whose reply was lost *)

RecoverKnown(n, c) ==
  /\ At(n, c, "recover", "called")
  /\ ~Absent(n, "created")
  /\ Goto(n, c, "ok")
  /\ UNCHANGED <<files, box, boot, ram, cli, starts>>

\* Mutant: the attempt file alone is taken for the container.
TrustingFind(n, c) ==
  /\ At(n, c, "recover", "called")
  /\ Absent(n, "created")
  /\ {"create-request", "docker-create-attempt"} \subseteq files[n]
  /\ Goto(n, c, "found")
  /\ UNCHANGED <<files, box, boot, ram, cli, starts>>

\* Mutant: a lost reply is resolved by creating again.
RecreatingFind(n, c) ==
  /\ At(n, c, "recover", "called")
  /\ Absent(n, "created")
  /\ {"create-request", "docker-create-attempt"} \subseteq files[n]
  /\ Issue(n, c)
  /\ Goto(n, c, "issued")
  /\ UNCHANGED <<files, box, boot, ram, starts>>

RecoverFind(n, c) ==
  /\ At(n, c, "recover", "called")
  /\ Absent(n, "created")
  /\ {"create-request", "docker-create-attempt"} \subseteq files[n]
  /\ box[n] # "none"
  /\ Goto(n, c, "found")
  /\ UNCHANGED <<files, box, boot, ram, cli, starts>>

RecoverRecord(n, c) ==
  /\ At(n, c, "recover", "found")
  /\ Exclusive(n, "created")
  /\ Goto(n, c, "ok")
  /\ UNCHANGED <<box, boot, ram, cli, starts>>

-----------------------------------------------------------------------------
(* start *)

\* inspect_owned, the one-shot test and the second sample of the host.
StartCheck(n, c) ==
  /\ At(n, c, "start", "called")
  /\ ~Absent(n, "created")
  /\ box[n] = "created"
  /\ Absent(n, "start-attempt")
  /\ ram[n] = "ok"
  /\ Goto(n, c, "checked")
  /\ UNCHANGED <<files, box, boot, ram, cli, starts>>

StartCommit(n, c) ==
  /\ At(n, c, "start", "checked")
  /\ Exclusive(n, "start-attempt")
  /\ Issue(n, c)
  /\ starts' = [starts EXCEPT ![n] = @ + 1]
  /\ Goto(n, c, "issued")
  /\ UNCHANGED <<box, boot, ram>>

\* The acknowledged identity is the observed one: inspect again and reply.
StartReply(n, c) ==
  /\ At(n, c, "start", "acked")
  /\ Goto(n, c, "ok")
  /\ UNCHANGED <<files, box, boot, ram, cli, starts>>

-----------------------------------------------------------------------------
(* stop *)

StopInspect(n, c) ==
  /\ At(n, c, "stop", "called")
  /\ ~Absent(n, "created")
  /\ \/ /\ box[n] \in Up
        /\ Issue(n, c)
        /\ Goto(n, c, "issued")
     \/ /\ box[n] \notin Up
        /\ Goto(n, c, "acked")
        /\ UNCHANGED cli
  /\ UNCHANGED <<files, box, boot, ram, starts>>

\* The acknowledgement alone is not terminal evidence: inspect again.
StopConfirm(n, c) ==
  /\ At(n, c, "stop", "acked")
  /\ Goto(n, c, IF box[n] \in Up THEN "error" ELSE "ok")
  /\ UNCHANGED <<files, box, boot, ram, cli, starts>>

-----------------------------------------------------------------------------
(* The process: errors, kills, the docker command timeout *)

\* Every other step can raise too: a failed read, a full disk, a changed input.
AgentFails(n, c) ==
  /\ op[n][c] \in InFlight \ {"issued"}
  /\ Fail(n, c)

\* The steps that must raise: a name already taken, a container or file that
\* is not there, a host that does not pass its sample.
Refuses(n, c) ==
  /\ \/ /\ At(n, c, "create", "called")
        /\ ~Absent(n, "run_dir") \/ box[n] \in Up \/ ram[n] = "low"
     \/ At(n, c, "create", "admitted") /\ ~Absent(n, "create-request")
     \/ At(n, c, "create", "staging") /\ ~Absent(n, "docker-create-attempt")
     \/ At(n, c, "create", "acked") /\ ~Absent(n, "created")
     \/ /\ At(n, c, "recover", "called")
        /\ Absent(n, "created")
        /\ Absent(n, "create-request") \/ Absent(n, "docker-create-attempt")
             \/ box[n] = "none"
     \/ At(n, c, "recover", "found") /\ ~Absent(n, "created")
     \/ /\ At(n, c, "start", "called")
        /\ Absent(n, "created") \/ box[n] # "created" \/ ram[n] = "low"
             \/ ~Absent(n, "start-attempt")
     \/ At(n, c, "start", "checked") /\ ~Absent(n, "start-attempt")
     \/ At(n, c, "stop", "called") /\ Absent(n, "created")
  /\ Fail(n, c)

\* command(..., timeout): the process gives up, the daemon does not.
CommandTimeout(n, c) ==
  /\ op[n][c] = "issued"
  /\ Fail(n, c)

\* The caller's timeout kills the local process or its ssh session; the
\* docker command it had issued stays with the daemon.
AgentKilled(n, c) ==
  /\ op[n][c] \in InFlight
  /\ Goto(n, c, "idle")
  /\ UNCHANGED <<files, box, boot, ram, cli, starts>>

-----------------------------------------------------------------------------
(* Docker and the workers in the containers (--restart=no) *)

Acked(n, c) ==
  op' = [op EXCEPT ![n][c] = IF @ = "issued" THEN "acked" ELSE @]
Served(n, c) == cli' = [cli EXCEPT ![n] = @ \ {c}]

DockerCreates(n, c) ==
  /\ c \in cli[n] /\ Kind[c] = "create"
  /\ box[n] = "none"
  /\ box' = [box EXCEPT ![n] = "created"]
  /\ Served(n, c) /\ Acked(n, c)
  /\ UNCHANGED <<files, boot, ram, starts>>

\* docker start also starts an exited container.
DockerStarts(n, c) ==
  /\ c \in cli[n] /\ Kind[c] = "start"
  /\ box[n] \in {"created", "exited"}
  /\ boot[n] < MaxBoot
  /\ box' = [box EXCEPT ![n] = "running"]
  /\ boot' = [boot EXCEPT ![n] = @ + 1]
  /\ Served(n, c) /\ Acked(n, c)
  /\ UNCHANGED <<files, ram, starts>>

DockerStops(n, c) ==
  /\ c \in cli[n] /\ Kind[c] = "stop"
  /\ box' = [box EXCEPT ![n] = IF @ \in Up THEN "exited" ELSE @]
  /\ Served(n, c) /\ Acked(n, c)
  /\ UNCHANGED <<files, boot, ram, starts>>

DockerRefuses(n, c) ==
  /\ c \in cli[n]
  /\ Served(n, c)
  /\ op' = [op EXCEPT ![n][c] = IF @ = "issued" THEN "error" ELSE @]
  /\ UNCHANGED <<files, box, boot, ram, starts>>

WorkerExits(n) ==
  /\ box[n] \in Up
  /\ box' = [box EXCEPT ![n] = "exited"]
  /\ UNCHANGED <<files, boot, ram, op, cli, starts>>

WorkerSickens(n) ==
  /\ box[n] = "running"
  /\ box' = [box EXCEPT ![n] = "sick"]
  /\ UNCHANGED <<files, boot, ram, op, cli, starts>>

\* Somebody restarts the running container: Running again, a new StartedAt.
ForeignRestart(n) ==
  /\ box[n] \in Up
  /\ boot[n] < MaxBoot
  /\ box' = [box EXCEPT ![n] = "running"]
  /\ boot' = [boot EXCEPT ![n] = @ + 1]
  /\ UNCHANGED <<files, ram, op, cli, starts>>

RamDrops(n) ==
  /\ ram[n] = "ok"
  /\ ram' = [ram EXCEPT ![n] = "low"]
  /\ UNCHANGED <<files, box, boot, op, cli, starts>>

RamRecovers(n) ==
  /\ ram[n] = "low"
  /\ ram' = [ram EXCEPT ![n] = "ok"]
  /\ UNCHANGED <<files, box, boot, op, cli, starts>>

-----------------------------------------------------------------------------
(* One agent process, and the agent on its own under arbitrary callers *)

AgentStep(n, c) ==
  \/ CreateAdmit(n, c) \/ CreateRequest(n, c) \/ CreateAttempt(n, c)
  \/ CreateRecord(n, c)
  \/ RecoverKnown(n, c) \/ RecoverFind(n, c) \/ RecoverRecord(n, c)
  \/ StartCheck(n, c) \/ StartCommit(n, c) \/ StartReply(n, c)
  \/ StopInspect(n, c) \/ StopConfirm(n, c)

DockerStep(n, c) ==
  \/ DockerCreates(n, c) \/ DockerStarts(n, c) \/ DockerStops(n, c)
  \/ DockerRefuses(n, c)

HostStep(n) ==
  \/ WorkerExits(n) \/ WorkerSickens(n) \/ ForeignRestart(n)
  \/ RamDrops(n) \/ RamRecovers(n)

Call(n, c) ==
  /\ op[n][c] = "idle"
  /\ Goto(n, c, "called")
  /\ UNCHANGED <<files, box, boot, ram, cli, starts>>

Return(n, c) ==
  /\ op[n][c] \in Replies
  /\ Goto(n, c, "idle")
  /\ UNCHANGED <<files, box, boot, ram, cli, starts>>

NodeNext ==
  \E n \in Nodes :
    \/ HostStep(n)
    \/ \E c \in Calls :
         \/ Call(n, c) \/ Return(n, c)
         \/ AgentStep(n, c) \/ DockerStep(n, c)
         \/ AgentFails(n, c) \/ CommandTimeout(n, c) \/ AgentKilled(n, c)

NodeSpec == NodeInit /\ [][NodeNext]_nodeVars

-----------------------------------------------------------------------------
(* Properties *)

\* However many start actions race, are retried by hand or lose their reply,
\* docker start is issued at most once for the run's container
\* (portable_node.start: the start-attempt file decides, before the command).
StartOnce == \A n \in Nodes : starts[n] <= 1

\* The created.json that inspect, start and stop trust names a container that
\* exists, whether create or the recovery of its lost reply wrote it.
CreatedIsReal == \A n \in Nodes : "created" \in files[n] => box[n] # "none"

\* Write-ahead: a container never exists without the create attempt that the
\* recovery needs, and never runs or has run without a recorded start attempt,
\* wherever the agent processes were killed.
EvidenceBeforeEffect ==
  \A n \in Nodes :
    /\ box[n] # "none" =>
         {"run_dir", "create-request", "docker-create-attempt"} \subseteq files[n]
    /\ box[n] \in Up \cup {"exited"} => {"created", "start-attempt"} \subseteq files[n]

\* A container that has exited is never started again by anything the agent
\* issues: neither a delayed docker start nor a second start action revives it.
NeverRevives ==
  [][\A n \in Nodes : box[n] = "exited" => box'[n] = "exited"]_nodeVars

-----------------------------------------------------------------------------
(* The inductive invariant behind them (PairNode_proofs) *)

\* The files are written in one order, and describe the container.
Evidence(n) ==
  /\ "create-request" \in files[n] => "run_dir" \in files[n]
  /\ "docker-create-attempt" \in files[n] => "create-request" \in files[n]
  /\ "created" \in files[n] => box[n] # "none"
  /\ "start-attempt" \in files[n] => "created" \in files[n]
  /\ box[n] # "none" => "docker-create-attempt" \in files[n]
  /\ box[n] \in Up \cup {"exited"} => "start-attempt" \in files[n]

\* What a process or a docker command past a step knows of them.
Knows(n, c) ==
  /\ At(n, c, "create", "admitted") => "run_dir" \in files[n]
  /\ At(n, c, "create", "staging") => "create-request" \in files[n]
  /\ At(n, c, "create", "acked") => box[n] # "none"
  /\ c \in cli[n] /\ Kind[c] = "create" => "docker-create-attempt" \in files[n]
  /\ At(n, c, "recover", "found") => box[n] # "none"
  /\ At(n, c, "start", "checked") => "created" \in files[n]
  /\ c \in cli[n] /\ Kind[c] = "start" =>
       "start-attempt" \in files[n] /\ box[n] = "created"

\* The start-attempt file counts the starts, and one command carries the one.
OneStart(n) ==
  /\ starts[n] = IF "start-attempt" \in files[n] THEN 1 ELSE 0
  /\ \A c, d \in cli[n] : Kind[c] = "start" /\ Kind[d] = "start" => c = d

NodeInv ==
  /\ NodeTypeOK
  /\ \A n \in Nodes : Evidence(n) /\ OneStart(n) /\ \A c \in Calls : Knows(n, c)
=============================================================================
