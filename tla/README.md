# TLA+ models of the two-Spark serving stack

TLA+ modules, TLC configurations and TLAPS proofs for the parts of this
repository whose correctness depends on the order of events: the control plane
that prepares the hosts and starts, watches and stops the pair of containers,
the native row stores, the RDMA exchange of the decode path and the deferred
validation of its graphs. Paths below are relative to `src/`;
`RT` stands for `release/runtime`.

    tlc -workers 2 -config MCPairNode.cfg MCPairNode      # a run
    tlapm PairNode_proofs.tla                             # a proof

`PROJECT.json` lists the runs with their properties, the definition-to-line
map, the findings, the hazards and the theorems.

## 1. The system

Two DGX Spark hosts serve one model, tensor- and context-parallel over two
ranks. The head runs a *launcher* (`release/launch.py`), which prepares both
hosts (*bootstrap*), writes a deployment file and spawns a detached *pair
controller* (`RT/tools/portable_pair.py`). The controller calls the *node agent*
(`RT/tools/portable_node.py`) of each host, locally or over ssh, one process per
action; the agent drives Docker. Inside each container a vLLM worker loads native
libraries: the *Engram row pool*, the *vocabulary* and *draft stores*, and
*fastcomm*, which exchanges activations of the two ranks by RDMA. The worker
replays full CUDA graphs whose error flags are looked at later (*graph
execution*).

| component | state | operations | what is hard | what makes it correct |
|---|---|---|---|---|
| node agent | run directory (`create-request`, `docker-create-attempt`, `created`, `start-attempt`), container | create, recover-created, start, stop, inspect, health, aot | agent processes race, are killed, lose the reply of a docker command that goes on | one `docker start` per run; records only of what exists; evidence before effect |
| pair controller | `pair/` directory, `watch.lock`, journal, pending reason, baseline, ready flag | execute, watch-existing, watch round, stop until terminal, signals | two nodes in parallel, timeouts, partition, SIGTERM (twice), crash and reattach, unwritable journal | no worker runs unwatched; an alarm is final and answered; the pair is ready only when healthy |
| launcher | `operation.lock`, `current.json`, the controller's `/proc` identity | start, start --restart, stop | recycled PID, controller unknown to `stop`, nodes without `created.json` yet, torn state file | whatever runs has an owner; what was declared stopped stays stopped; no foreign process is signalled |
| asset bootstrap | partial files, published assets, receipts, `prepared.json` | copy, extract, download, link, verify, publish | interruption between any two steps, wrong bytes, upgrade that shares files | assets appear whole and stay; `prepared.json` comes last; preparation can be repeated |
| Engram row pool | job, ticket, counters, cache sets, worker generations | lookup | dynamic chunks of one job, workers that linger, shared cache | exact rows; nobody writes to a job that returned; every lookup returns |
| vocabulary and draft stores | job, generation, cache, sticky failure, file identity | lookup, close | optional helpers (vocabulary), counted helpers (draft), file changes | status 0 only with exact rows; failure is sticky; lookups return |
| fastcomm | per channel: sequence, doorbells, send and receive slots, flags | all-reduce, all-gather | GPU, proxy and NIC of two ranks run at any speed over four slots | the k-th operation receives the whole k-th message of the peer |
| graph execution | graph owners with host buffers, `_pending` under its lock, poisoned owners | replay, drain from two threads, output, clear | two threads drain one set, two ranks, batch queue ahead of the outputs | flags are read before their buffer is used again; errors surface; both ranks refuse the same replay |
| DCP overlap transport, DCP communication, fastcomm routing | side stream, buffers kept until the join; channels | fork, join, choice of channel | lifetimes across CUDA streams | not modelled |
| worker guard, KV cap, display KV, kernels, configuration, packaging | none that outlives a call | checks, ioctls, arithmetic | no concurrency | not modelled |

The hazards of this code, each at its line with the properties that would
notice it going wrong, are in `PROJECT.json`.

## 2. Modules

| module | models | abstract specification | runs | proofs |
|---|---|---|---|---|
| `PairNode` | agent, Docker, worker of each host | | `node` | `PairNode_proofs` |
| `PairController` (extends `PairNode`) | controllers of one run over two nodes | `PairLife` | `pair_*`, `journal` | `PairController_proofs` |
| `Launcher` | commands of the launcher over controllers and nodes | its runs live `PairLife` | `launcher` | `Launcher_proofs` |
| `AssetStore` | preparations of one host | `AssetPublication` | `assets` | `AssetStore_proofs` |
| `RowPool` | Engram lookup, its pool and cache | `RowLookup` | `row_pool` | `RowPool_proofs` |
| `RecordStore` | vocabulary and draft stores | `CheckedLookup` | `record_store` | `RecordStore_proofs` |
| `FastComm` | kernels, proxy, NIC of both ranks | `PairExchange` | `fastcomm` | `FastComm_proofs` |
| `OwnedGraphs` | replay and deferred check of both ranks | | `graphs`, `graph_output` | `OwnedGraphs_proofs` |

The `MC*` modules only give constants their values. Definitions marked as
mutants in comments are never part of a specification: each is the form a
plausible bug would give the definition after it, and shows that a property can fail.

### PairNode

`files[n]` is the run directory of node `n`, `box[n]` and `boot[n]` what
`docker inspect` shows (state and a count of `StartedAt` values), `ram[n]` whether
`MemAvailable` is below the floor. `op[n][c]` is where agent process `c` stands,
`cli[n]` the docker commands that are with the daemon. A process and its command
are separate on purpose: `portable_node.command` gives up after its timeout
(`CommandTimeout`), a process can be killed (`AgentKilled`), and the daemon may
serve the command later (`DockerCreates`, `DockerStarts`, `DockerStops`) or not
(`DockerRefuses`). Each action is the code between two steps that another process
could observe; e.g. `StartCheck` (inspection and checks) and `StartCommit` (the
exclusive write of `start-attempt.json` and the issue of the command) are two,
because two starts may both have passed the checks. `Exclusive` is
`open(..., "xb")`. Within `CreateAttempt`, `staged_files` precedes the attempt
file and nothing tests its output in between.

Asking again for an action whose last process was given up forgets that process;
its docker command remains in `cli`. `Refuses` and `AgentFails` are the checks of
`inspect_owned`, the host, the image and the model receipt: what they compare is
left out, that they may raise before any effect is not. The exit reply of
read-only actions is folded into the controller's reading of it.

### PairController

One process per element of `Ctls`, run with `--execute` (`Executors`) or with
`--watch-existing` (`Attachers`).
`stage[c]` is where `main` or `watch` stands, `waiting[c]` the nodes that have not
answered the current `both(...)`, `row[c][n]` the reply. `both` runs the two calls
in threads and goes on when both are in, so replies come in either order and
interleave with everything else. `CallFails` is the 65 s (or longer) timeout of
`call` and also a failed ssh. One round of `watch` is `Wake` (asks for inspect),
the replies, then exactly one of `SkipRound` (a node could not be inspected),
`SafetyStop` (a reason, old or new: stop both) and `QuietRound` (health, AOT
check, readiness). `latched[c]` is `pending_reason is not None`. `AfterStop`
leaves when both replies say not running. `Interrupted` and `WatchRaises` are the
`except` clauses around `watch`; `RecordRaises` is an exception from the journal
*inside* them. `Enter`/`Exit` keep the `finally` that releases the lock.

The first SIGTERM raises `KeyboardInterrupt` in the main thread, and the exit of the
thread pool of a running `both` holds it back until both calls are in: `Sigterm` makes it
due (`term`), `Interrupted` takes it to the stops. A second one escapes that join
(`SecondSigterm`): the stops begin, or at the stops the process ends, with calls still out.
If they are start calls, a worker can come up after the stops saw both nodes down. A new
`both` of the same kind takes the place of the calls that were left, whose docker commands
stay with the daemon.

`cause` is a history variable, never read by a guard: it notes the first of four
events that may leave workers unwatched: controller killed; journal unwritable; a second
signal, at the stops or with start calls out; start given up while its command was
outstanding.

`PairLife` is what anybody outside the controller meets of a launched pair: a
controller that is unborn, before its SIGTERM handler (`early`), behind it with nothing
started (`armed`), with the one start out (`late`), stopping, or gone; whether an interrupt
is due; and of each node whether `created.json` is there, the start is out, the worker
runs or has exited. `LifeCtl` and `LifeBox` map the stages, files and containers to it, and
`LaunchedLife` says that up to the first cause every step of controllers, agents, docker
and faults is one of its steps or none.

Sleeps have no length, and deadlines may pass at any moment; `startup-diagnostics`
changes nothing and is left out; `failed` and `done` differ only in whether the
code left by an exception.

### Launcher

`job[l]` is what the command in terminal `l` is about and where it stands; `lock` is
`operation.lock`, which the system releases with the process. `current` is `current.json`,
`"torn"` between its truncation and its writing. A controller and its nodes are
kept as far as the launcher can meet them, that is, as `PairLife`: a SIGTERM ends it before
its handler, is due behind it, and a second one ends it while it stops; creations and starts
may fail; a start that was given up may come after the controller has stopped the pair
(`CtlGivesUp`, cause "lost start"), and so may one that a second signal left (`Escapes`,
cause "second signal"). `proc[p]` is whatever process
has PID `p`: a controller, nothing, or a foreign process, which may take the PID of a
controller that ended. `CheckAlive` (`controller_alive`) and `Signal` (`os.kill`) are two
actions. `StopNode` skips a node without `created.json`, as `stop` does. `Prepare` goes on when
nvidia-smi names no process on either host; it names those with a CUDA context, so of the
`Workers` that run any set may be `named`, and going on past one that was not is the cause
"unlisted". `raced`, `hit`, `stopped` and `cause` are history.

### AssetStore and AssetPublication

`path[f]` is what is under the name of an asset, `part[f]` what is under its
temporary one (partial file, staging directory, temporary receipt); an asset has
`Blocks` blocks and is right or wrong. Receipts hold what `os.stat` tells of a file:
`Stamp` includes the number of links, because `os.link` for an upgrade changes
`st_nlink` and `st_ctime` of the weights of the earlier revision, and
`verify_public_download.py` compares both. A revision has its own kit, manifest and
header stand-ins; runtime, draft and tables are shared, as are the bytes of the shard.
`pc` goes through the phases of `bootstrap`; between any two of its steps the
preparation may be killed or raise (`Stop`), and the disk stays as it is. Where the code
writes under the final name (the kit, the stand-ins, both receipts), the model has the
half-written state.

`AssetPublication` says that assets appear whole and stay, and that `prepared.json`
names a revision only after all it needs. `Blocked` lists the states of the disk in
which every later preparation raises until somebody looks: an unfinished kit, archive
copy or extraction; a partial file that is full but was not renamed (the next request
asks for `Range: bytes=<size>-` and is answered 416); a part of a table with wrong bytes;
a torn receipt; a receipt older than a hard link of the same weights; partial files
beside a linked shard or the stand-ins. These are conservative refusals, not losses: `RetriesPrepare` shows that
nothing else keeps a repeated preparation from its end, and section 5 that nothing but
these is ever raised again and again, and that they indeed need somebody to look.

### OwnedGraphs

Replays are numbered in the order in which both ranks issue them, up to a target and
a draft graph per step. On each rank `main[r]` is the thread that executes steps
(`Enter`, `TakePending`, `Drain`, `Replay`, `Defer`), `out` the thread of the head that
fetches outputs (`GetOutput`, `OutputDrain`, `OutputLeaves`). `issued` and `done` are the
stream: a replay ends only when both ranks have issued it, since it contains an
all-reduce. `pending[r]`, `buffer[r]` and `failed[r]` are `_pending`, the host buffers of the
owners and `self.failed`. `Breaks` is any exception of an execution between its replay
and its end. The engine may be `Ahead` steps beyond the outputs it has: the serving
configuration runs asynchronous scheduling with a batch queue of two.

### RowPool and RowLookup

`RowLookup` is the promise: a lookup returns for each ID its row if the rank owns
it and zeros otherwise; an ID beyond the table ends the process. `RowPool` is the
C++: a caller serves short requests itself (`Serial`) or takes `caller` and posts
a job (`Post`, `NotifyAll`, `Wait`); callers and workers draw tickets (`Draw`), serve
one ID (`ServeZeros`, `ServeAborts`, `ServeHit`, `ServeMiss` then `Fill`), count the
chunk and the last one tells the caller (`Count`, `Tell`); a worker that finds no
ticket leaves (`Leave`). Row content is the row's identity. The cache keys, sets,
ways and replacement cursor are the code's; a miss reads outside the set's lock, so
`ServeMiss` and `Fill` are two actions. Each mutex section is one action. The one
read outside, the atomic ticket, is an action of its own. A chunk is one ID (`kChunk`).
`work[t]` is the caller whose pointers thread `t` holds: a thread with work of a
caller that has returned is a use after return.

### RecordStore and CheckedLookup

Both stores have the same skeleton with two differences, chosen by `kind`: the
vocabulary store has a direct-mapped cache, plans its misses and lets helpers join
only while the job is open; the draft store deduplicates, rejects an unknown ID and
waits for every helper. The store serves one caller at a time (`caller_mutex`), so one
caller stands for all. A row is `<<id, file>>`: a changed file gives another row, and
`Rechecked` is the second identity test. `Wake` wakes up to `rows - 1` sleepers, any of
them: `notify_one` says no more. `CheckedLookup` promises exact rows of the file that
was opened or a refusal, and refusals for ever after the first.

### FastComm and PairExchange

Per end `<<rank, channel>>`: the stage kernel copies block by block into a send slot
(`StageCopy`), the last block to arrive rings the doorbell (`StageArrive`,
`LastRings`), the proxy drains bells and posts data and flag (`Drain`), the NIC reads
the send slot word by word as it delivers (`LandWord`), then writes the flag
(`LandFlag`), the finish kernel spins for the exact sequence (`Arrived`) and reads
(`FinishBlock`, `FinishDone`). `Drain` posts one bell; the code's inner loop repeats
it. The flag follows the
data of the same queue pair: that is the ordering the code relies on
(`fastcomm.cu:203`). The word of a message is its sequence number, so a torn,
stale or repeated word is visible. `ProxyFails` ends the proxy with an error
code, `Trap` stops a rank's kernels after the spin limit. `PairExchange` says the k-th
operation ends with the whole k-th message of the peer and not before the peer
began it.

## 3. Runs

| run | question | bounds | why they are enough |
|---|---|---|---|
| `node` | Does the run directory order racing agent processes? | one node; two creates, a recovery, two starts, a stop; two boots | nodes share no state; two processes of each kind that races; the second boot is what must not happen |
| `pair_safe` | Can a controller that is interrupted, or raced by another, leave a worker unwatched? | two nodes, an executing controller and a second one that executes too or reattaches; one agent error or abandoned call; exception, deadline, two signals, also with calls out (2 354 033 states) | one error suffices for each abandoned call; a kill and an unwritable journal, which are causes themselves, and the faults of the hosts are in the next run; the proof covers all together |
| `pair_faults` | Is an alarm final, and is a pair's life `PairLife`, with faults of the hosts? | one controller; exits, sickness, foreign restart, partition, failed observations, journal, kill, two signals; each step against `PairLife` (1 370 863 states) | a failed read needs no error budget; two boots tell a restart; low RAM is one more reason of the same `stop_reason`, and is in the next run |
| `pair_live` | Is every reason to stop answered? | one controller; RAM, restart, partition, one SIGTERM (148 412 states) | each reason is tested by the same `stop_reason`; small because liveness is costly; a second signal only takes the controller to its stops or its end sooner |
| `launcher` | Can anything run without an owner, or a stranger be signalled? | two launchers, two runs, two PIDs, symmetric; kills, late identities, failing nodes, lost starts, second signals, workers not named by nvidia-smi (5 015 749 states) | a restart needs two runs, a race two launchers, a recycled PID one to spare |
| `assets` | Do interrupted preparations publish whole assets, and can they be repeated? | two revisions, two blocks, two faults (96 270 states) | an upgrade needs two revisions; a partial file is empty, half or full; the second fault hits the retry of the first |
| `row_pool` | Are rows exact, is a finished job left alone, does every lookup return? | two callers, two workers, two lookups, one set of two ways, three owned rows (236 022 states) | three rows compete for two ways; a second job follows the first while a worker lingers |
| `record_store` | Is a status of 0 always exact, does every lookup return? | two helpers, three lookups, two cache slots, IDs 0..2 and a foreign one (517 212 states) | lookup one fills, two collides, three hits; rows 0 and 2 share a slot |
| `fastcomm` | Is any message lost, torn or overwritten? | one channel, four slots, two blocks, six operations | six operations reuse two slots; the proof covers the rest |
| `graphs` | Are deferred errors read in time, reported, and refused by both ranks alike? | two ranks, three steps of up to two graphs, two steps ahead, two errors | two steps ahead of a third; both ranks, or both graphs of a step, may err |
| `journal`, `graph_output` | the findings | as small as shows them | |

Bounds named in the modules: `MaxBoot` (boots counted), `MaxErrors` (agent errors and
abandoned calls; in `OwnedGraphs` replays that err), `OneOutage` (a node is out of reach
at most once, while the pair is guarded), `MaxSeq` (operations of a channel), `MaxLookups`,
`MaxFaults` (interruptions and wrong bytes), `Steps`, `Ahead`, and each run of `Launcher` is used
once. `MaxErrors = 0` in `pair_faults` and `pair_live` leaves failed observations
(`ReadFails`), exceptions and partitions possible. Deadlock is checked in `node` and
`assets`; elsewhere the system really stops: the controller ends, the bounded runs, lookups
or operations are used up, a process aborts, or a rank waits for one that has raised.

### Fairness

- `pair_live`: weak fairness of `Progress` as a whole: while a controller can step,
  a call be answered or time out, an agent process run or the daemon serve a
  command, one of these happens. Agents and calls all have timeouts
  (`subprocess` timeouts, ssh `ConnectTimeout`). No fault, signal, operator or
  worker is obliged to act, and a partition need not heal; properties excuse a
  node that is out of reach.
- `assets`: weak fairness of the running preparation; strong fairness of
  `Prepare(r)`, the operator who repeats the preparation of each revision. That is more than
  an operator who stays with one revision does, and it is needed: a draft receipt that the
  preparation of another revision left torn makes the one in `prepared.json` raise until
  that other preparation is repeated (`CutDraft` in `RaisesOnlyWhenBlocked`). `Stop` and
  wrong bytes are bounded by `MaxFaults` and never obliged.
- `row_pool`, `record_store`: weak fairness of each thread; a mutex is not held
  for ever. No fairness for `Lookup`, `FileChanges` or failing reads. Condition
  variables are modelled without spurious wake-ups, which makes liveness
  stronger, not weaker.
- `fastcomm`: weak fairness of each kernel, proxy and NIC; none for failures.
- `graphs`: weak fairness of the executing thread of each rank, of the GPU and of
  the output thread; none for `Breaks`. The steps are bounded, and the last outputs
  are fetched as any other.

## 4. Findings

- `journal`: the `except` clause of `main` journals before it stops, so an unwritable
  journal skips the stop although the comment there says a broken observer must not
  abandon resident models.
- `graph_output`: `drain_pending` takes an owner out of `_pending` before it checks it. If
  the thread that starts the next graph takes the check of a step's last graph and
  raises, the output of that step, fetched after that, finds nothing pending and
  leaves, although the comment there says validation must pass before tokens leave.
  `OnlyOvertakenOutputs` is the other half: no other output leaves unchecked.

Some behaviours are stated as exceptions of properties rather than as findings of
their own.

- *Lost start*, of `AbandonedOnlyByCause` and `OwnedUnlessCaused`: after a start call was
  given up, the watcher stops the pair and leaves when it sees both nodes down, and the
  docker start that is still with the daemon then brings a worker up.
- *Second signal*, of the same two: SIGTERM sent twice during the start calls escapes
  `ThreadPoolExecutor.__exit__` (`portable_pair.py:53`). The pair is stopped while they are
  out, with the same end. Sent during `stop_until_terminal`, it leaves the stops.
- *Unlisted worker*, of `OwnedUnlessCaused`: `prepare` refuses when nvidia-smi names a
  compute process (`launch.py:223`). A worker whose controller is gone and that is still
  loading has no CUDA context, so a new start goes on and overwrites `current.json`: the old
  worker has no owner, and two pairs share the GPUs.
- `LowRamIsAnswered` asks for an answer only while both nodes can be observed: a round in
  which one cannot be inspected ends before the RAM of the other is compared.
- `SignalsItsOwn` leaves the one window between the check of an identity and `os.kill`;
  `docs/configuration.md:151` says that a recycled process ID cannot be signalled.

A pending stop reason lives in the memory of its controller: one that reattaches after
a kill starts without it (`latched`), so `AlarmIsFinal` is a property of each controller,
not of the pair.

## 5. Proofs

`PairNode_proofs`: for any nodes, calls and kinds of calls, `NodeSpec` implies
`NodeTypeOK`, `StartOnce`, `CreatedIsReal`, `EvidenceBeforeEffect` and `NeverRevives`.
None is inductive: `StartOnce` needs that `start-attempt` is written before the
command and never removed, `NeverRevives` needs that an outstanding start command
finds a container that has never run. `NodeInv` adds `Evidence` (the order of the files
and what they say of the container), `Knows` (what each process and each outstanding
command may rely on) and `OneStart` (the file counts the starts; one command
carries the one). Assumptions: `CallAssumption`, `BootAssumption`.

`FastComm_proofs`: for any channels, any finite nonempty set of blocks and at
least two slots, `Spec` implies `CommTypeOK`, `AheadOfProxy`, `SlotsNeverLap` and
`ExchangeIsExact`, i.e. the refinement of `PairExchange` (initial states and every
step). `CommInv` adds the distances between GPU, proxy and both NICs (`Order`), that a
doorbell belongs to its slot (`Bells`), what the stage kernel has counted and copied
(`Staged`), that messages under way are whole in their slots (`Held`) and what has been
output. The argument: an operation begins only after the last one ended, which
needs the peer's flag, which needs the peer's stage; so ranks are at most one
operation apart, and with two or more slots nothing under way shares a slot
(lemma `Near`, and `SlotsApart` on `%`). The proof does not depend on `MaxSeq` being small.
`NobodyWaitsInACircle` is the safety core of `OperationsEnd`: while an operation that both
ranks have begun has not ended, a kernel, the proxy or the NIC of one of its ends has
something to do that it need not wait for (`CanStep`). `SignInv` says that no sign is lost: a
doorbell not yet drained, and a flag not yet met, are in their slots. `WorkIsFinite` is the
other half: an operation costs each end exactly `4 * |Blocks| + 3` steps of its kernels, its proxy
and its NIC; every step takes one off what is owed (`Owed`), except an issue, which adds that
much, and a failure, which adds nothing; what is owed is never negative, and zero only where
all that has begun has ended and is sent. So no step repeats itself for ever, and of
`OperationsEnd` only what is said with ENABLED and fairness is left to TLC.

`PairController_proofs`: for any nodes, controllers, faults and bounds, `Spec` implies
`TypeOK`, `AbandonedOnlyByCause`, `AlarmIsFinal` and, over the composition,
`StartOnce`, `CreatedIsReal` and `EvidenceBeforeEffect`. It extends `PairNode_proofs`: every step
of a controller that touches a node is a step of `PairNode` or changes only what
`NodeInv` does not mention. `PairInv` adds `WatchInv`: while no cause is recorded, a start
under way on a node is waited for by the controller that guards the pair and is at
stage `start` (`StartInv`); a stop under way belongs to a controller past its starts, and an
`ok` reply to it means the worker is not up (`StopInv`, `RowInv`). A controller leaves
without a cause only when no start was ever issued or when both stops were ok, and
after an ok stop no start can follow: hence nobody is up unwatched. A controller that turns
to its stops with start calls out does so only by a second signal, which is a cause.

`LaunchedPairsLive` is the refinement of `PairLife`, initial states and every step up to a
cause, for any number of reattaching controllers and all faults. Its hypothesis
`OneExecutor` is how `launch.py` works: one controller per run is spawned with `--execute`,
into a run directory of its own; others reattach. Beyond `PairInv` it needs `LaunchInv`:
what the executor has behind it at each stage, which of its records both nodes have by
then, and that nobody else is at a stage before the watch. The hard steps are the end of a
controller (both stops ok, so nothing runs or starts) and a start, which may be issued only
while both containers are created and no interrupt is due.

`NobodyWaitsInVain` says no live controller hangs: each call that is out can be answered or
given up with a node out of reach, or has an agent process or a docker command that can go
on, without the help of any of the errors that `MaxErrors` bounds; and a controller whose
replies are in has a step of its own. `GoInv` is what that needs: a process that waits for
docker has its command with the daemon; `docker create` finds no container and `docker
start` one that never ran; whoever locks, publishes or reattaches has both `created.json`
(otherwise `inspect` could only fail for ever); and one controller at most makes the pair, so
the one at `mark` finds no `start-attempt.json`.

`WrongsAreHeeded` is an action property about observation rounds: what is wrong with a node
(`Wrong`: no running worker, low RAM, another boot than recorded) from the beginning of a round to
its end is in the replies by then, in whatever order they come and whatever the nodes do in
between, and the round does not end quietly (`Passes`). `ReadyAfterBothRan`: `health-ready` is
published only after the workers of both nodes have run, and a ready controller has boots of
both to compare the later ones with. `ReadyInv` adds that a node has a boot just when its worker
was started, and what each reply and each recorded boot says of it.

`Launcher_proofs`: for any launchers, runs and PIDs, `LauncherTypeOK`, `OwnedUnlessCaused`,
`StopMeansStopped` and `SignalsItsOwn`. `ProcInv` ties PIDs to controllers (a foreign
process has only the PID of a controller that ended), `BoxInv` says which containers a
controller at each point may have, `StageInv` what a command knows at each stage (a
node the loop of `stop` has passed does not run its worker unless the controller still
lives; before a controller is launched, every other run is quiet, because nvidia-smi
named no worker and one that it did not name is a cause), `FileInv` that
`current.json` names a launched run and that stopped runs stay gone. Each holds until
a cause is recorded (`Blamed`). From it follows `OnePairOnly`: up to a cause, two runs never have
a live controller or a running worker at once. A command relies on a controller only while it `Stays`:
alive, and not about to leave a pair that runs because it was interrupted twice. The causes
are those of `Causes` in `Launcher`; none of these theorems says anything after one.

Two theorems join the two levels. `EveryLifeIsMet`: whatever step a pair of `PairLife` takes
by itself is a step of `Launcher`, which therefore assumes nothing of its controllers that
`LaunchedPairsLive` does not provide. `EveryRunLives`: where no controller is killed, each
run of `Launcher` lives a `PairLife` up to a cause, so the launcher's own steps (spawning,
signalling) are those that `PairLife` has. Together: what is proved of the launcher holds with
`PairController` in the place of its runs, up to a cause on either level. A killed
controller is outside: it is a cause there (`PairController`) and a fault here.

`AssetStore_proofs`: for any revisions, blocks and faults, `AssetTypeOK`, `ReuseHolds` and
the refinement `PublishesWhole`. `FileInv` is what the disk never holds (wrong bytes under
a name, a partial asset other than a kit or a stand-in, a receipt of something else than
is there); `DoneInv`, `WorkInv`, `PlaceInv` and `TableInv` say what each phase has behind it and
under way; `PointerInv` that what `prepared.json` names is there, and that repeated
preparations of the same revision write nothing. The argument rests on `Stays`: a
pinned file stays pinned, except stand-ins without a receipt. An upgrade never
chooses `root/model` for another revision (`PlaceStep`). Two consequences have theorems of
their own: `RepeatsWriteNothing` (a preparation repeated for the revision of `prepared.json`
writes nothing and raises for nothing) and `PointedStaysWhole` (what `prepared.json` names is
whole, also while other revisions are prepared, interrupted or fed wrong bytes).

Two more theorems are the safety core of `RetriesPrepare`. `RaisesOnlyWhenBlocked`: a
preparation that raises, and was not interrupted, leaves a condition of `Blocked` on the
disk, with two exceptions: the receipt of the draft was cut while another revision was
prepared (`CutDraft`), and the refusal of the very first manifest (`Elsewhere`), after which
the next preparation takes a directory of its own. `RetryInv` has what that needs: a published
manifest has no partial file, and a host that was prepared once keeps all it needs but for
fingerprints. `BlockedForGood`: no step of any preparation takes such a condition off the
disk, and none of that revision ends prepared; `Stuck` is `Blocked` less what the running
preparation has under way, the two are the same between preparations. `StuckInv` has the
reason: the links of the shard only grow after its receipt, so an outdated receipt stays
outdated.

`RowPool_proofs`: for any callers, workers, rows and cache shape, `PoolTypeOK`, `WorkIsLive`
and the refinement `LookupIsExact`. `TicketInv` says no chunk is drawn twice, `CountInv` that
`remaining` counts the chunks not yet counted off, `ActiveInv` that `active` counts the threads
still inside `drain`; so a caller that sees both at zero leaves no thread with its
pointers. `CacheInv` ties keys to rows, and `OutInv` says every position is still due or
exact. `Return` maps to `Answer`, `Lookup` to `AskFor`, `ServeAborts` to `Abort`, all else stutters.
`NoWakeupIsLost` is the safety core of `LookupReturns`: while a lookup is unanswered, its
caller, the holder of `caller` or a worker is where it need not wait (`Moves`), or the process
has aborted. `WakeInv` says a caller waits only when every chunk is drawn, and sleeps only
while somebody is inside `drain` who will find it out.

`RecordStore_proofs`: for any helpers, IDs and cache size, `StoreTypeOK`, `WorkIsLive` and the
refinement `LookupIsChecked`. `SlotInv` says a slot holds the row of its ID or the store has
failed or the file changed, `PlanInv` that every position has its slot in the order (lemma
`Queues`: tickets number the positions to be read), `TicketInv`, `CallerInv` and `WorkerInv`
that `remaining` is the number of helpers still owing a report. `Finish` maps to `Serve` or
`Refuse`. `NoWakeupIsLost` is the safety core of `LookupsReturn`: while the caller sleeps
on the completion, a helper whose report it waits for can step. The `WakeInv` it needs: a
sleeping caller still has reports to get, and between the notification and the end of a
draft job no helper sleeps that has not seen it.

`OwnedGraphs_proofs`: for any number of steps, any graphs in them, any lead over the outputs
and any errors, `GraphTypeOK`, `DrainedBeforeReplay`, `OnlyOvertakenOutputs`, `RefusedTogether` and
`DestroyedIdle`. `KeptInv` says every replay of a rank is pending in its buffer, just issued, found good, or
a thread has raised; `PastInv` that a replay followed by another was good unless the
output thread has raised; `CulpritInv` that a thread that raised unbroken has seen an
error, and `LeftInv` what the outputs that left had before them. `NobodySitsOnAnError` is the
safety core of `ErrorsSurface`: while an error of a replay that both ranks have issued is not
reported on the head, one of its two threads or its GPU can step. By `PastInv` such a replay is
the last of its rank, so only itself may keep the GPU busy; `StandInv` says graphs are
destroyed only between steps.

Each inductive invariant was also checked by TLC on the instance of its run, and so
were, before their proofs, `WrongIsHeeded`, `ReadyIsEarned`, `RepeatsOnlyRead`, `PointedIsWhole`,
`OnePairAtATime`, `OwedIsCounted` and `WorkRunsOut` (the last two with three operations). All
safety and action properties of the passing runs are proved. Only model-checked are the nine that are temporal under fairness, which is beyond the prover
(it has no rule for `WF_`, `SF_` and ENABLED here). Of each of them a safety core is proved
for every value of the constants, as said above: that what they promise is never out of
everybody's hands, or never passed over. What TLC adds, on its instance, is that fairness then gets there.

| temporal property | run | proved of it |
|---|---|---|
| `OperationsEnd` | `fastcomm` | `NobodyWaitsInACircle`, `WorkIsFinite` |
| `LookupReturns` | `row_pool` | `NoWakeupIsLost` |
| `LookupsReturn` | `record_store` | `NoWakeupIsLost` |
| `RetriesPrepare` | `assets` | `RaisesOnlyWhenBlocked`, `BlockedForGood` |
| `ErrorsSurface` | `graphs` | `NobodySitsOnAnError` |
| `AlarmStopsPair`, `TermEndsController` | `pair_live` | `NobodyWaitsInVain`, `AlarmsAreFinal` |
| `RestartIsAnswered`, `LowRamIsAnswered` | `pair_live` | `NobodyWaitsInVain`, `WrongsAreHeeded` |

The two refuted properties (section 4) have no theorem, of course.

## 6. Not modelled, and why

- Numeric kernels and attention: floating point.
- DCP overlap transport: a fork and a join of a side stream. The order of its
  operations and the lifetime of its buffers are decided by CUDA streams and torch's
  allocator; a model would restate their rules, not this code. DCP communication
  wraps collectives and keeps no state. Fastcomm routing is a pure choice by shape and
  dtype, the same on both ranks.
- Worker guard and KV cap (sequential checks before any state), display KV (ioctls),
  configuration and preflight (read-only), packaging and publication (linear
  maintainer scripts).
- Pair controller: the process that lingers, with the lock released, until the threads of
  calls it left are through; two signals that arrive as one; and an old stop call that
  answers beside the one asked again (the model keeps the newer).
- Node agent: `health`, `aot`, `inspect` are read-only and folded into the controller;
  start-up diagnostics change nothing.
- Launcher: status, logs, doctor and `--dry-run` change nothing; the recovery of
  identities that older launchers saved with an empty command line. nvidia-smi is asked
  host by host and not again before the controller is spawned: the model asks at one moment;
  in between a worker comes up only after one of the causes, since `operation.lock` excludes
  other starts. The preflight of
  `EXISTING_DEPLOYMENT`, one more reason to refuse, is any refusal of `Prepare`.
- Asset bootstrap: `docker pull` and `docker load` (Docker's own store), the legacy
  originals of the tables, two preparations at once (`operation.lock` excludes them on
  the head), power loss of data that was not synced, a verifier that changes.
- Row stores: loading of tables and shards (once, before the first lookup), the byte
  layout of packed rows. A read of the Engram pool that fails ends the process, as an ID
  beyond the table does, and only the latter is modelled; null or oversized descriptors of
  the other stores are refused before any state and leave the store usable.
- Fastcomm: creation and connection of queue pairs, reduction arithmetic.
- Graph execution: capture bookkeeping, piecewise and eager graphs (checked before
  they return), the fences of the SSD stages, the bound on owners. `Clear` treats the graphs
  of a rank as one; the code clears each manager separately, with its own
  `GraphResources` (`vllm_owned_graphs.py:48-66`), and each with the same wait. A
  `host_event.synchronize()` that itself raises inside a drain is left out.

The share of the implementation's lines that is modelled is small: most of the
repository is kernels, probes, benchmarks and tests, which keep no state that an
order of events could break.
