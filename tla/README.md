# AROS kernel: TLA+ verification project

This directory holds a TLA+ model of the AROS kernel (the Rust crate in
`src/src/`), the TLC configurations that check it on small instances, and
TLAPS proofs of the invariants that matter most, for instances of every size.

    tlc -workers 2 -config Dag.cfg Dag                 # one run
    tlapm DagProofs.tla                                # one proof module

`PROJECT.json` lists the runs, for every definition the source lines it models,
for every property a mutated definition that breaks it, the findings, the
hazards and the theorems. Definitions whose comment starts with "Mutant:" are
those mutated forms; nothing else uses them.

## 1. Inventory

| Part | Source | State it keeps | Operations | What is hard | What makes it correct |
|---|---|---|---|---|---|
| DAG engine | `dag/graph.rs`, `executor.rs`, `runtime.rs` | a map of nodes (status, dependencies) behind one `RwLock`; the control point and join handles of each `run()` | `add_node`, `remove_node`, `update_dependencies`, `execute_tick`, `run` | edits race with ticks; several `run()` loops may share a graph; a tick holds no lock while its tasks run | dependencies respected, acyclic, each node run once, results final, `run()` returns and does not give up early |
| Graph algorithms | `dag/graph.rs` | locals of `has_cycle`, `dfs_cycle`, `topological_sort` | the same | hash-map order; duplicate, missing and self dependencies; `usize` in-degrees | exact verdicts, a topological order, no underflow |
| DAG checkpoints | `dag/persistence.rs` | `dag.json`, one file per node | `save_checkpoint`, `load_checkpoint`, `save_node_state`, `clear` | a crash or an error between two file operations; a graph saved while tasks run; methods that take no lock | a resumed graph is one the engine can go on with, and has the results saved |
| Restart tracker | `supervisor/process.rs` | restart times, consecutive failures | `record_restart`, `reset`, `current_backoff` | the edge of the window, the width of the multiplier | at most `max_restarts` per window, growing capped backoff |
| Supervisor | `supervisor/kernel.rs`, `health.rs` | child table with a tracker each, cached health | `register`, `update_state`, `health`, `all_healthy` | `update_state(Failed)` takes the table lock twice; health is computed from a snapshot and published under another lock | budget held, no failure lost, health right when nobody interferes and in the end |
| Governor | `governor/*.rs` | per tier: active tasks, tokens, RSS (atomics); pressure | `check_admission`, `check_runtime`, `task_started`, `task_ended`, `tokens_used`, `update_pressure`, `reset_hourly_tokens` | check and reservation are separate; a sum over atomics is no snapshot | exact counters, bounded overshoot, the two phases agree |
| Kernel handler | `supervisor/handler.rs` (with `TaskRegistry`) | registry, governor, supervisor, store behind one mutex | the RPC methods | each method is several steps on several components, and connections interleave between them | what is charged is released once; the records of one cycle agree |
| Model adapter | `adapter/*.rs` | circuit breaker per provider, provider list | `resolve`, `record_success`, `record_failure`, `state` | late results of calls admitted in another breaker state; `Open` expires only when it is looked at | an open breaker holds for its time and can close again; fallbacks are justified |
| State store | `store/*.rs` | SQLite table, write counter, time of the last checkpoint, ACL | `get`, `put`, `delete`, `transaction`, WAL checkpoints | several handles on one file, failed checkpoints and commits, panics, crashes | atomic transactions, append-only entries not removed, the checkpoint trigger not missed |
| RPC dispatch | `dispatch/*.rs` | connections, shutdown broadcast, client stream | `serve`, `shutdown`, `call` | a signal sent before its subscriber exists; half a line or an answer left in the stream | shutdown ends the server; every line is answered once and in order |
| Daemon | `main.rs` | boot order, loops, shutdown order | `run_daemon`, `boot_sequence`, `health_loop`, `graceful_shutdown` | shutdown against running loops and handlers, crashes and restarts | the daemon ends when told to; records and charges stay consistent through it |
| Scheduler | `scheduler/*.rs` | allocations | `can_schedule`, `available_slots`, `allocate`, `release`, `recommend_max_agents` | check then act; chained bands, floors and roundings | exact counters; worse readings never raise the advice |
| Agents | `agent/*.rs` | lifecycle state, one child process | `execute` | timeouts against a blocked pipe, descendants that keep pipes open or outlive the task | `execute` returns, and nothing it waits for runs uncharged |
| Hardware probes | `hardware/*.rs` | a two-second cache; foreign handles | memory, pressure, thermal, GPU and power probes | foreign calls that fail half way | every handle released once; levels follow readings |
| Envelopes | `envelope/*.rs` | none (data) | validation, builders | none | |

**Interactions.** The daemon boots the supervisor, the governor, the store and
the RPC server and runs the health loop beside them. The server hands each
request to the kernel handler, which calls supervisor, governor and store in
turn; nothing locks across those calls. The work of a DAG node is a task that
the caller of `run()` supplies (`task_fn`, in practice an agent): an executor
spawns one per ready node and only reads its result. Hardware
probes reach the rest as one pressure level given to the governor. The DAG
engine shares its graph with any number of executors and with the runtime
editor through one `tokio::sync::RwLock`.

## 2. Modules and how they correspond to the code

| Module | Models | Granularity of a step |
|---|---|---|
| `Dag` | `DagGraph`, `RuntimeDag`, `DagExecutor` | one acquisition of the graph lock, or one spawned task ending |
| `CycleCheck` | `has_cycle`, `dfs_cycle` | one loop iteration, call or return of the recursion |
| `TopologicalSort` | `topological_sort` | one popped id with the loop over its dependents |
| `DagCheckpoint` | `DagPersistence`; composes `Dag` with files and crashes | one file written, or a step of `Dag` |
| `RestartTracker` | operators of `RestartTracker` | no state of its own |
| `TrackerRun` | the life of one tracker with a single user, which the supervisor implements for each child | one call, or a clock tick |
| `Supervisor` | `KernelSupervisor`, `HealthStatus::compute`; uses `RestartTracker` | one acquisition of one of the two locks |
| `SupervisorCalls` | `Supervisor` with histories of overlaps and of granted restarts; each child's tracker as an instance of `TrackerRun` | as `Supervisor` |
| `Governor` | `ResourceGovernor`, `TierUsage` | one load, add, subtraction or store of an atomic |
| `DagQueries` | `has_cycle` and `topological_sort` asked of one graph; composes `CycleCheck` and `TopologicalSort` | as theirs |
| `ModelAdapter` | `CircuitBreaker`, `ProviderRegistry`, `resolve` | one request resolved, one answer, one health report, a clock tick |
| `StateStore` | `SqliteStateStore`, `Transaction`, `AclGuard` | one statement SQLite runs, or one checkpoint decision |
| `AtomicStore` | what the store promises: rows, and batches of writes that take effect together | |
| `KernelHandler` | `KernelHandler`, `TaskRegistry`, `TaskEnvelope::validate` | what happens between two awaits, or under one lock |
| `Kernel` | `run_daemon`, `boot_sequence`, `graceful_shutdown`, `signal_handler`, `RpcServer`, `RpcClient`; composes `KernelHandler` | one await, one line read or written |
| `Sensors` | pressure, thermal and recommendation formulas | no state of its own |
| `IOKitWalk` | the GPU and power probes' walks over foreign objects | one foreign call |
| `Host` | probe cache, admission, allocator, shell and CLI agents; composes `Sensors` and `IOKitWalk` | one call of a component, one event of a child process |
| `MCGovernor`, `MCModelAdapter`, `MCStateStore`, `MCKernel`, `MCHost` | instances for TLC | |
| `DagProofs` (`Dag`, `DagCheckpoint`), `QueryProofs` (`DagQueries`), `SupervisorProofs` (`SupervisorCalls`, `TrackerRun`), `GovernorProofs`, `AdapterProofs`, `StoreProofs`, `KernelProofs`, `HostProofs` | theorems | |

**Dag.** `status` and `dependsOn` are the node map ("Absent" is an id not in
it); `pc[e]` says where executor `e`'s `run()` is; `handle[e]` holds the join
handles of its tick. `DispatchTick` is parts 1 and 2 of `execute_tick` (mark
under the write lock, spawn), `TaskEnds` a spawned task ending (a panic becomes
a failed result), `CollectTick` parts 3 and 4, `CheckRun` what `run()` does
after a tick. `AddNode`, `RemoveNode` and `UpdateDependencies` are the three
edits; a call that returns an error changes nothing and is a stuttering step.
Cyclicity is a definition here (a nonempty set of nodes each of which depends
on a member), and `CycleCheck` shows that the search computes it. Dependencies
are a set in `Dag` and `CycleCheck`, and the `Vec` they are in the code in
`TopologicalSort`, the only place where duplicates matter.

**DagCheckpoint.** `save_checkpoint` borrows the graph, so no step writes the
graph while it runs (`EngineStep`). `dag.json` is truncated and then written
(`SaveBegin`, `SaveDag`), then come the node files in any order. `SaveFails` is
an I/O error at any of these points. `clear` and `save_node_state` take no lock:
`Clear` and `SaveNodeState` may fall into a save, whose `dag.json` then goes to a
file that has lost its name. `Crash` may come anywhere; afterwards `Resume` is
`load_checkpoint`, with `InProgress` nodes reset to `Pending`, and `StartEmpty`
its error paths. `durable` and `kept` are histories: that a checkpoint was
completed and not cleared, and the results it held.

**RestartTracker.** `restart_times` is a set of pairs (serial, instant), so that
two restarts at one instant stay two; its order is never used by the code.
`WordBits` is 32 in the code. It is a constant because TLC's own integers have
32 bits; the instance uses 3, with a power computed in twice as many bits, as
the code computes a `u64` and keeps a `u32`.

**Supervisor.** A call of `update_state(Failed)` is `UpdateState`, then
`RestartGranted` or `RestartRefused` under the second lock, then `Snapshot` and
`Publish`. A refused restart returns before the refresh, as `?` does. All
children of an instance share one policy (`main.rs` gives its children three
different ones): a child's tracker is touched by no step about another child,
so policies meet nowhere.

**Governor.** `check_admission` is `CheckAdmission` (pressure), `LoadActive`,
`LoadTokens`, `LoadRss`, `SumTier` for every tier, `Decide`; `task_started` is
`StartActive`, `StartRss`; `task_ended` is `EndActive`, `EndRss`. A task is a
task envelope and may be submitted any number of times. `check_runtime` changes
no state and is the operator `CheckRuntime`.

**ModelAdapter.** A breaker is its state, its two counters and the time since it
opened. `Settled` is what `state()` does before it answers: an expired `Open`
becomes `HalfOpen`, and only a caller that looks makes it so. `Send` is
`resolve()` with the available providers and the last one used; a request stays
in `inflight` until `Succeeds` or `Fails`, which act on the breaker as it is by
then. `Health` reports the `AdapterStatus`. The repository has the parts of an
adapter and not the `ModelAdapter` trait's implementation; `Send` puts them
together as the comments of `resolve()` ask.

**StateStore.** `table` holds the committed rows, `view` the rows as the open
transaction sees them, `writer` is SQLite's write lock (external, taken by
`BEGIN IMMEDIATE`). A value is who wrote it. `Put` and `Delete` pass
the guard and write one row; `MaybeCheckpoint` is the policy that follows in the
same call, under the other two mutexes; a checkpoint may fail or be blocked by
another handle's transaction. `Panic` poisons a
handle's mutex, `Reopen` is a process that died or dropped its handle and opened
the file again. `AtomicStore` knows only rows and batches. The mapping from the
one to the other takes a transaction's batch to be the keys on which `view`
differs from `table`.

**KernelHandler and Kernel.** Requests are lines on a connection, and what a line
asks for is chosen when it is parsed. `job[c]` is where the handler of connection
`c` is. `task.submit` is `CheckSubmit`, `StartTask`; `task.complete` is
`RemoveTask`, `ReleaseBudget`; a `MetaCycleComplete` trigger is `CheckTrigger`
(health status read), `LockStore`, and the puts `PutDrift`, `PutCycle` and that
of the policy record, each of which may fail. `torn` remembers that a completion
was cut short. Methods that change nothing end at `Dispatch`. The governor is
reduced to active tasks per tier, wrapping both ways at `WordBits` (64 in the
code, 4 here); its admission is modelled step by step in `Governor`. A history
counts the tasks `started`, at most `MaxStarts`, fewer than the word holds.
`registry` is filled by `Register`: the code has a TODO where a task's subprocess
would be registered. `Kernel` adds `run_daemon` (`main`), the signal watch, the server
task with its broadcast receiver (`rx`), and the two ends of every connection;
the boot and shutdown orders are two constants, as they are two arrays in
`main.rs`. Lines are numbered by their place in the stream. A client's `call` may be
dropped inside `write_all` (`CutOff`: a fragment stays, which the next line
completes to one that cannot be parsed, or the end of the stream to a last line)
or while it waits or reads (`Abandon`: its answer, or the rest of it, is what the
next call reads). `Crash` is the end of the process anywhere, with the store's
records kept and everything else lost.

**Host, Sensors, IOKitWalk.** Readings are small numbers at the cut-offs of the
bands. `IOKitWalk` follows the references of the four kinds of objects the two
probes create, through every early `continue` and `return`. `Host` lets each
agent's caller go through `Ask`, `Allocate`, `Spawn`, (for the CLI)
`PromptWritten`, `Finished` or `TimesOut`, `Deallocate`, while readings change,
the cache expires and children read, fork and end as they like. A sensor's answer
is an option: the empty set or the set of one number. When `execute` gives up, the
child is killed and a descendant goes on as an orphan (`DropPipes`).

**Inputs assumed.** Nodes are added as `Pending` and nobody edits a status
through `get_node_mut`; a governor client calls `task_started` only after
`Admitted` and `task_ended` once with the same tier and RSS (the handler does not
keep to the second, see section 5); the headroom is at most the ceiling (the
default configuration and `main.rs` both keep this; the subtraction in the code is
unsigned). Ranks of providers are natural numbers, and several may be equal.

## 3. What the runs check

| Run | Question | Instance | Distinct states |
|---|---|---|---|
| `dag` | Can two executors and the editor on one graph break an ordering or a result, and does `run()` return and give up only when stuck? `DependenciesRespected`, `OneOwner`, `ProgressPossible`, `ResultsAreFinal`, `GivesUpOnlyWhenStuck`, `RunReturns` | 3 ids, 2 executors, `MaxParallel` 2, fairness | 22 917 |
| `graph_queries` | Are `has_cycle` and `topological_sort` right in every iteration order, do they end, and do they agree? `VerdictExact`, `SortedIsTopological`, `AnswersAgree`, `EveryStepAdvances`, `BothReturn` | every graph over up to 3 ids with lists of up to 3 dependencies: missing, self and duplicate ones included | 2.3 million |
| `checkpoint` | Crashes and errors anywhere: is every resumed graph sound for the engine, and does it have the results of the last checkpoint? `DependenciesRespected`, `OneOwner`, `ResultsSurvive` | 2 ids, 1 executor | 193 170 |
| `supervisor_pair` | Calls interleaved at every lock release: `PolicyKept`, `FailedOnlyWhenExhausted`, `HealthAloneIsCurrent`, `TrackersUndisturbed`, `BackoffGrowsWhileItFits`, `HealthConverges` | 1 child, 2 callers, 2 restarts per window of 1, fairness | 134 641 |
| `governor` | Atomics without a lock: `ActiveExact`, `RssExact`, `ConcurrencyBounded`, `CeilingBounded`, `RuntimeAgrees` | 6 envelopes, 2 tiers, 2 submissions at a time, symmetry | about 526 000 |
| `adapter` | Breakers against late answers: `OpenHolds`, `FallbackJustified`, `DownMeansRefused`, `Recovers` | 3 providers, 3 kinds of requests, 2 in flight per provider, fairness | 32 143 |
| `store` | Is the store an `AtomicStore` (`Atomic`), do append-only entries stay (`AppendOnlyStays`), is the write trigger of the checkpoint kept (`CheckpointKeepsUp`)? | 2 handles, 2 keys, thresholds 2 writes and 1 tick | 152 482 |
| `kernel` | The daemon from boot to exit with crashes and spoilt lines: `CycleRecordsConsistent`, `LiveTasksCharged`, `OneAnswerEach` | 2 connections, 3 calls, 1 task, 2 cycles, symmetry | 3.6 million |
| `host` | Probes, scheduler, agents: `HandlesReleasedOnce`, `AllocatorSound`, `WorseReadingsNeverRaise`, `ExecuteReturns` | 2 agents, 1 slot, 3 platforms, 5 readings each, fairness | 142 935 |
| `lost_shutdown`, `checkpoint_torn`, `wrong_tier` | violations: section 5 | as small as shows them | |

**Why the bounds are enough.** Three ids hold every shape of two edges (chain,
fork, join), a two- and a three-cycle, a node outside a cycle, and more ready
nodes than `MaxParallel`; two executors are the first pair that can collide, and
the theorems of `DagProofs` remove both bounds for the safety properties. Two
ids suffice for checkpoints: one dependency, and files written in either order.
Children meet only in the health table, hence one child; two callers are needed
for every race. The clock leaves a window once, so that restarts age out, and
four restarts take the backoff to its cap and the multiplier past its word.
The governor's instance has more envelopes in the sheddable tier than the
overshoot bound allows to run, so that the bounds are reached and could be
exceeded; limits are 1 task, 2 tokens and 2 units of RSS per tier, so that each
limit is the binding one somewhere. Three providers out of rank order give a
best, a second and a last choice; thresholds of two leave a breaker half way
between its states, and two requests in flight let a late answer arrive after
the breaker opened, expired or closed. One store handle may write everything and
the other one key, both are blocked by each other's transactions, and a count
above the threshold shows a failed checkpoint. Two connections are the first pair
to race for the store; three calls let one client submit and complete while
another does the same or completes a cycle, or two calls be cut off or abandoned
and followed by a third. The task is a `P2Background` one, so that every release
meets another tier than the charge did and the counter of `P1Normal` wraps below
zero; `wrong_tier` has tasks of both tiers, and `ChargeHolds` is for all.
The host has one slot for two agents, so that the second is refused or admitted
by a stale check; the readings lie on and just below the cut-offs.
`TokenBound`, `MaxTime`, `MaxInFlight`, `MaxCount`, `MaxStarts`, `MaxCalls` and
`MaxDeps` are guards of the models.

**Deadlock** is checked in every run but `graph_queries`, which ends with its
two answers, and those of `Kernel`, where the daemon exits and calls run out.

**Fairness.** `Dag!FairSpec`: weak fairness of each executor's steps (a
`run()` that can go on is polled by the runtime) and of its tasks (`task_fn` is
the caller's; the agents of the crate run under a `timeout`, except for the
prompt, see `ExecuteReturns`). Nobody has to call `run()`, and
`RunReturns` asks only that the edits stop. `Supervisor!Fairness`: a call that
has begun goes on, because tokio's `RwLock` queues its waiters and neither lock
is held across an await; nobody has to call. `DagQueries!QuerySpec`: sequential
code runs on. `ModelAdapter!FairSpec`: time passes, and providers answer, one way
or the other, what they were sent. `Kernel!FairSpec`: the runtime polls the
daemon, the server and the handlers; nobody has to send a signal or a request.
`Host!FairSpec`: a probe runs on, the runtime polls `execute` and its timer
fires; a child owes nothing. No liveness is claimed of tracker, checkpoints,
governor and store.

## 4. What is proved

The theorems have the form `Spec => []Inv`, an action property or a refinement,
for every value of the constants that the named ASSUMEs admit. The proofs are
inductive and rest on no other assumption.

- **DagProofs** (`DagAssumption`: finitely many ids, `MaxParallel` a natural; any
  set of executors). `TypeCorrect`; `OneOwnerInvariant`, inductive with
  `TypeOK`; `DependenciesInvariant` and `ResultsFinal`, which need `OneOwner`:
  only because a tick collects nodes that are still `InProgress` and its own is
  an ended node left alone, and only `Pending` nodes are edited or removed.
  `AcyclicInvariant`: steps other than edits leave the edges, and removing edges
  closes no cycle (`FewerEdges`). `ProgressInvariant`: if nothing is ready in
  a closed graph without failed or running nodes, the pending nodes are a
  cyclic set. `GivesUpStuck`: an executor that gives up holds no handle, so by
  `OneOwner` whatever is running is somebody else's. With crashes and files,
  `ResumeIsSafe` and `ResultsSurviveCrashes` rest on `CkInv`: the graph in memory
  satisfies the engine's invariant (`EngineInv`), a whole `dag.json` is acyclic
  and respects its dependencies as it was once such a graph (`SnapshotInv`), while a
  save runs a `dag.json` already written is the graph in memory (`SaverInv`), and
  the results `kept` are in the graph of a running process and in every `dag.json`
  that can be loaded (`KeptInv`): no engine step takes a result back, so a newer
  checkpoint has those of the older one.
- **QueryProofs** (`QueryAssumption`: finitely many ids). `HasCycleExact`: the
  search is right on every graph and in every order. The invariant: the stack
  set is the path of calls (`StackIsPath`), every explored edge of a node on the
  path leads to a visited node, and the nodes whose search has returned form a set
  from which no cycle can be reached. `StepsAdvance`: every step takes a root, an
  unvisited node or a dependency off what is left, which is what ends the recursion
  (`BothReturn` itself is left to TLC). `SortHolds` rests on `DegreeInv`: the
  in-degree of a node is the number of entries of its list that name nodes of the
  graph, less one for every popped dependency. The loss is per dependency and not
  per entry, so the in-degree never goes below zero, and zero means that those
  entries have no duplicate and all of them are popped. `AgreeHolds`: without duplicates the nodes that are never
  queued are a cyclic set, so a short order means a cycle; and `HasCycleExact`
  says that the other query sees it.
- **SupervisorProofs** (any children, callers, policy). `WithinBudgetHolds`;
  `NoFailureLost`: a child that is `Failed` with nobody handling it has used up
  its restarts. `HealthAloneHolds`: the snapshot of a `health()` that nothing
  overlaps is still the table when it is published. `RestartRateHolds` is about
  one tracker, through `TimesAreRecentGrants`: what the pruning has forgotten is out
  of the window, so a grant that would be the `max_restarts + 1`-st of a window
  would have found the table full. `TrackersHold` is the refinement: for every
  child, the supervisor with its history implements `TrackerRun`, a step of any
  caller being a call on that tracker, a tick or a stutter. `PolicyHolds` puts the
  two together: each child's restarts keep to the rate (`PolicyKept`).
- **GovernorProofs** (any tiers, budgets and tasks). `CountCorrect`;
  `RuntimeHolds`, through `EstimateFits` (an admitted task's estimate is within its
  tier's budget); `ConcurrencyHolds`: a tier passes `max_concurrent` by at most
  `MaxInFlight - 1`. That bound alone is not inductive; `RoomLeft` is,
  with `InFlightBounded`: already the active tasks together with the
  submissions that have passed the limit check and are not counted yet stay
  within that bound. `RssHolds`: sums over sets of tasks are defined by counting
  units (`SumOf`), so that their laws follow from those of cardinality without an
  induction. `CeilingHolds` is the hardest: an admission adds up loads that were
  never true together. The invariant `Explained` says that every state has a history:
  an order in which the tasks began their sums, and for each of them which earlier
  ones were still in flight beside it (at most `MaxInFlight - 1`) and which its
  sum has met; every earlier one is among these, or its tier is still unread.
- **AdapterProofs** (any providers, requests, thresholds). `OpenBreakersHold`: no
  late answer ends or shortens the open time. `FallbackHolds` rests on
  `BestIsFirst`: `Precedes` orders providers by rank and then by their place in
  the list, so a nonempty set of candidates has a first one, found as the least
  rank and then the least position. `DownHolds`: when every breaker is open,
  nothing is resolved.
- **StoreProofs** (any handles, identities, keys, thresholds). `AppendOnlyHolds` is
  a fact about single steps: only the commit of a transaction, whose writes pass no
  guard, may take an append-only entry away. `CheckpointHolds`: between two calls a handle has counted fewer writes than the threshold, or its last checkpoint failed.
  `StoreIsAtomic`: the initial state maps to an initial state, and every step of
  the store is a step of `AtomicStore` or a stutter; a rollback, a failed commit,
  a panic and a crash all map to `Abort`.
- **KernelProofs** (any connections, processes, orders, tasks, priorities and
  triggers). `CycleRecordsHold`: the drift score and the cycle on record belong
  together. Between the two puts they do not; the invariant `WriterInv` says that
  then the store's mutex is held by the connection whose next put is the cycle that
  the drift score is of, and that `torn` is set until the last put of that
  completion. `ChargeHolds`: the tiers together, modulo the word of a counter, are
  charged for every live task, although `task.complete` releases `P1Normal` whatever was charged (section 5).
  The counter of `P1Normal` may then stand for a negative number modulo the word;
  the invariant `ChargeInv` reads it as such, and adds the releases still to come of
  tasks already removed. It needs that fewer tasks are started than a word counts
  (`HandlerAssumption`). `OneAnswerHolds`: lines sent, those on their way, the one
  in hand and the answers add up (`LinkInv`), spoilt lines included.
- **HostProofs** (`HostAssumption`, `SensorsAssumption`: finitely many agents,
  requirements and readings that are numbers, any limits). `HandlesHold`: `WalkInv`
  names for each label the references that are owned there. `AllocatorHolds`:
  `AgentInv` ties the counters and the running children to the holders, so that a
  release never meets a counter that it would have to saturate. `AdviceHolds`: every formula between a
  reading and the recommendation is monotone (bands, the hottest zone, pressure,
  thermal level, the division by the memory of an agent), through the cache.

**Only model-checked.** Liveness and termination (`RunReturns`, `BothReturn`,
`HealthConverges`, `Recovers`, `ExecuteReturns`), which are outside
these provers; and `BackoffGrowsWhileItFits`, whose powers of two are outside the
solver's arithmetic and would need an induction over the exponent. Every other
invariant and action property of a passing run is a theorem.

## 5. Findings and observations

Each finding is a run whose one property TLC violates; the property states what
a doc or comment of the code says.

1. `lost_shutdown` (`ServeReturns`): `serve()` subscribes to the shutdown broadcast
   only after it was spawned, polled and bound (`server.rs:59-67`). A shutdown sent
   before that reaches nobody, and `run_daemon` waits for ever at `main.rs:223`.
2. `checkpoint_torn` (`CheckpointSurvives`): `save_checkpoint` overwrites `dag.json`
   in place; a crash during a second save leaves no loadable checkpoint
   (`persistence.rs:40`).
3. `wrong_tier` (`MaxConcurrentKept`): `task.complete` always releases `P1Normal`
   (`handler.rs:169`). A task of another tier stays charged there, and `P1Normal`
   admits one more than its limit. `LiveTasksCharged` says what holds all the
   same: no charge of a live task is lost from the sum of the tiers.

Observations met while modelling. Where a property has a condition because of
one, the property is named.

- DAG: a node that lists a dependency twice makes `topological_sort` report a
  cycle where `has_cycle` finds none, and the executor runs it
  (`graph.rs:177-205`; `AnswersAgree` asks for lists without duplicates).
  `load_checkpoint` never reads the node files (`persistence.rs:80-85`). With
  `max_parallel = 0` `run()` goes round for ever while a node is ready
  (`executor.rs:110`). An executor that shares its graph may return "stuck" while
  another one still runs a node.
- Supervisor: the multiplier is cut to 32 bits, so from the 33rd consecutive
  failure the backoff is zero, although `process.rs:98` promises an exponential
  increase (`process.rs:102`; `BackoffGrowsWhileItFits`).
  `update_state(Failed)` may return `MaxRestartsExceeded` for a child
  that another caller has just put to `Restarting` (`kernel.rs:92-108`). A `health()`
  that overlaps with other calls may return a table older than the call
  (`kernel.rs:84`, `133-137`; `HealthAloneIsCurrent`).
- Handler and dispatch: RSS is never released (`handler.rs:169` gives 0), and a task
  submitted twice is charged twice and released once. `loop.trigger` decides on a
  health status that may be stale (`handler.rs:274`). After a dropped call the next one
  reads its answer, the id is not compared (`client.rs:54`; `OneAnswerEach` is about
  the order in the stream). `serve()` does not wait for its connections, and one may
  take up a request while the processes are stopped (`server.rs:83`,
  `main.rs:221-226`).
- Store: a checkpoint that SQLite reports as blocked comes back as a row that
  `execute_batch` ignores, so the counter starts anew. Writes in a
  transaction are not counted, and the time trigger is looked at only after a
  write: `CheckpointKeepsUp` is about the write trigger and no bound on the log.
  `put` replaces an append-only entry that only `delete` protects (`acl.rs:89-91`,
  `engine.rs:153`). A `get` on the store inside its own transaction waits for the
  mutex it holds. The daemon passes the store on without an `AclGuard`
  (`main.rs:194`).
- Host: the comment at `shell.rs:57` speaks of the process group, but
  `kill_on_drop` kills the child alone: a descendant goes on as an orphan after the
  task has failed and its resources were released. While it keeps the pipes open it
  delays the result until the timeout. The CLI agent writes its prompt before
  the timeout starts (`claude_cli.rs:91`): a child that never reads and does not
  end blocks `execute` for ever, the one exception in `ExecuteReturns`.
  `can_schedule` and `allocate` are two calls, so two callers may pass the limit
  together, and `can_schedule` looks at the machine and not at what is already
  allocated.

## 6. Not modelled

- `hardware/snapshot.rs`: a read of the probes with a formatted date. The bands
  of the GPU and power levels: nothing consumes them.
- The health loop's tick, as part of `Kernel`: it is `UpdatePressure` of
  `Governor` and `CallHealth` of `Supervisor`, where its races are modelled.
- The text of `recommend_config`; command line parsing and logging; JSON and
  error codes; uptimes, pids and titles; the creation date of an envelope and
  its token and wall-time predicates, which have no caller.
- The `ModelAdapter` trait, which nothing implements; retry and budget settings,
  which nothing reads.
- Two overlapping saves of one graph: both hold the read lock and write the same
  bytes. Torn node files: nothing reads them.
- Floating point: percentages and multipliers are exact integers in `Sensors`.

Worth adding next: the laws of powers of two that `BackoffGrowsWhileItFits` needs,
and a ledger in which every admitted task is charged once and released once, as
an abstract specification of `Governor`.
