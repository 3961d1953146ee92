--------------------------- MODULE KernelHandler ----------------------------
(***************************************************************************)
(* KernelRequestHandler and TaskRegistry of src/supervisor/handler.rs: the *)
(* requests of several connections, handled side by side.                  *)
(*                                                                         *)
(* A step is what a handler does between two awaits or under one lock; the *)
(* counters of the governor, the registry, the supervisor's table and the  *)
(* state store are shared.  check_admission is one step here (Governor     *)
(* takes it apart) and so is the snapshot that health() returns            *)
(* (Supervisor does).                                                      *)
(*                                                                         *)
(* Data left out: texts, DAG ids, phases, trace contexts, token counts and *)
(* trigger_seq, whose numbers nothing else reads.                          *)
(***************************************************************************)
EXTENDS Naturals, FiniteSets

CONSTANTS
    Conn,          \* the connections of loop subprocesses
    Nobody,        \* no connection
    ProcessId,     \* the supervised processes
    Envelope,      \* the task envelopes that are submitted
    Trigger,       \* the loop triggers that are sent
    Limit,         \* TierBudget.max_concurrent of each Priority
    MaxStarts,     \* bound: tasks started in one life of the daemon
    WordBits       \* width of active_tasks, 64 in the code

\* Priority
Tier == {"P0Critical", "P1Normal", "P2Background"}

TaskIds == {e.task_id : e \in Envelope} \ {""}

ASSUME HandlerAssumption ==
    /\ Nobody \notin Conn
    /\ Limit \in [Tier -> Nat]
    /\ \A e \in Envelope : e.priority \in Tier
    /\ MaxStarts \in Nat /\ 2^WordBits \in Nat /\ MaxStarts < 2^WordBits

VARIABLES
    procState,   \* ProcessState of each child in the supervisor's table
    registry,    \* the task ids in TaskRegistry.tasks
    admitted,    \* admitted tasks whose subprocess is still to be registered
    active,      \* active_tasks of each tier
    started,     \* how often task_started was called (history, for the bound)
    records,     \* last_drift, last_cycle and head in the state store
    torn,        \* the last MetaCycleComplete wrote only some of its records
    lock,        \* the connection that holds the state store's mutex
    job          \* the request each connection handles, and how far it is

handlerVars == <<procState, registry, admitted, active, started, records, torn, lock, job>>

NoJob == [req |-> [method |-> "none"], step |-> "idle"]

\* The line a connection reads: one of the methods RpcMethod knows, with its
\* parameters, one it does not know, or no request at all.
Requests ==
    {[method |-> m] : m \in {"ping", "unknown", "parse error", "missing params"}}
      \union {[method |-> "task.submit", env |-> e] : e \in Envelope}
      \union {[method |-> m, task |-> t] :
                m \in {"task.progress", "task.complete", "task.cancel"}, t \in TaskIds}
      \union {[method |-> "loop.trigger", trigger |-> g] : g \in Trigger}

At(c, m, s) == job[c].step = s /\ job[c].req.method = m
GoTo(c, s)  == job' = [job EXCEPT ![c].step = s]

\* The answer is ready to be written; the request is no longer needed.
Done    == [req |-> [method |-> "none"], step |-> "done"]
Stop(c) == job' = [job EXCEPT ![c] = Done]

\* Lines that change nothing: those process_line answers with an error, ping,
\* and task.progress and task.cancel, which look up and answer.
Harmless(r) ==
    r.method \in {"ping", "unknown", "parse error", "missing params",
                  "task.progress", "task.cancel"}

\* process_line and handle, up to the first effect.
Dispatch(c, r) ==
    job' = [job EXCEPT ![c] = IF Harmless(r) THEN Done ELSE [req |-> r, step |-> "start"]]

-----------------------------------------------------------------------------
(* task.submit *)

\* TaskEnvelope::validate
Valid(e) ==
    /\ e.task_id # "" /\ e.parent_dag_id # ""
    /\ e.envelope_version = 1
    /\ e.warning_percent \in 0..100
    /\ e.max_tokens > 0 /\ e.max_rss_mb > 0 /\ e.max_wall_time > 0

\* validate and check_admission.  The tier's limit on running tasks is the
\* one reason to refuse that the counters here show; pressure, tokens and
\* RSS are others.
CheckSubmit(c) ==
    /\ At(c, "task.submit", "start")
    /\ LET e == job[c].req.env IN
         \/ Valid(e) /\ active[e.priority] < Limit[e.priority] /\ GoTo(c, "admit")
         \/ Stop(c)
    /\ UNCHANGED <<procState, registry, admitted, active, started, records, torn, lock>>

\* task_started: fetch_add(1) on the tier of the envelope.  Spawning the
\* subprocess is left to its caller.
StartTask(c) ==
    /\ At(c, "task.submit", "admit")
    /\ started < MaxStarts /\ started' = started + 1
    /\ LET e == job[c].req.env IN
         /\ active' = [active EXCEPT ![e.priority] = IF @ = 2^WordBits - 1 THEN 0 ELSE @ + 1]
         /\ admitted' = admitted \union {e.task_id}
    /\ Stop(c)
    /\ UNCHANGED <<procState, registry, records, torn, lock>>

\* TaskRegistry.register, by whoever spawns the subprocess of a task.
Register(t) ==
    /\ t \in admitted
    /\ admitted' = admitted \ {t}
    /\ registry' = registry \union {t}
    /\ UNCHANGED <<procState, active, started, records, torn, lock, job>>

-----------------------------------------------------------------------------
(* task.complete *)

\* Mutant: what remove() returned is not looked at.
RemoveTaskUnchecked(c) ==
    /\ At(c, "task.complete", "start")
    /\ registry' = registry \ {job[c].req.task}
    /\ GoTo(c, "release")
    /\ UNCHANGED <<procState, admitted, active, started, records, torn, lock>>

\* TaskRegistry.remove: under one write lock, so one of two racing calls
\* gets the path and the other is denied.
RemoveTask(c) ==
    /\ At(c, "task.complete", "start")
    /\ registry' = registry \ {job[c].req.task}
    /\ IF job[c].req.task \in registry THEN GoTo(c, "release") ELSE Stop(c)
    /\ UNCHANGED <<procState, admitted, active, started, records, torn, lock>>

\* task_ended(P1Normal, 0), whatever the tier of the task: fetch_sub(1).
ReleaseBudget(c) ==
    /\ At(c, "task.complete", "release")
    /\ active' = [active EXCEPT !["P1Normal"] = IF @ = 0 THEN 2^WordBits - 1 ELSE @ - 1]
    /\ Stop(c)
    /\ UNCHANGED <<procState, registry, admitted, started, records, torn, lock>>

-----------------------------------------------------------------------------
(* loop.trigger *)

\* The snapshot decides: source Running, target Running unless the Kernel.
TriggerAllowed(g) ==
    /\ procState[g.source] = "Running"
    /\ g.target = "Kernel" \/ procState[g.target] = "Running"

\* After the snapshot only MetaCycleComplete changes anything.
CheckTrigger(c) ==
    /\ At(c, "loop.trigger", "start")
    /\ LET g == job[c].req.trigger IN
         IF TriggerAllowed(g) /\ g.kind = "MetaCycleComplete"
         THEN GoTo(c, "persist") ELSE Stop(c)
    /\ UNCHANGED <<procState, registry, admitted, active, started, records, torn, lock>>

\* Mutant: the store is not locked for the three writes together.
LockStoreShared(c) ==
    /\ At(c, "loop.trigger", "persist")
    /\ GoTo(c, "drift")
    /\ UNCHANGED <<procState, registry, admitted, active, started, records, torn, lock>>

LockStore(c) ==
    /\ At(c, "loop.trigger", "persist")
    /\ lock = Nobody
    /\ lock' = c
    /\ GoTo(c, "drift")
    /\ UNCHANGED <<procState, registry, admitted, active, started, records, torn>>

\* One put.  An error ends the request there and frees the mutex.
PutRecord(c, step, key, next) ==
    /\ At(c, "loop.trigger", step)
    /\ \/ /\ records' = [records EXCEPT ![key] = job[c].req.trigger.cycle]
          /\ torn' = (next # "done")
          /\ lock' = IF next = "done" THEN Nobody ELSE lock
          /\ IF next = "done" THEN Stop(c) ELSE GoTo(c, next)
       \/ /\ lock' = Nobody
          /\ Stop(c)
          /\ UNCHANGED <<records, torn>>
    /\ UNCHANGED <<procState, registry, admitted, active, started>>

PutDrift(c) == PutRecord(c, "drift", "last_drift", "cycle")
PutCycle(c) ==
    PutRecord(c, "cycle", "last_cycle",
              IF job[c].req.trigger.policy_changed THEN "head" ELSE "done")
PutHead(c)  == PutRecord(c, "head", "head", "done")

-----------------------------------------------------------------------------

HandlerStep(c) ==
    \/ CheckSubmit(c) \/ StartTask(c)
    \/ RemoveTask(c) \/ ReleaseBudget(c)
    \/ CheckTrigger(c) \/ LockStore(c)
    \/ PutDrift(c) \/ PutCycle(c) \/ PutHead(c)
=============================================================================
