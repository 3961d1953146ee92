-------------------------------- MODULE Dag --------------------------------
(***************************************************************************)
(* The DAG engine: the graph of src/dag/graph.rs shared behind one         *)
(* RwLock by the executors of src/dag/executor.rs and by the runtime       *)
(* editor of src/dag/runtime.rs.                                           *)
(*                                                                         *)
(* A step of this module is what the code does under one acquisition of    *)
(* the graph lock (no lock is held across an await), or one spawned task   *)
(* ending.  A call that returns an error leaves the graph as it found it   *)
(* (add_node and update_dependencies take their tentative change back      *)
(* before they release the lock), so it is a stuttering step.              *)
(*                                                                         *)
(* Data left out: titles, output files and result texts.  Node.result is   *)
(* written together with the status and is Some exactly when the status is *)
(* Done or Failed.  NodeStatus::Blocked is assigned nowhere.  depends_on   *)
(* is a set here; what its duplicates do is in TopologicalSort.            *)
(***************************************************************************)
EXTENDS Naturals, FiniteSets

CONSTANTS
    NodeId,       \* the ids that nodes may be given
    Executor,     \* the DagExecutor values that share the graph
    MaxParallel   \* DagExecutor.max_parallel

ASSUME DagAssumption ==
    /\ IsFiniteSet(NodeId)
    /\ MaxParallel \in Nat

VARIABLES
    status,     \* NodeStatus of each node, "Absent" for an id not in the map
    dependsOn,  \* depends_on of each node, {} for an absent one
    pc,         \* where each executor's run() is
    handle      \* the join handles of the tick each executor is in

graphVars == <<status, dependsOn>>
execVars  == <<pc, handle>>
vars      == <<status, dependsOn, pc, handle>>

NodeStatus == {"Pending", "InProgress", "Done", "Failed"}
Verdict    == {"ok", "errFailed", "errStuck"}
TaskResult == {"success", "failure"}

-----------------------------------------------------------------------------
(* DagGraph: the queries *)

Nodes == {n \in NodeId : status[n] # "Absent"}

WithStatus(s) == {n \in NodeId : status[n] = s}

\* A finite dependency relation d on the nodes p has a cycle iff some
\* nonempty set of them has, for each member, a dependency inside the set.
\* (Dependencies on ids outside p are skipped.)  CycleCheck shows that the
\* depth-first search computes this.
HasCycle(p, d) == \E S \in (SUBSET p) \ {{}} : \A n \in S : d[n] \cap S # {}

\* Mutant: a node is taken for ready once no dependency is pending or running.
ReadyDespiteFailure ==
    {n \in WithStatus("Pending") :
        \A m \in dependsOn[n] : status[m] \in {"Done", "Failed"}}

\* Pending nodes whose every dependency is in the graph and Done.
Ready == {n \in WithStatus("Pending") : dependsOn[n] \subseteq WithStatus("Done")}

IsComplete == Nodes # {} /\ Nodes = WithStatus("Done")

HasFailed == WithStatus("Failed") # {}

-----------------------------------------------------------------------------
(* RuntimeDag: edits of the graph while executors may be running *)

\* add_node: refuses a duplicate id and a node that would close a cycle.
AddNode(n, ds) ==
    /\ status[n] = "Absent"
    /\ ~HasCycle(Nodes \union {n}, [dependsOn EXCEPT ![n] = ds])
    /\ status' = [status EXCEPT ![n] = "Pending"]
    /\ dependsOn' = [dependsOn EXCEPT ![n] = ds]
    /\ UNCHANGED execVars

\* Mutant: the editor forgets that only Pending nodes may be removed.
RemoveNodeAnyStatus(n) ==
    /\ status[n] # "Absent"
    /\ \A m \in Nodes \ {n} : n \notin dependsOn[m]
    /\ status' = [status EXCEPT ![n] = "Absent"]
    /\ dependsOn' = [dependsOn EXCEPT ![n] = {}]
    /\ UNCHANGED execVars

\* remove_node: only a Pending node that no other node depends on.
RemoveNode(n) ==
    /\ status[n] = "Pending"
    /\ \A m \in Nodes \ {n} : n \notin dependsOn[m]
    /\ status' = [status EXCEPT ![n] = "Absent"]
    /\ dependsOn' = [dependsOn EXCEPT ![n] = {}]
    /\ UNCHANGED execVars

\* Mutant: the new dependencies are kept without looking for a cycle.
UpdateDependenciesUnchecked(n, ds) ==
    /\ status[n] = "Pending"
    /\ dependsOn' = [dependsOn EXCEPT ![n] = ds]
    /\ UNCHANGED <<status, execVars>>

\* update_dependencies: only of a Pending node; taken back on a cycle.
UpdateDependencies(n, ds) ==
    /\ status[n] = "Pending"
    /\ ~HasCycle(Nodes, [dependsOn EXCEPT ![n] = ds])
    /\ dependsOn' = [dependsOn EXCEPT ![n] = ds]
    /\ UNCHANGED <<status, execVars>>

Edit ==
    \E n \in NodeId :
        \/ RemoveNode(n)
        \/ \E ds \in SUBSET NodeId : AddNode(n, ds) \/ UpdateDependencies(n, ds)

-----------------------------------------------------------------------------
(* DagExecutor *)

\* The caller calls run(), for the first time or again after it returned.
StartRun(e) ==
    /\ pc[e] \in {"idle"} \union Verdict
    /\ pc' = [pc EXCEPT ![e] = "tick"]
    /\ UNCHANGED <<graphVars, handle>>

\* ready_nodes().take(max_parallel): the map's order decides which.
Takes(S) ==
    /\ S \subseteq Ready
    /\ Cardinality(S) = IF Cardinality(Ready) <= MaxParallel
                        THEN Cardinality(Ready) ELSE MaxParallel

\* Mutant: the nodes are spawned without being marked under the lock.
DispatchTickUnmarked(e) ==
    /\ pc[e] = "tick"
    /\ \E S \in SUBSET Ready :
         /\ Takes(S)
         /\ handle' = [handle EXCEPT ![e] =
                         [n \in NodeId |-> IF n \in S THEN "running" ELSE "none"]]
         /\ pc' = [pc EXCEPT ![e] = IF S = {} THEN "checkIdle" ELSE "await"]
    /\ UNCHANGED graphVars

\* execute_tick, parts 1 and 2: mark the nodes taken InProgress under the
\* write lock and spawn a task for each; with none to run the tick returns.
DispatchTick(e) ==
    /\ pc[e] = "tick"
    /\ \E S \in SUBSET Ready :
         /\ Takes(S)
         /\ status' = [n \in NodeId |-> IF n \in S THEN "InProgress" ELSE status[n]]
         /\ handle' = [handle EXCEPT ![e] =
                         [n \in NodeId |-> IF n \in S THEN "running" ELSE "none"]]
         /\ pc' = [pc EXCEPT ![e] = IF S = {} THEN "checkIdle" ELSE "await"]
    /\ UNCHANGED dependsOn

\* A spawned task ends; a panic is turned into a failed NodeResult.
TaskEnds(e, n, r) ==
    /\ handle[e][n] = "running"
    /\ handle' = [handle EXCEPT ![e][n] = r]
    /\ UNCHANGED <<graphVars, pc>>

StatusOf(result) == IF result = "success" THEN "Done" ELSE "Failed"

\* execute_tick, parts 3 and 4: once every handle has resolved, write the
\* results of the nodes that are still in the graph.
CollectTick(e) ==
    /\ pc[e] = "await"
    /\ \A n \in NodeId : handle[e][n] # "running"
    /\ status' = [n \in NodeId |->
                    IF status[n] # "Absent" /\ handle[e][n] # "none"
                    THEN StatusOf(handle[e][n]) ELSE status[n]]
    /\ handle' = [handle EXCEPT ![e] = [n \in NodeId |-> "none"]]
    /\ pc' = [pc EXCEPT ![e] = "checkRan"]
    /\ UNCHANGED dependsOn

\* Mutant: an idle tick alone decides that the run is over.
RunVerdictWithoutRecheck(idle) ==
    IF IsComplete THEN "ok"
    ELSE IF idle THEN IF HasFailed THEN "errFailed" ELSE "errStuck"
                 ELSE "tick"

\* Mutant: an idle tick over failed nodes sleeps and tries again.
RunVerdictWaitsOnFailure(idle) ==
    IF IsComplete THEN "ok"
    ELSE IF idle /\ Ready = {} /\ ~HasFailed THEN "errStuck" ELSE "tick"

\* What run() does under the read lock after a tick: return, or sleep and
\* tick again.  idle says that the tick ran nothing.
RunVerdict(idle) ==
    IF IsComplete THEN "ok"
    ELSE IF idle /\ Ready = {}
         THEN IF HasFailed THEN "errFailed" ELSE "errStuck"
         ELSE "tick"

CheckRun(e) ==
    /\ pc[e] \in {"checkIdle", "checkRan"}
    /\ pc' = [pc EXCEPT ![e] = RunVerdict(pc[e] = "checkIdle")]
    /\ UNCHANGED <<graphVars, handle>>

-----------------------------------------------------------------------------

\* DagGraph::new() and executors whose run() has not been called.
Init ==
    /\ status = [n \in NodeId |-> "Absent"]
    /\ dependsOn = [n \in NodeId |-> {}]
    /\ pc = [e \in Executor |-> "idle"]
    /\ handle = [e \in Executor |-> [n \in NodeId |-> "none"]]

ExecutorStep(e) == DispatchTick(e) \/ CollectTick(e) \/ CheckRun(e)

TaskStep(e) == \E n \in NodeId, r \in TaskResult : TaskEnds(e, n, r)

Next ==
    \/ Edit
    \/ \E e \in Executor : StartRun(e) \/ ExecutorStep(e) \/ TaskStep(e)

Spec == Init /\ [][Next]_vars

\* The runtime polls a run() that can go on, and spawned tasks end (agents
\* run under a timeout).  Nobody has to call run() or edit the graph.
FairSpec ==
    /\ Spec
    /\ \A e \in Executor : WF_vars(ExecutorStep(e)) /\ WF_vars(TaskStep(e))

-----------------------------------------------------------------------------
(* Properties *)

\* Types of the graph map, the executors' control points and join handles.
TypeOK ==
    /\ status \in [NodeId -> NodeStatus \union {"Absent"}]
    /\ dependsOn \in [NodeId -> SUBSET NodeId]
    /\ pc \in [Executor -> {"idle", "tick", "await", "checkIdle", "checkRan"}
                              \union Verdict]
    /\ handle \in [Executor -> [NodeId -> {"none", "running"} \union TaskResult]]

\* A node was only ever started after all its dependencies were Done, and
\* no later edit by RuntimeDag undoes that: what ready_nodes checked under
\* the lock stays true while the task runs and after it ended.
DependenciesRespected ==
    \A n \in NodeId :
        status[n] \in {"InProgress", "Done", "Failed"} =>
            dependsOn[n] \subseteq WithStatus("Done")

\* The graph stays acyclic under every interleaving of add_node and
\* update_dependencies with running ticks (has_cycle and its roll-backs).
Acyclic == ~HasCycle(Nodes, dependsOn)

\* An InProgress node is awaited by exactly one executor, and an executor
\* awaits only InProgress nodes: no node is run twice by executors that
\* share a graph, and none is left InProgress by a tick that returned.
OneOwner ==
    /\ \A e \in Executor, n \in NodeId :
         handle[e][n] # "none" => status[n] = "InProgress" /\ pc[e] = "await"
    /\ \A n \in WithStatus("InProgress") : \E e \in Executor : handle[e][n] # "none"
    /\ \A e1, e2 \in Executor, n \in NodeId :
         handle[e1][n] # "none" /\ handle[e2][n] # "none" => e1 = e2

\* The graph has no dependency on an id it does not hold.
Closed == \A n \in Nodes : dependsOn[n] \subseteq Nodes

\* What makes the "stuck" verdict of run() rare: with all dependencies in
\* the graph and nothing failed or running, an incomplete graph always has
\* a ready node for the next tick.
ProgressPossible ==
    /\ Closed
    /\ Nodes # {}
    /\ WithStatus("Failed") = {}
    /\ WithStatus("InProgress") = {}
    /\ ~IsComplete
    => Ready # {}

\* run() gives up only when it can make no progress: at the step where an
\* executor returns an error nothing is ready, and what is running is
\* another executor's, also when a node was added between the idle tick and
\* the check.
GivesUpOnlyWhenStuck ==
    [][\A e \in Executor :
          pc[e] \notin Verdict /\ pc'[e] \in {"errFailed", "errStuck"} =>
              /\ Ready = {}
              /\ \A n \in WithStatus("InProgress") :
                    \E other \in Executor \ {e} : handle[other][n] # "none"]_vars

\* A node that ended stays in the graph with the status it ended with; the
\* runtime editor and other executors never take a result back.
ResultsAreFinal ==
    [][\A n \in NodeId :
          status[n] \in {"Done", "Failed"} =>
              status'[n] = status[n] /\ dependsOn'[n] = dependsOn[n]]_vars

\* "Run the executor loop until the DAG is complete or no progress can be
\* made": once the edits stop, every run() that was called returns.
RunReturns ==
    <>[][~Edit]_vars =>
        \A e \in Executor : (pc[e] = "tick") ~> (pc[e] \in Verdict)
=============================================================================
