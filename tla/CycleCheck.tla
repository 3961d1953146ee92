----------------------------- MODULE CycleCheck -----------------------------
(***************************************************************************)
(* DagGraph::has_cycle and its recursive helper dfs_cycle (dag/graph.rs).  *)
(*                                                                         *)
(* The recursion is a machine: path is the call stack of dfs_cycle, stack  *)
(* and visited are the two hash sets handed down, todo the dependencies    *)
(* each activation has still to look at.  The map's iteration order is     *)
(* arbitrary, and so is the order of depends_on, which callers choose.     *)
(***************************************************************************)
EXTENDS Naturals, Sequences

CONSTANT NodeId

VARIABLES
    nodes,    \* the ids in the graph
    deps,     \* depends_on of each id
    roots,    \* keys that the loop of has_cycle has still to visit
    visited,
    stack,
    path,
    todo,
    verdict   \* "none" until has_cycle returns, then "cycle" or "acyclic"

graph  == <<nodes, deps>>
search == <<roots, visited, stack, path, todo, verdict>>
vars   == <<nodes, deps, roots, visited, stack, path, todo, verdict>>

\* The definition has_cycle is to decide: see HasCycle in Dag.
CyclicSet(S) == S # {} /\ \A n \in S : deps[n] \cap S # {}

HasCycle == \E S \in SUBSET nodes : CyclicSet(S)

Top == path[Len(path)]

\* Entry of dfs_cycle(id), with t what its callers have still to look at.
Enter(id, t) ==
    /\ visited' = visited \union {id}
    /\ stack' = stack \union {id}
    /\ path' = Append(path, id)
    /\ todo' = [t EXCEPT ![id] = deps[id] \cap nodes]

\* One iteration of the loop over the keys: a visited one is skipped.
VisitRoot(id) ==
    /\ verdict = "none" /\ path = <<>>
    /\ id \in roots
    /\ roots' = roots \ {id}
    /\ IF id \in visited THEN UNCHANGED <<visited, stack, path, todo>>
                         ELSE Enter(id, todo)
    /\ UNCHANGED <<graph, verdict>>

\* Mutant: recurse without asking whether the dependency was visited.
DescendAgain(id) ==
    /\ verdict = "none" /\ path # <<>>
    /\ id \in todo[Top]
    /\ Enter(id, [todo EXCEPT ![Top] = @ \ {id}])
    /\ UNCHANGED <<graph, roots, verdict>>

\* A dependency that was not visited yet: recurse.
Descend(id) ==
    /\ verdict = "none" /\ path # <<>>
    /\ id \in todo[Top] \ visited
    /\ Enter(id, [todo EXCEPT ![Top] = @ \ {id}])
    /\ UNCHANGED <<graph, roots, verdict>>

\* Mutant: any visited dependency is taken for a back edge.
SeenWithoutStack(id) ==
    /\ verdict = "none" /\ path # <<>>
    /\ id \in todo[Top] \cap visited
    /\ todo' = [todo EXCEPT ![Top] = @ \ {id}]
    /\ verdict' = "cycle"
    /\ UNCHANGED <<graph, roots, visited, stack, path>>

\* A dependency already visited: a cycle if it is on the stack (every
\* activation then returns true), else the loop goes on.
Seen(id) ==
    /\ verdict = "none" /\ path # <<>>
    /\ id \in todo[Top] \cap visited
    /\ todo' = [todo EXCEPT ![Top] = @ \ {id}]
    /\ verdict' = IF id \in stack THEN "cycle" ELSE "none"
    /\ UNCHANGED <<graph, roots, visited, stack, path>>

\* dfs_cycle has looked at every dependency: off the stack, return false.
Leave ==
    /\ verdict = "none" /\ path # <<>> /\ todo[Top] = {}
    /\ stack' = stack \ {Top}
    /\ path' = SubSeq(path, 1, Len(path) - 1)
    /\ UNCHANGED <<graph, roots, visited, todo, verdict>>

\* has_cycle has run out of keys.
Finish ==
    /\ verdict = "none" /\ path = <<>> /\ roots = {}
    /\ verdict' = "acyclic"
    /\ UNCHANGED <<graph, roots, visited, stack, path, todo>>

\* Any graph: has_cycle is called on tentative ones, cyclic or not, which
\* may name dependencies they do not hold.
Init ==
    /\ nodes \in SUBSET NodeId
    /\ deps \in [NodeId -> SUBSET NodeId]
    /\ roots = nodes
    /\ visited = {} /\ stack = {} /\ path = <<>>
    /\ todo = [n \in NodeId |-> {}]
    /\ verdict = "none"

Next ==
    \/ \E id \in NodeId : VisitRoot(id) \/ Descend(id) \/ Seen(id)
    \/ Leave
    \/ Finish

Spec == Init /\ [][Next]_vars

-----------------------------------------------------------------------------

\* Types of the search state; only dependencies in the graph are looked at.
TypeOK ==
    /\ nodes \subseteq NodeId
    /\ deps \in [NodeId -> SUBSET NodeId]
    /\ roots \subseteq nodes /\ visited \subseteq nodes /\ stack \subseteq visited
    /\ path \in Seq(NodeId)
    /\ todo \in [NodeId -> SUBSET nodes]
    /\ \A n \in NodeId : todo[n] \subseteq deps[n]
    /\ verdict \in {"none", "cycle", "acyclic"}

Finished == visited \ stack

\* The stack set that dfs_cycle maintains by hand holds exactly the
\* activations in progress, each called for a dependency of the one before.
StackIsPath ==
    /\ stack = {path[i] : i \in 1..Len(path)}
    /\ \A i, j \in 1..Len(path) : path[i] = path[j] => i = j
    /\ \A i \in 1..(Len(path) - 1) : path[i+1] \in deps[path[i]]

\* Until a cycle is found, what the activations of dfs_cycle have looked at
\* has returned false, but for the callee in progress; and the keys that
\* the loop of has_cycle has passed were visited.
Explored ==
    /\ verdict # "cycle" => \A i \in 1..Len(path) :
         deps[path[i]] \cap nodes \subseteq
             todo[path[i]] \union Finished \union
                 (IF i < Len(path) THEN {path[i+1]} ELSE {})
    /\ nodes \ roots \subseteq visited

\* Nodes that dfs_cycle returned false for depend only on such nodes and
\* are on no cycle, so skipping visited nodes loses none.
FinishedAcyclic ==
    /\ \A n \in Finished : deps[n] \cap nodes \subseteq Finished
    /\ \A S \in SUBSET Finished : ~CyclicSet(S)

\* The three facts about the search that make its verdict right, at every
\* point and in whatever order the hash maps hand out the nodes.
SearchSound == StackIsPath /\ Explored /\ FinishedAcyclic

\* has_cycle returns true exactly on the graphs with a cycle.
VerdictExact == verdict # "none" => (verdict = "cycle" <=> HasCycle)

\* What makes has_cycle return: a step that does not end the search visits
\* a new node, or else passes a key, or else a dependency, or else returns
\* from an activation.  Each of the four is bounded by the graph.
SearchAdvances ==
    \/ verdict' # "none"
    \/ visited \subseteq visited' /\ visited # visited'
    \/ /\ visited' = visited
       /\ \/ roots' \subseteq roots /\ roots' # roots
          \/ /\ roots' = roots
             /\ \/ todo' # todo /\ \A n \in NodeId : todo'[n] \subseteq todo[n]
                \/ todo' = todo /\ Len(path') < Len(path)
=============================================================================
