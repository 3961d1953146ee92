-------------------------- MODULE TopologicalSort --------------------------
(***************************************************************************)
(* DagGraph::topological_sort (dag/graph.rs), Kahn's algorithm.            *)
(*                                                                         *)
(* depends_on is the Vec of the code here, because in-degrees count its    *)
(* entries while the loop asks only whether it contains an id.  The order  *)
(* of the hash maps is arbitrary.  The loop over the nodes for one popped  *)
(* id is one step: it touches each node once.                              *)
(***************************************************************************)
EXTENDS Integers, Sequences, FiniteSets, SequencesExt

CONSTANTS
    NodeId,
    MaxDeps    \* bound on the length of depends_on

VARIABLES
    nodes,     \* the ids in the graph
    deps,      \* depends_on of each id, a sequence
    inDegree,  \* usize: must not go below zero
    queue,
    sorted,
    result     \* "none" while running, then "ok" or "cycle"

graph == <<nodes, deps>>
vars  == <<nodes, deps, inDegree, queue, sorted, result>>

\* The dependencies that are in the graph, as the edges of the graph.
Edges(n) == ToSet(deps[n]) \cap nodes

HasCycle == \E S \in (SUBSET nodes) \ {{}} : \A n \in S : Edges(n) \cap S # {}

\* Mutant: dependencies that are not in the graph count as well.
InDegreeOfMissing(n) == Len(deps[n])

\* The in-degree map: one for every entry of depends_on that is in the graph.
InDegree(n) == Cardinality({i \in DOMAIN deps[n] : deps[n][i] \in nodes})

Init ==
    /\ nodes \in SUBSET NodeId
    /\ deps \in [NodeId -> SeqOf(NodeId, MaxDeps)]
    /\ \A n \in NodeId \ nodes : deps[n] = <<>>
    /\ inDegree = [n \in nodes |-> InDegree(n)]
    /\ queue \in SetToSeqs({n \in nodes : InDegree(n) = 0})
    /\ sorted = <<>>
    /\ result = "none"

\* Mutant: a dependent is queued when its in-degree drops to one.
PopFrontOffByOne ==
    /\ result = "none" /\ queue # <<>>
    /\ LET id == Head(queue)
           hit == {n \in nodes : id \in ToSet(deps[n])}
       IN  /\ inDegree' = [n \in nodes |-> inDegree[n] - (IF n \in hit THEN 1 ELSE 0)]
           /\ \E zs \in SetToSeqs({n \in hit : inDegree[n] \in {1, 2}}) :
                queue' = Tail(queue) \o zs
           /\ sorted' = Append(sorted, id)
    /\ UNCHANGED <<graph, result>>

\* One iteration of the while loop.
PopFront ==
    /\ result = "none" /\ queue # <<>>
    /\ LET id == Head(queue)
           hit == {n \in nodes : id \in ToSet(deps[n])}
       IN  /\ inDegree' = [n \in nodes |-> inDegree[n] - (IF n \in hit THEN 1 ELSE 0)]
           /\ \E zs \in SetToSeqs({n \in hit : inDegree[n] = 1}) :
                queue' = Tail(queue) \o zs
           /\ sorted' = Append(sorted, id)
    /\ UNCHANGED <<graph, result>>

\* Mutant: the loop goes on until every node is sorted.
ReturnWhenAllSorted ==
    /\ result = "none" /\ queue = <<>>
    /\ Len(sorted) = Cardinality(nodes)
    /\ result' = "ok"
    /\ UNCHANGED <<graph, inDegree, queue, sorted>>

\* The queue is empty: fewer nodes sorted than there are means a cycle.
Return ==
    /\ result = "none" /\ queue = <<>>
    /\ result' = IF Len(sorted) = Cardinality(nodes) THEN "ok" ELSE "cycle"
    /\ UNCHANGED <<graph, inDegree, queue, sorted>>

Next == PopFront \/ Return

Spec == Init /\ [][Next]_vars

-----------------------------------------------------------------------------

\* Types; in particular "*deg -= 1" on a usize never goes below zero, also
\* with duplicate, missing and self dependencies.
TypeOK ==
    /\ inDegree \in [nodes -> Nat]
    /\ queue \in Seq(nodes) /\ sorted \in Seq(nodes)
    /\ result \in {"none", "ok", "cycle"}

\* At every point the sorted prefix and the queue hold no id twice, and
\* every id in them comes after all its dependencies in the graph.
SortedIsTopological ==
    LET out == sorted \o queue IN
    /\ IsInjective(out)
    /\ \A i \in 1..Len(out) :
         Edges(out[i]) \subseteq {sorted[j] : j \in 1..(i-1) \cap DOMAIN sorted}

\* Ok is returned only for acyclic graphs and then lists every node.
OkIsComplete ==
    result = "ok" => ToSet(sorted) = nodes /\ ~HasCycle

=============================================================================
