----------------------------- MODULE DagQueries -----------------------------
(***************************************************************************)
(* The two whole-graph queries of DagGraph asked one after the other of    *)
(* the same graph: has_cycle (CycleCheck), as add_node and                 *)
(* update_dependencies ask it, then topological_sort (TopologicalSort).    *)
(*                                                                         *)
(* CycleCheck sees depends_on as the set of its entries, TopologicalSort   *)
(* as the Vec it is.                                                       *)
(***************************************************************************)
EXTENDS CycleCheck, SequencesExt

CONSTANT MaxDeps    \* bound on the length of depends_on

ASSUME QueryAssumption == IsFiniteSet(NodeId) /\ MaxDeps \in Nat

VARIABLES
    depSeq,         \* depends_on of each id, the Vec
    inDegree, queue, sorted, result

sortVars  == <<inDegree, queue, sorted, result>>
queryVars == <<vars, depSeq, sortVars>>

Sort == INSTANCE TopologicalSort WITH deps <- depSeq

\* The graph is any one; topological_sort starts where its Init says.
QueryInit ==
    /\ Sort!Init
    /\ deps = [n \in NodeId |-> ToSet(depSeq[n])]
    /\ roots = nodes
    /\ visited = {} /\ stack = {} /\ path = <<>>
    /\ todo = [n \in NodeId |-> {}]
    /\ verdict = "none"

AskCycle == Next /\ UNCHANGED <<depSeq, sortVars>>

AskOrder == verdict # "none" /\ Sort!Next /\ UNCHANGED <<deps, search>>

QueryNext == AskCycle \/ AskOrder

\* Sequential code runs until it returns.
QuerySpec == QueryInit /\ [][QueryNext]_queryVars /\ WF_queryVars(QueryNext)

-----------------------------------------------------------------------------

NoDuplicates == \A n \in nodes : IsInjective(depSeq[n])

\* topological_sort works in every order of the hash maps: at each point the
\* sorted prefix and the queue hold no id twice and no id before one of its
\* dependencies, no usize in-degree was taken below zero, and Ok is returned
\* only for an acyclic graph and then lists every node.
SortedIsTopological ==
    /\ Sort!TypeOK
    /\ Sort!SortedIsTopological
    /\ Sort!OkIsComplete

\* The two algorithms give the same answer about one graph, whatever order
\* their hash maps iterate in, as long as no depends_on names an id twice.
AnswersAgree ==
    verdict # "none" /\ result # "none" /\ NoDuplicates =>
        (verdict = "cycle" <=> result = "cycle")

\* No query runs for ever: each step of has_cycle brings the search nearer
\* to its end (a visited node is not entered again, on graphs with cycles
\* neither), each step of topological_sort sorts one more node, of which
\* there are finitely many and none twice, or returns; and no query goes on
\* after its answer.
EveryStepAdvances ==
    [][IF verdict = "none" THEN SearchAdvances
       ELSE /\ UNCHANGED search
            /\ result = "none"
            /\ Len(sorted') = Len(sorted) + 1 \/ result' # "none"]_queryVars

\* Both queries return, the sort of a graph with a cycle as well, where some
\* in-degrees never drop to zero.
BothReturn == <>(verdict # "none" /\ result # "none")
=============================================================================
