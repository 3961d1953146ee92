------------------------------ MODULE MCKernel ------------------------------
(* Tasks of two priorities and two meta cycles; connections are            *)
(* interchangeable.                                                        *)
EXTENDS Kernel, TLC

Symmetry == Permutations(Conn)

Valid1(id, tier) ==
    [task_id |-> id, parent_dag_id |-> "dag", envelope_version |-> 1, warning_percent |-> 90,
     max_tokens |-> 1, max_rss_mb |-> 1, max_wall_time |-> 1, priority |-> tier]

\* A task whose tier is not the one that task.complete releases, and two of
\* that one.
MCEnvelope == {Valid1("t1", "P2Background")}
MCTiers    == MCEnvelope \union {Valid1("t2", "P1Normal"), Valid1("t3", "P1Normal")}

MCLimit  == [t \in Tier |-> 2]
MCLimit1 == [t \in Tier |-> 1]

MCProcess   == {"Kernel", "Loop0Meta"}
MCBootOrder == <<"Kernel", "Loop0Meta">>
MCShutdown  == <<"Loop0Meta", "Kernel">>

Cycle(i, changed) ==
    [kind |-> "MetaCycleComplete", source |-> "Loop0Meta", target |-> "Kernel",
     cycle |-> i, policy_changed |-> changed]

MCTrigger == {Cycle(1, TRUE), Cycle(2, FALSE)}
=============================================================================
