----------------------------- MODULE DagProofs -----------------------------
(***************************************************************************)
(* Theorems about the DAG engine, for every set of node ids, every number  *)
(* of executors that share the graph and every max_parallel.               *)
(*                                                                         *)
(* DependenciesRespected alone is not inductive: CollectTick writes Done   *)
(* over the status of every node it holds a result for, so one has to know *)
(* that those nodes are InProgress, which is the first part of OneOwner.   *)
(*                                                                         *)
(* The last part takes the engine's invariant through checkpoints: what is *)
(* written to dag.json satisfies it, and so does what is resumed from it.  *)
(***************************************************************************)
EXTENDS DagCheckpoint, TLAPS

\* Every step keeps the types of the graph and of the executors.
LEMMA TypeStep == TypeOK /\ [Next]_vars => TypeOK'
<1> SUFFICES ASSUME TypeOK, [Next]_vars PROVE TypeOK'
  OBVIOUS
<1> USE DEF TypeOK, NodeStatus, Verdict, TaskResult
<1>1. ASSUME NEW n \in NodeId, RemoveNode(n) PROVE TypeOK'
  BY <1>1 DEF RemoveNode, execVars
<1>2. ASSUME NEW n \in NodeId, NEW ds \in SUBSET NodeId, AddNode(n, ds) PROVE TypeOK'
  BY <1>2 DEF AddNode, execVars
<1>3. ASSUME NEW n \in NodeId, NEW ds \in SUBSET NodeId, UpdateDependencies(n, ds)
      PROVE TypeOK'
  BY <1>3 DEF UpdateDependencies, execVars
<1>4. ASSUME NEW e \in Executor, StartRun(e) PROVE TypeOK'
  BY <1>4 DEF StartRun, graphVars
<1>5. ASSUME NEW e \in Executor, DispatchTick(e) PROVE TypeOK'
  BY <1>5 DEF DispatchTick
<1>6. ASSUME NEW e \in Executor, CollectTick(e) PROVE TypeOK'
  BY <1>6 DEF CollectTick, StatusOf
<1>7. ASSUME NEW e \in Executor, CheckRun(e) PROVE TypeOK'
  BY <1>7 DEF CheckRun, RunVerdict, graphVars
<1>8. ASSUME NEW e \in Executor, TaskStep(e) PROVE TypeOK'
  BY <1>8 DEF TaskStep, TaskEnds, graphVars
<1>9. CASE UNCHANGED vars
  BY <1>9 DEF vars
<1> QED
  BY <1>1, <1>2, <1>3, <1>4, <1>5, <1>6, <1>7, <1>8, <1>9
     DEF Next, Edit, ExecutorStep

\* The graph and the executors' control state are always of their types.
THEOREM TypeCorrect == Spec => []TypeOK
<1>1. Init => TypeOK
  BY DEF Init, TypeOK, NodeStatus, Verdict, TaskResult
<1> QED
  BY <1>1, TypeStep, PTL DEF Spec

-----------------------------------------------------------------------------
(* Ownership of running nodes *)

\* What an edit does to the nodes that are not Pending: nothing.
LEMMA EditStep ==
    ASSUME TypeOK, Edit
    PROVE  /\ UNCHANGED execVars
           /\ \A n \in NodeId :
                status[n] \in {"InProgress", "Done", "Failed"} =>
                    status'[n] = status[n] /\ dependsOn'[n] = dependsOn[n]
           /\ \A n \in NodeId :
                status'[n] \in {"InProgress", "Done", "Failed"} =>
                    status'[n] = status[n] /\ dependsOn'[n] = dependsOn[n]
  BY DEF TypeOK, Edit, RemoveNode, AddNode, UpdateDependencies, execVars

\* Every step keeps running nodes and join handles in correspondence.
LEMMA OwnerStep == TypeOK /\ OneOwner /\ [Next]_vars => OneOwner'
<1> SUFFICES ASSUME TypeOK, OneOwner, [Next]_vars PROVE OneOwner'
  OBVIOUS
<1> USE DEF TypeOK, OneOwner, WithStatus
<1>1. CASE Edit
  BY <1>1, EditStep DEF execVars
<1>2. ASSUME NEW e \in Executor, StartRun(e) PROVE OneOwner'
  BY <1>2 DEF StartRun, graphVars, Verdict
<1>3. ASSUME NEW e \in Executor, DispatchTick(e) PROVE OneOwner'
  <2>1. PICK S \in SUBSET Ready :
          /\ status' = [n \in NodeId |-> IF n \in S THEN "InProgress" ELSE status[n]]
          /\ handle' = [handle EXCEPT ![e] =
                          [n \in NodeId |-> IF n \in S THEN "running" ELSE "none"]]
          /\ pc' = [pc EXCEPT ![e] = IF S = {} THEN "checkIdle" ELSE "await"]
    BY <1>3 DEF DispatchTick
  <2>2. \A n \in S : n \in NodeId /\ status[n] = "Pending"
    BY DEF Ready
  <2>3. \A n \in NodeId : handle[e][n] = "none"
    BY <1>3 DEF DispatchTick
  <2>4. \A x \in Executor, n \in NodeId :
          handle'[x][n] # "none" => status'[n] = "InProgress" /\ pc'[x] = "await"
    BY <2>1, <2>2, <2>3
  <2>5. \A n \in NodeId : status'[n] = "InProgress" =>
          \E x \in Executor : handle'[x][n] # "none"
    BY <2>1, <2>2, <2>3
  <2>6. \A x, y \in Executor, n \in NodeId :
          handle'[x][n] # "none" /\ handle'[y][n] # "none" => x = y
    BY <2>1, <2>2, <2>3
  <2> QED
    BY <2>4, <2>5, <2>6
<1>4. ASSUME NEW e \in Executor, CollectTick(e) PROVE OneOwner'
  BY <1>4 DEF CollectTick, StatusOf, TaskResult
<1>5. ASSUME NEW e \in Executor, CheckRun(e) PROVE OneOwner'
  BY <1>5 DEF CheckRun, graphVars
<1>6. ASSUME NEW e \in Executor, TaskStep(e) PROVE OneOwner'
  BY <1>6 DEF TaskStep, TaskEnds, TaskResult, graphVars
<1>7. CASE UNCHANGED vars
  BY <1>7 DEF vars
<1> QED
  BY <1>1, <1>2, <1>3, <1>4, <1>5, <1>6, <1>7 DEF Next, ExecutorStep

\* No node is run by two executors, and none is left InProgress with no
\* executor waiting for it (execute_tick marks under the write lock).
THEOREM OneOwnerInvariant == Spec => []OneOwner
<1>1. Init => OneOwner
  BY DEF Init, OneOwner, WithStatus
<1> QED
  BY <1>1, TypeCorrect, OwnerStep, PTL DEF Spec

-----------------------------------------------------------------------------
(* Results and dependencies *)

\* A step other than an edit keeps the dependencies; a node leaves InProgress
\* only for Done or Failed, and ended nodes keep their status.
LEMMA ResultStep ==
    ASSUME TypeOK, OneOwner, [Next]_vars
    PROVE  \A n \in NodeId :
             status[n] \in {"Done", "Failed"} =>
                 status'[n] = status[n] /\ dependsOn'[n] = dependsOn[n]
<1> USE DEF TypeOK
<1>1. CASE Edit
  BY <1>1, EditStep
<1>2. ASSUME NEW e \in Executor, StartRun(e) \/ CheckRun(e) \/ TaskStep(e)
      PROVE  UNCHANGED graphVars
  BY <1>2 DEF StartRun, CheckRun, TaskStep, TaskEnds
<1>3. ASSUME NEW e \in Executor, DispatchTick(e), NEW n \in NodeId,
             status[n] \in {"Done", "Failed"}
      PROVE  status'[n] = status[n] /\ dependsOn'[n] = dependsOn[n]
  BY <1>3 DEF DispatchTick, Ready, WithStatus
<1>4. ASSUME NEW e \in Executor, CollectTick(e), NEW n \in NodeId,
             status[n] \in {"Done", "Failed"}
      PROVE  status'[n] = status[n] /\ dependsOn'[n] = dependsOn[n]
  <2>1. handle[e][n] = "none"
    BY <1>4 DEF OneOwner
  <2> QED
    BY <1>4, <2>1 DEF CollectTick, StatusOf
<1>5. CASE UNCHANGED vars
  BY <1>5 DEF vars
<1> QED
  BY <1>1, <1>2, <1>3, <1>4, <1>5 DEF Next, ExecutorStep, graphVars

\* A node that ended keeps its status and its dependencies for ever.
THEOREM ResultsFinal == Spec => ResultsAreFinal
<1>1. TypeOK /\ OneOwner /\ [Next]_vars =>
        [\A n \in NodeId :
            status[n] \in {"Done", "Failed"} =>
                status'[n] = status[n] /\ dependsOn'[n] = dependsOn[n]]_vars
  BY ResultStep
<1> QED
  BY <1>1, TypeCorrect, OneOwnerInvariant, PTL DEF Spec, ResultsAreFinal

\* Every step keeps the dependencies of started nodes Done.
LEMMA DependenciesStep ==
    TypeOK /\ OneOwner /\ DependenciesRespected /\ [Next]_vars
        => DependenciesRespected'
<1> SUFFICES ASSUME TypeOK, OneOwner, DependenciesRespected, [Next]_vars,
                    NEW n \in NodeId,
                    status'[n] \in {"InProgress", "Done", "Failed"},
                    NEW m \in dependsOn'[n]
             PROVE  m \in NodeId /\ status'[m] = "Done"
  BY DEF DependenciesRespected, WithStatus
<1> USE DEF TypeOK, WithStatus
\* It is enough that n had started, or was ready, with the same dependencies.
<1>1. SUFFICES /\ dependsOn'[n] = dependsOn[n]
               /\ status[n] \in {"InProgress", "Done", "Failed"} \/ n \in Ready
  BY ResultStep DEF DependenciesRespected, Ready
<1>2. CASE Edit
  BY <1>2, EditStep
<1>3. ASSUME NEW e \in Executor, StartRun(e) \/ CheckRun(e) \/ TaskStep(e)
      PROVE  UNCHANGED graphVars
  BY <1>3 DEF StartRun, CheckRun, TaskStep, TaskEnds
<1>4. ASSUME NEW e \in Executor, DispatchTick(e)
      PROVE  /\ dependsOn'[n] = dependsOn[n]
             /\ status[n] \in {"InProgress", "Done", "Failed"} \/ n \in Ready
  BY <1>4 DEF DispatchTick
<1>5. ASSUME NEW e \in Executor, CollectTick(e)
      PROVE  /\ dependsOn'[n] = dependsOn[n]
             /\ status[n] \in {"InProgress", "Done", "Failed"}
  BY <1>5 DEF CollectTick, StatusOf, OneOwner
<1>6. CASE UNCHANGED vars
  BY <1>6 DEF vars
<1> QED
  BY <1>2, <1>3, <1>4, <1>5, <1>6 DEF Next, ExecutorStep, graphVars

\* No executor starts a node before its dependencies are Done, and no edit
\* of the running graph makes that untrue afterwards.
THEOREM DependenciesInvariant == Spec => []DependenciesRespected
<1>1. Init => DependenciesRespected
  BY DEF Init, DependenciesRespected
<1> QED
  BY <1>1, TypeCorrect, OneOwnerInvariant, DependenciesStep, PTL DEF Spec

-----------------------------------------------------------------------------
(* Acyclicity *)

\* A step that adds no node and no dependency closes no cycle.
LEMMA FewerEdges ==
    ASSUME NEW p, NEW q, p \subseteq q, NEW c, NEW d,
           \A n \in p : c[n] = d[n],
           ~HasCycle(q, d)
    PROVE  ~HasCycle(p, c)
<1> SUFFICES ASSUME NEW S \in (SUBSET p) \ {{}}, \A n \in S : c[n] \cap S # {}
             PROVE  FALSE
  BY DEF HasCycle
<1>1. S \in (SUBSET q) \ {{}} /\ \A n \in S : d[n] \cap S # {}
  OBVIOUS
<1> QED
  BY <1>1 DEF HasCycle

\* Every step keeps the graph acyclic.
LEMMA AcyclicStep == TypeOK /\ OneOwner /\ Acyclic /\ [Next]_vars => Acyclic'
<1> SUFFICES ASSUME TypeOK, OneOwner, Acyclic, [Next]_vars PROVE Acyclic'
  OBVIOUS
<1>0. Acyclic' <=> ~HasCycle(Nodes', dependsOn')
  BY DEF Acyclic, HasCycle
<1>1. ASSUME NEW n \in NodeId, NEW ds \in SUBSET NodeId, AddNode(n, ds)
      PROVE  Acyclic'
  <2>1. Nodes' = Nodes \union {n}
    BY <1>1 DEF AddNode, Nodes, TypeOK
  <2> QED
    BY <1>0, <1>1, <2>1 DEF AddNode
<1>2. ASSUME NEW n \in NodeId, NEW ds \in SUBSET NodeId, UpdateDependencies(n, ds)
      PROVE  Acyclic'
  <2>1. Nodes' = Nodes
    BY <1>2 DEF UpdateDependencies, Nodes
  <2> QED
    BY <1>0, <1>2, <2>1 DEF UpdateDependencies
<1>3. ASSUME NEW n \in NodeId, RemoveNode(n) PROVE Acyclic'
  <2>1. Nodes' \subseteq Nodes /\ \A m \in Nodes' : dependsOn'[m] = dependsOn[m]
    BY <1>3 DEF RemoveNode, Nodes, TypeOK
  <2> QED
    BY <1>0, <2>1, FewerEdges DEF Acyclic
<1>4. ASSUME NEW e \in Executor, StartRun(e) \/ CheckRun(e) \/ TaskStep(e)
      PROVE  Nodes' = Nodes /\ dependsOn' = dependsOn
  BY <1>4 DEF StartRun, CheckRun, TaskStep, TaskEnds, graphVars, Nodes
<1>5. ASSUME NEW e \in Executor, DispatchTick(e)
      PROVE  Nodes' = Nodes /\ dependsOn' = dependsOn
  BY <1>5 DEF DispatchTick, Ready, WithStatus, Nodes, TypeOK
<1>6. ASSUME NEW e \in Executor, CollectTick(e)
      PROVE  Nodes' = Nodes /\ dependsOn' = dependsOn
  BY <1>6 DEF CollectTick, StatusOf, Nodes, TypeOK
<1>7. CASE UNCHANGED vars
  BY <1>7 DEF vars, Acyclic, Nodes, HasCycle
<1> QED
  BY <1>0, <1>1, <1>2, <1>3, <1>4, <1>5, <1>6, <1>7
     DEF Next, Edit, ExecutorStep, Acyclic

\* The graph is acyclic whatever edits race with whatever ticks.
THEOREM AcyclicInvariant == Spec => []Acyclic
<1>1. Init => Acyclic
  BY DEF Init, Acyclic, HasCycle, Nodes
<1> QED
  BY <1>1, TypeCorrect, OneOwnerInvariant, AcyclicStep, PTL DEF Spec

\* An acyclic graph that holds its dependencies and has neither failed nor
\* running nodes is complete, empty or has a ready node: otherwise the
\* Pending nodes would each depend on one another.
LEMMA AcyclicProgress == TypeOK /\ Acyclic => ProgressPossible
<1> SUFFICES ASSUME TypeOK, Acyclic, Closed, Nodes # {},
                    WithStatus("Failed") = {}, WithStatus("InProgress") = {},
                    ~IsComplete, Ready = {}
             PROVE  FALSE
  BY DEF ProgressPossible
<1> DEFINE P == WithStatus("Pending")
<1>1. \A n \in Nodes : n \in P \/ n \in WithStatus("Done")
  BY DEF TypeOK, NodeStatus, Nodes, WithStatus
<1>2. P \in (SUBSET Nodes) \ {{}}
  BY <1>1 DEF IsComplete, Nodes, WithStatus
<1>3. ASSUME NEW n \in P PROVE dependsOn[n] \cap P # {}
  <2>1. PICK m \in dependsOn[n] : m \notin WithStatus("Done")
    BY <1>3 DEF Ready
  <2>2. m \in Nodes
    BY <1>2, <1>3 DEF Closed
  <2> QED
    BY <1>1, <2>1, <2>2
<1> QED
  BY <1>2, <1>3 DEF Acyclic, HasCycle

\* run() does not report a stuck graph that could go on.
THEOREM ProgressInvariant == Spec => []ProgressPossible
  BY TypeCorrect, AcyclicInvariant, AcyclicProgress, PTL

-----------------------------------------------------------------------------
(* Giving up *)

\* Only the check after an idle tick gives up, and then the executor holds no
\* handle of its own.
LEMMA GiveUpStep ==
    ASSUME TypeOK, OneOwner, [Next]_vars, NEW e \in Executor,
           pc[e] \notin Verdict, pc'[e] \in {"errFailed", "errStuck"}
    PROVE  /\ Ready = {}
           /\ \A n \in WithStatus("InProgress") :
                \E other \in Executor \ {e} : handle[other][n] # "none"
<1> USE DEF TypeOK
<1>1. CheckRun(e)
  <2>1. ASSUME NEW x \in Executor, StartRun(x) \/ DispatchTick(x) \/ CollectTick(x) \/ TaskStep(x)
        PROVE  FALSE
    BY <2>1 DEF StartRun, DispatchTick, CollectTick, TaskStep, TaskEnds, Verdict
  <2>2. ASSUME NEW x \in Executor, CheckRun(x) PROVE x = e
    BY <2>2 DEF CheckRun, Verdict
  <2>3. CASE Edit \/ UNCHANGED vars
    BY <2>3, EditStep DEF execVars, vars, Verdict
  <2> QED
    BY <2>1, <2>2, <2>3 DEF Next, ExecutorStep
<1>2. pc[e] = "checkIdle" /\ Ready = {}
  BY <1>1 DEF CheckRun, RunVerdict
<1>3. \A n \in NodeId : handle[e][n] = "none"
  BY <1>2 DEF OneOwner
<1> QED
  BY <1>2, <1>3 DEF OneOwner, WithStatus

\* run() returns an error only when no node is ready and every running node
\* is awaited by another executor.
THEOREM GivesUpStuck == Spec => GivesUpOnlyWhenStuck
<1>1. TypeOK /\ OneOwner /\ [Next]_vars =>
        [\A e \in Executor :
            pc[e] \notin Verdict /\ pc'[e] \in {"errFailed", "errStuck"} =>
                /\ Ready = {}
                /\ \A n \in WithStatus("InProgress") :
                      \E other \in Executor \ {e} : handle[other][n] # "none"]_vars
  BY GiveUpStep
<1> QED
  BY <1>1, TypeCorrect, OneOwnerInvariant, PTL DEF Spec, GivesUpOnlyWhenStuck

-----------------------------------------------------------------------------
(* Checkpoints, crashes and resumes *)

Graphs == [NodeId -> NodeStatus \union {"Absent"}]
Files  == [kind : {"none", "torn", "whole"}, status : Graphs,
           dependsOn : [NodeId -> SUBSET NodeId]]

\* What the engine keeps.
EngineInv == TypeOK /\ OneOwner /\ DependenciesRespected /\ Acyclic

\* The same of the graph that a whole dag.json holds: it was the engine's
\* graph at one time, whatever happened to that since.
SnapshotInv ==
    dagFile.kind = "whole" =>
        /\ \A n \in NodeId : dagFile.status[n] \in {"Done", "Failed"} =>
             \A m \in dagFile.dependsOn[n] : dagFile.status[m] = "Done"
        /\ ~HasCycle({n \in NodeId : dagFile.status[n] # "Absent"}, dagFile.dependsOn)

\* While the node files are written, the graph is the one in dag.json, if
\* that was not removed meanwhile.
SaverInv ==
    /\ saver \in {"idle", "dag", "nodes"}
    /\ ~alive => saver = "idle" /\ handle = NoHandle
    /\ saver = "nodes" /\ dagFile.kind = "whole" => dagFile.status = status

\* The results of the last completed checkpoint are in every whole dag.json,
\* also in one that a later save wrote before it failed.
KeptInv ==
    /\ ResultsSurvive
    /\ dagFile.kind = "whole" =>
         \A n \in NodeId : kept[n] # "none" => dagFile.status[n] = kept[n]
    /\ \A n \in NodeId : kept[n] \in {"none", "Done", "Failed"}

CkInv == EngineInv /\ dagFile \in Files /\ SnapshotInv /\ SaverInv /\ KeptInv

LEMMA EngineNext == EngineInv /\ [Next]_vars => EngineInv'
BY TypeStep, OwnerStep, DependenciesStep, AcyclicStep DEF EngineInv

LEMMA EmptyFile ==
    /\ Empty("none") \in Files /\ Empty("none").kind = "none"
    /\ Empty("torn") \in Files /\ Empty("torn").kind = "torn"
BY DEF Empty, Files, Graphs, NoStatus, NoDeps

LEMMA EngineSame == EngineInv /\ UNCHANGED vars => EngineInv'
BY EngineNext

\* A step that leaves the files alone and is not saving keeps what is known
\* of them.
LEMMA SameFile == SnapshotInv /\ UNCHANGED dagFile => SnapshotInv'
BY DEF SnapshotInv

\* Steps that leave the files, the graph's results and the history alone.
LEMMA SameKept ==
    KeptInv /\ UNCHANGED <<alive, status, dagFile, kept>> => KeptInv'
BY DEF KeptInv, ResultsSurvive

\* Without a result there is nothing to lose.
LEMMA NothingKept == kept' = NoResult => KeptInv'
BY DEF KeptInv, ResultsSurvive, NoResult

LEMMA CkStep == CkInv /\ [CkNext]_ckVars => CkInv'
<1> SUFFICES ASSUME CkInv, [CkNext]_ckVars PROVE CkInv'
  OBVIOUS
<1> USE DEF CkInv
<1>1. CASE EngineStep
  <2>1. EngineInv'
    BY <1>1, EngineNext DEF EngineStep
  <2>2. UNCHANGED <<alive, saver, unsaved, dagFile, kept>> /\ alive
    BY <1>1 DEF EngineStep, saveVars, diskVars, history
  <2>3. saver = "nodes" => UNCHANGED <<status, dependsOn>>
    BY <1>1 DEF EngineStep, graphVars
  <2>4. SaverInv'
    BY <2>2, <2>3 DEF SaverInv
  <2>5. \A n \in NodeId : status[n] \in {"Done", "Failed"} => status'[n] = status[n]
    BY <1>1, ResultStep DEF EngineStep, EngineInv
  <2>6. KeptInv'
    BY <2>2, <2>5 DEF KeptInv, ResultsSurvive
  <2> QED
    BY <2>1, <2>2, <2>4, <2>6, SameFile
<1>2. CASE SaveBegin
  <2>1. /\ UNCHANGED <<vars, status, alive, kept>> /\ alive
        /\ saver' = "dag" /\ dagFile' = Empty("torn")
    BY <1>2 DEF SaveBegin, history, vars
  <2>2. SnapshotInv' /\ dagFile' \in Files
    BY <2>1, EmptyFile DEF SnapshotInv
  <2>3. SaverInv' /\ KeptInv'
    BY <2>1, EmptyFile DEF SaverInv, KeptInv, ResultsSurvive
  <2> QED
    BY <2>1, <2>2, <2>3, EngineSame
<1>3. CASE SaveDag
  <2>1. /\ UNCHANGED <<vars, status, alive, kept>> /\ saver = "dag" /\ saver' = "nodes" /\ alive
        /\ \/ dagFile.kind = "none" /\ dagFile' = dagFile
           \/ dagFile' = [kind |-> "whole", status |-> status, dependsOn |-> dependsOn]
    BY <1>3 DEF SaveDag, history, vars, SaverInv
  <2>2. EngineInv'
    BY <2>1, EngineSame
  <2>3. CASE dagFile.kind = "none" /\ dagFile' = dagFile
    <3>1. SaverInv'
      BY <2>1, <2>3 DEF SaverInv
    <3> QED
      BY <2>1, <2>2, <2>3, <3>1, SameFile, SameKept
  <2>4. CASE dagFile' = [kind |-> "whole", status |-> status, dependsOn |-> dependsOn]
    <3>1. dagFile' \in Files /\ dagFile'.status = status /\ dagFile'.dependsOn = dependsOn
      BY <2>4 DEF EngineInv, TypeOK, Files, Graphs
    <3>2. \A n \in NodeId : status[n] \in {"Done", "Failed"} =>
            \A m \in dependsOn[n] : status[m] = "Done"
      BY DEF EngineInv, DependenciesRespected, WithStatus
    <3>3. ~HasCycle({n \in NodeId : status[n] # "Absent"}, dependsOn)
      BY DEF EngineInv, Acyclic, Nodes
    <3>4. SnapshotInv'
      BY <3>1, <3>2, <3>3 DEF SnapshotInv, HasCycle
    <3>5. SaverInv' /\ KeptInv'
      BY <2>1, <3>1 DEF SaverInv, KeptInv, ResultsSurvive
    <3> QED
      BY <2>2, <3>1, <3>4, <3>5
  <2> QED
    BY <2>1, <2>3, <2>4
<1>4. ASSUME NEW n \in NodeId, SaveNode(n) \/ SaveNodeState(n) PROVE CkInv'
  <2>1. UNCHANGED <<vars, status, handle, alive, saver, dagFile, kept>>
    BY <1>4 DEF SaveNode, SaveNodeState, saveVars, history, vars
  <2>2. SaverInv'
    BY <2>1 DEF SaverInv
  <2> QED
    BY <2>1, <2>2, SameFile, SameKept, EngineSame
<1>5. CASE SaveReturn
  <2>1. /\ UNCHANGED <<vars, status, handle, alive, dagFile>> /\ saver = "nodes" /\ saver' = "idle"
        /\ kept' = IF dagFile.kind = "whole" THEN Results(status) ELSE NoResult
    BY <1>5 DEF SaveReturn, diskVars, vars
  <2>2. SaverInv'
    BY <2>1 DEF SaverInv
  <2>3. KeptInv'
    <3>1. CASE dagFile.kind = "whole"
      <4>1. \A n \in NodeId : kept'[n] = IF status[n] \in {"Done", "Failed"} THEN status[n] ELSE "none"
        BY <2>1, <3>1 DEF Results
      <4> QED
        BY <2>1, <3>1, <4>1 DEF KeptInv, ResultsSurvive, SaverInv
    <3> QED
      BY <2>1, <3>1, NothingKept
  <2> QED
    BY <2>1, <2>2, <2>3, SameFile, EngineSame
<1>10. CASE Clear
  <2>1. /\ UNCHANGED <<vars, status, handle, alive, saver>>
        /\ dagFile' = Empty("none") /\ kept' = NoResult
    BY <1>10 DEF Clear, vars
  <2>2. SnapshotInv' /\ dagFile' \in Files /\ SaverInv'
    BY <2>1, EmptyFile DEF SnapshotInv, SaverInv
  <2> QED
    BY <2>1, <2>2, NothingKept, EngineSame
<1>11. CASE SaveFails
  <2>1. UNCHANGED <<vars, status, handle, alive, dagFile, kept>> /\ saver' = "idle"
    BY <1>11 DEF SaveFails, diskVars, history, vars
  <2>2. SaverInv'
    BY <2>1 DEF SaverInv
  <2> QED
    BY <2>1, <2>2, SameFile, SameKept, EngineSame
<1>6. CASE Crash
  <2>1. /\ status' = NoStatus /\ dependsOn' = NoDeps /\ handle' = NoHandle
        /\ pc' = [e \in Executor |-> "idle"] /\ saver' = "idle"
        /\ UNCHANGED <<dagFile, kept>> /\ ~alive'
    BY <1>6 DEF Crash, diskVars, history
  <2>2. EngineInv'
    <3>1. TypeOK'
      BY <2>1 DEF TypeOK, NoStatus, NoDeps, NoHandle
    <3>2. OneOwner' /\ DependenciesRespected'
      BY <2>1 DEF OneOwner, DependenciesRespected, WithStatus, NoStatus, NoHandle
    <3>3. Nodes' = {}
      BY <2>1 DEF Nodes, NoStatus
    <3>4. Acyclic'
      BY <3>3 DEF Acyclic, HasCycle
    <3> QED
      BY <3>1, <3>2, <3>4 DEF EngineInv
  <2>3. SaverInv' /\ KeptInv'
    BY <2>1 DEF SaverInv, KeptInv, ResultsSurvive
  <2> QED
    BY <2>1, <2>2, <2>3, SameFile
<1>7. CASE Resume
  <2>1. /\ ~alive /\ alive' /\ dagFile.kind = "whole"
        /\ status' = [n \in NodeId |-> IF dagFile.status[n] = "InProgress" THEN "Pending"
                                       ELSE dagFile.status[n]]
        /\ dependsOn' = dagFile.dependsOn
        /\ UNCHANGED <<pc, handle, saver, unsaved, dagFile, kept>>
    BY <1>7 DEF Resume, execVars, saveVars, diskVars, history
  <2>2. handle = NoHandle /\ saver = "idle"
    BY <2>1 DEF SaverInv
  <2>3. dagFile.status \in Graphs /\ dagFile.dependsOn \in [NodeId -> SUBSET NodeId]
    BY DEF Files
  <2>4. \A n \in NodeId :
          /\ status'[n] \in {"Done", "Failed"} => dagFile.status[n] = status'[n]
          /\ dagFile.status[n] \in {"Done", "Failed"} => status'[n] = dagFile.status[n]
          /\ status'[n] # "InProgress"
    BY <2>1, <2>3
  <2>5. TypeOK'
    BY <2>1, <2>3 DEF EngineInv, TypeOK, Graphs, NodeStatus
  <2>6. OneOwner'
    BY <2>1, <2>2, <2>4 DEF OneOwner, WithStatus, NoHandle
  <2>7. DependenciesRespected'
    <3> SUFFICES ASSUME NEW n \in NodeId, status'[n] \in {"InProgress", "Done", "Failed"},
                        NEW m \in dependsOn'[n]
                 PROVE  m \in NodeId /\ status'[m] = "Done"
      BY DEF DependenciesRespected, WithStatus
    <3>1. m \in NodeId /\ m \in dagFile.dependsOn[n] /\ dagFile.status[n] \in {"Done", "Failed"}
      BY <2>1, <2>3, <2>4
    <3> QED
      BY <2>1, <2>4, <3>1 DEF SnapshotInv
  <2>8. Acyclic'
    <3>1. Nodes' = {n \in NodeId : dagFile.status[n] # "Absent"}
      BY <2>1, <2>3 DEF Nodes
    <3>2. Acyclic' <=> ~HasCycle(Nodes', dependsOn')
      BY DEF Acyclic, HasCycle
    <3> QED
      BY <2>1, <3>1, <3>2 DEF SnapshotInv
  <2>9. SaverInv' /\ KeptInv'
    BY <2>1, <2>2, <2>4 DEF SaverInv, KeptInv, ResultsSurvive
  <2> QED
    BY <2>1, <2>5, <2>6, <2>7, <2>8, <2>9, SameFile DEF EngineInv
<1>8. CASE StartEmpty
  <2>1. ~alive /\ alive' /\ UNCHANGED <<vars, saver, dagFile>> /\ kept' = NoResult
    BY <1>8 DEF StartEmpty, diskVars
  <2>2. SaverInv'
    BY <2>1 DEF SaverInv
  <2> QED
    BY <2>1, <2>2, SameFile, NothingKept, EngineSame
<1>9. CASE UNCHANGED ckVars
  <2>1. UNCHANGED <<vars, alive, saver, dagFile, kept, status, handle>>
    BY <1>9 DEF ckVars, vars, saveVars, diskVars, history
  <2>2. SaverInv'
    BY <2>1 DEF SaverInv
  <2> QED
    BY <2>1, <2>2, SameFile, SameKept, EngineSame
<1> QED
  BY <1>1, <1>2, <1>3, <1>4, <1>5, <1>6, <1>7, <1>8, <1>9, <1>10, <1>11 DEF CkNext, Save

\* What holds of the engine with its checkpoints, in every behaviour.
LEMMA CkInvariant == CkSpec => []CkInv
<1>1. CkInit => CkInv
  <2> SUFFICES ASSUME CkInit PROVE CkInv
    OBVIOUS
  <2>1. Init /\ alive /\ saver = "idle" /\ dagFile = Empty("none") /\ kept = NoResult
    BY DEF CkInit
  <2>2. TypeOK
    BY <2>1 DEF Init, TypeOK, NodeStatus, Verdict, TaskResult
  <2>3. OneOwner /\ DependenciesRespected
    BY <2>1 DEF Init, OneOwner, DependenciesRespected, WithStatus
  <2>4. Acyclic
    BY <2>1 DEF Init, Acyclic, HasCycle, Nodes
  <2>5. SnapshotInv /\ dagFile \in Files
    BY <2>1, EmptyFile DEF SnapshotInv
  <2>6. SaverInv /\ KeptInv
    BY <2>1, EmptyFile DEF SaverInv, KeptInv, ResultsSurvive, NoResult
  <2> QED
    BY <2>2, <2>3, <2>4, <2>5, <2>6 DEF CkInv, EngineInv
<1> QED
  BY <1>1, CkStep, PTL DEF CkSpec

\* Crashes and resumes from a checkpoint keep what the engine keeps: after a
\* load no node has run before its dependencies, none is left InProgress
\* without an executor and the graph has no cycle, also when the graph went
\* on after the checkpoint was written.
THEOREM ResumeIsSafe == CkSpec => [](OneOwner /\ DependenciesRespected /\ Acyclic)
<1>1. CkInv => OneOwner /\ DependenciesRespected /\ Acyclic
  BY DEF CkInv, EngineInv
<1> QED
  BY <1>1, CkInvariant, PTL

\* load_checkpoint loses no result: however saves, failed saves, clears and
\* crashes follow each other, the running graph has every result of the last
\* checkpoint that was completed and could be loaded.
THEOREM ResultsSurviveCrashes == CkSpec => []ResultsSurvive
<1>1. CkInv => ResultsSurvive
  BY DEF CkInv, KeptInv
<1> QED
  BY <1>1, CkInvariant, PTL
=============================================================================
