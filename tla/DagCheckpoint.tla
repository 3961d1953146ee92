--------------------------- MODULE DagCheckpoint ---------------------------
(***************************************************************************)
(* The DAG engine of Dag together with DagPersistence (dag/persistence.rs) *)
(* and the crashes its checkpoints are for.                                *)
(*                                                                         *)
(* save_checkpoint borrows the graph, so its caller holds the read lock    *)
(* while the files are written one after the other: no step that writes    *)
(* the graph is taken meanwhile, but the process may crash between two     *)
(* files, a write may fail, and the other methods of DagPersistence, which *)
(* take no lock, may run.  (Two saves that overlap hold read locks on the  *)
(* same graph and write the same bytes.)  std::fs::write truncates a file  *)
(* before it writes it.  Node files are not given a torn state: nothing    *)
(* reads them.                                                             *)
(***************************************************************************)
EXTENDS Dag

VARIABLES
    alive,     \* the process that owns the graph is running
    saver,     \* where save_checkpoint is: "idle", "dag" or "nodes"
    unsaved,   \* nodes whose state file save_checkpoint has still to write
    dagFile,   \* dag.json: [kind, status, dependsOn]
    nodeFile,  \* the status in state/node-<id>.json, or "none"
    durable,   \* history: a checkpoint was completed and not cleared since
    kept       \* history: the results in the last one completed, "none" for
               \* the nodes without one; nothing once no checkpoint loads

diskVars == <<dagFile, nodeFile>>
history  == <<durable, kept>>
saveVars == <<saver, unsaved, history>>
ckVars   == <<vars, alive, saveVars, diskVars>>

NoStatus == [n \in NodeId |-> "Absent"]
NoDeps   == [n \in NodeId |-> {}]
NoHandle == [e \in Executor |-> [n \in NodeId |-> "none"]]
NoResult == [n \in NodeId |-> "none"]

\* The results in a map of statuses.
Results(st) == [n \in NodeId |-> IF st[n] \in {"Done", "Failed"} THEN st[n] ELSE "none"]

Empty(kind) == [kind |-> kind, status |-> NoStatus, dependsOn |-> NoDeps]

\* A step of the engine; writers of the graph wait for the saver's guard.
EngineStep ==
    /\ alive
    /\ Next
    /\ saver = "idle" \/ UNCHANGED graphVars
    /\ UNCHANGED <<alive, saveVars, diskVars>>

-----------------------------------------------------------------------------
(* DagPersistence *)

\* save_checkpoint: dag.json is opened and truncated ...
SaveBegin ==
    /\ alive /\ saver = "idle"
    /\ saver' = "dag"
    /\ dagFile' = Empty("torn")
    /\ UNCHANGED <<vars, alive, unsaved, nodeFile, history>>

\* ... and then holds the whole graph, unless it was removed meanwhile: the
\* bytes then go to a file that has no name any more.
SaveDag ==
    /\ saver = "dag"
    /\ saver' = "nodes"
    /\ dagFile' = IF dagFile.kind = "none" THEN dagFile
                  ELSE [kind |-> "whole", status |-> status, dependsOn |-> dependsOn]
    /\ unsaved' = Nodes
    /\ UNCHANGED <<vars, alive, nodeFile, history>>

\* The loop over the nodes calls save_node_state.
SaveNode(n) ==
    /\ saver = "nodes" /\ n \in unsaved
    /\ nodeFile' = [nodeFile EXCEPT ![n] = status[n]]
    /\ unsaved' = unsaved \ {n}
    /\ UNCHANGED <<vars, alive, saver, dagFile, history>>

\* save_checkpoint returns Ok.
SaveReturn ==
    /\ saver = "nodes" /\ unsaved = {}
    /\ saver' = "idle"
    /\ durable' = (dagFile.kind = "whole")
    /\ kept' = IF dagFile.kind = "whole" THEN Results(status) ELSE NoResult
    /\ UNCHANGED <<vars, alive, unsaved, diskVars>>

\* A write fails: save_checkpoint returns Err, the files stay as they are.
SaveFails ==
    /\ saver # "idle"
    /\ saver' = "idle" /\ unsaved' = {}
    /\ UNCHANGED <<vars, alive, diskVars, history>>

\* save_node_state called on its own.
SaveNodeState(n) ==
    /\ alive
    /\ n \in Nodes
    /\ nodeFile' = [nodeFile EXCEPT ![n] = status[n]]
    /\ UNCHANGED <<vars, alive, saveVars, dagFile>>

\* clear: the directory is removed, also under a save in progress.
Clear ==
    /\ alive
    /\ dagFile' = Empty("none")
    /\ nodeFile' = NoResult
    /\ durable' = FALSE /\ kept' = NoResult
    /\ UNCHANGED <<vars, alive, saver, unsaved>>

\* The process dies: the graph, the executors and their tasks are gone.
Crash ==
    /\ alive
    /\ alive' = FALSE
    /\ status' = NoStatus /\ dependsOn' = NoDeps
    /\ pc' = [e \in Executor |-> "idle"] /\ handle' = NoHandle
    /\ saver' = "idle" /\ unsaved' = {}
    /\ UNCHANGED <<diskVars, history>>

\* Mutant: the statuses are taken from the per-node files.
ResumeFromNodeFiles ==
    /\ ~alive /\ dagFile.kind = "whole"
    /\ alive' = TRUE
    /\ status' = [n \in NodeId |->
                    IF dagFile.status[n] # "Absent" /\ nodeFile[n] \in {"Done", "Failed"}
                    THEN nodeFile[n]
                    ELSE IF dagFile.status[n] = "InProgress" THEN "Pending"
                         ELSE dagFile.status[n]]
    /\ dependsOn' = dagFile.dependsOn
    /\ UNCHANGED <<execVars, saveVars, diskVars>>

\* Mutant: the statuses are loaded as they were saved.
ResumeAsSaved ==
    /\ ~alive /\ dagFile.kind = "whole"
    /\ alive' = TRUE
    /\ status' = dagFile.status
    /\ dependsOn' = dagFile.dependsOn
    /\ UNCHANGED <<execVars, saveVars, diskVars>>

\* Mutant: every node that is not Done is reset to Pending.
ResumeResetsFailed ==
    /\ ~alive /\ dagFile.kind = "whole"
    /\ alive' = TRUE
    /\ status' = [n \in NodeId |->
                    IF dagFile.status[n] \in {"InProgress", "Failed"} THEN "Pending"
                    ELSE dagFile.status[n]]
    /\ dependsOn' = dagFile.dependsOn
    /\ UNCHANGED <<execVars, saveVars, diskVars>>

\* A new process calls load_checkpoint: InProgress nodes become Pending.
Resume ==
    /\ ~alive /\ dagFile.kind = "whole"
    /\ alive' = TRUE
    /\ status' = [n \in NodeId |->
                    IF dagFile.status[n] = "InProgress" THEN "Pending"
                    ELSE dagFile.status[n]]
    /\ dependsOn' = dagFile.dependsOn
    /\ UNCHANGED <<execVars, saveVars, diskVars>>

\* load_checkpoint returns NoCheckpoint or a Serde error: an empty graph.
StartEmpty ==
    /\ ~alive /\ dagFile.kind # "whole"
    /\ alive' = TRUE
    /\ kept' = NoResult
    /\ UNCHANGED <<vars, saver, unsaved, durable, diskVars>>

CkInit ==
    /\ Init
    /\ alive = TRUE /\ saver = "idle" /\ unsaved = {}
    /\ dagFile = Empty("none") /\ nodeFile = NoResult
    /\ durable = FALSE /\ kept = NoResult

Save == SaveBegin \/ SaveDag \/ SaveReturn \/ SaveFails \/ (\E n \in NodeId : SaveNode(n))

CkNext ==
    \/ EngineStep
    \/ Save \/ Clear \/ (\E n \in NodeId : SaveNodeState(n))
    \/ Crash \/ Resume \/ StartEmpty

CkSpec == CkInit /\ [][CkNext]_ckVars

-----------------------------------------------------------------------------

\* Node results survive crashes: through any number of saves, failed saves
\* and restarts, a graph loaded by load_checkpoint, and edited and run since,
\* has every result of the last checkpoint that was completed, Done and
\* Failed ones.  (Until a process starts that finds none to load.)
ResultsSurvive ==
    alive => \A n \in NodeId : kept[n] # "none" => status[n] = kept[n]

\* "JSON checkpoint/resume with crash recovery": once a checkpoint was saved
\* and not cleared, a process that starts after a crash can load one.
CheckpointSurvives == ~alive /\ durable => dagFile.kind = "whole"
=============================================================================
