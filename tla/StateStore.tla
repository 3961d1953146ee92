----------------------------- MODULE StateStore -----------------------------
(***************************************************************************)
(* The SQLite state store: SqliteStateStore and Transaction of             *)
(* src/store/engine.rs behind the AclGuard of src/store/acl.rs.  Several   *)
(* handles (one per process, with an identity) are open on one database    *)
(* file, as in tests/store_tests.rs.                                       *)
(*                                                                         *)
(* put and delete take &mut self, so a handle never runs them beside its   *)
(* own transaction; what another handle does falls between any two steps.  *)
(* A call that waits for SQLite's write lock and gives up, and one that    *)
(* the guard refuses, change nothing and are stuttering steps.             *)
(*                                                                         *)
(* Data: a value is who wrote it, "raw" for a write in a transaction,      *)
(* which has no guard.  Time stamps and the order of list_keys are left    *)
(* out; get, exists and list_keys read table, or view inside the           *)
(* transaction.                                                            *)
(***************************************************************************)
EXTENDS Naturals

CONSTANTS
    Handle, Nobody,    \* the open stores, and the absence of one
    Identity,          \* ProcessIdentity of each handle's guard
    Key,
    Namespace,         \* the prefix each key falls under, "other" for none
    WriteThreshold, SecondsThreshold,   \* CheckpointPolicy
    MaxCount           \* bound: writes a handle counts while checkpoints fail

ProcessIdentity ==
    {"Kernel", "MetaLoop", "HarnessLoop", "AgenticLoop", "ModelAdapter", "Human"}

ASSUME StoreAssumption ==
    /\ Nobody \notin Handle
    /\ Identity \in [Handle -> ProcessIdentity]
    /\ WriteThreshold \in Nat /\ SecondsThreshold \in Nat /\ MaxCount \in Nat

VARIABLES
    table,    \* the committed rows of kv_store
    writer,   \* the handle whose Transaction holds the write lock, or Nobody
    view,     \* the rows as that transaction sees them
    pc,       \* per handle: "idle", "policy" (row written), "poisoned"
    count,    \* write_count of each handle
    age,      \* seconds since last_checkpoint, up to the threshold
    missed    \* handles whose last checkpoint attempt returned an error

policyVars == <<count, age, missed>>
vars == <<table, writer, view, pc, count, age, missed>>

Empty == "empty"
Value == ProcessIdentity \union {"raw", Empty}

-----------------------------------------------------------------------------
(* AclGuard *)

\* is_append_only
AppendOnly == {"audit", "evolution-log"}

\* may_write: the Kernel may write everything, and everybody what is under
\* no guarded prefix.
MayWrite(i, k) ==
    LET ns == Namespace[k] IN
    \/ i = "Kernel"
    \/ i = "MetaLoop" /\ ns \in {"policy", "evolution-log", "self-model"}
    \/ i = "Human" /\ ns = "meta-goals"
    \/ i = "ModelAdapter" /\ ns = "circuit-breaker"
    \/ i = "HarnessLoop" /\ ns = "dag"
    \/ i = "AgenticLoop" /\ ns = "task"
    \/ ns \in {"audit", "other"}

\* Mutant: the Kernel's full access is looked at before the operation.
MayDeleteAsKernel(i, k) ==
    i = "Kernel" \/ (MayWrite(i, k) /\ Namespace[k] \notin AppendOnly)

\* check_write for "delete".
MayDelete(i, k) == MayWrite(i, k) /\ Namespace[k] \notin AppendOnly

-----------------------------------------------------------------------------
(* SqliteStateStore *)

\* Mutant: the write does not wait for another handle's transaction.
SetRowUnlocked(h, k, v) ==
    /\ pc[h] = "idle" /\ writer # h /\ count[h] < MaxCount
    /\ table' = [table EXCEPT ![k] = v]
    /\ pc' = [pc EXCEPT ![h] = "policy"]
    /\ count' = [count EXCEPT ![h] = @ + 1]
    /\ UNCHANGED <<writer, view, age, missed>>

\* The row is written once SQLite grants the lock, then record_write.
SetRow(h, k, v) ==
    /\ pc[h] = "idle" /\ writer = Nobody /\ count[h] < MaxCount
    /\ table' = [table EXCEPT ![k] = v]
    /\ pc' = [pc EXCEPT ![h] = "policy"]
    /\ count' = [count EXCEPT ![h] = @ + 1]
    /\ UNCHANGED <<writer, view, age, missed>>

Put(h, k) == MayWrite(Identity[h], k) /\ SetRow(h, k, Identity[h])

Delete(h, k) == MayDelete(Identity[h], k) /\ SetRow(h, k, Empty)

\* wal_checkpoint(TRUNCATE).  The pragma reports a blocked checkpoint as a
\* row, which execute_batch drops, so only other errors count as errors.
CheckpointOutcome(h) ==
    \/ /\ count' = [count EXCEPT ![h] = 0]
       /\ age' = [age EXCEPT ![h] = 0]
       /\ missed' = missed \ {h}
    \/ /\ missed' = missed \union {h}
       /\ UNCHANGED <<count, age>>

\* checkpoint() called by the owner of the store.
Checkpoint(h) ==
    /\ pc[h] = "idle" /\ writer # h
    /\ CheckpointOutcome(h)
    /\ UNCHANGED <<table, writer, view, pc>>

\* Mutant: the threshold itself does not trigger.
CheckpointDueAbove(h) == count[h] > WriteThreshold \/ age[h] >= SecondsThreshold

CheckpointDue(h) == count[h] >= WriteThreshold \/ age[h] >= SecondsThreshold

\* maybe_checkpoint, the last thing put and delete do; its error is ignored.
MaybeCheckpoint(h) ==
    /\ pc[h] = "policy"
    /\ IF CheckpointDue(h) THEN CheckpointOutcome(h) ELSE UNCHANGED policyVars
    /\ pc' = [pc EXCEPT ![h] = "idle"]
    /\ UNCHANGED <<table, writer, view>>

-----------------------------------------------------------------------------
(* Transaction *)

\* transaction(): the connection's mutex, then BEGIN IMMEDIATE.
Begin(h) ==
    /\ pc[h] = "idle" /\ writer = Nobody
    /\ writer' = h
    /\ view' = table
    /\ UNCHANGED <<table, pc, policyVars>>

TxSet(h, k, v) ==
    /\ writer = h
    /\ view' = [view EXCEPT ![k] = v]
    /\ UNCHANGED <<table, writer, pc, policyVars>>

TxPut(h, k)    == TxSet(h, k, "raw")
TxDelete(h, k) == TxSet(h, k, Empty)

Commit(h) ==
    /\ writer = h
    /\ table' = view
    /\ writer' = Nobody
    /\ UNCHANGED <<view, pc, policyVars>>

\* Dropped without commit, or after a commit that returned an error.
Rollback(h) ==
    /\ writer = h
    /\ writer' = Nobody
    /\ UNCHANGED <<table, view, pc, policyVars>>

\* A panic inside the scope rolls back and poisons the mutex: every later
\* call of this handle panics too.
Panic(h) ==
    /\ writer = h
    /\ writer' = Nobody
    /\ pc' = [pc EXCEPT ![h] = "poisoned"]
    /\ UNCHANGED <<table, view, policyVars>>

\* The process dies, wherever it is, and opens the store again.
Reopen(h) ==
    /\ writer' = IF writer = h THEN Nobody ELSE writer
    /\ pc' = [pc EXCEPT ![h] = "idle"]
    /\ count' = [count EXCEPT ![h] = 0]
    /\ age' = [age EXCEPT ![h] = 0]
    /\ missed' = missed \ {h}
    /\ UNCHANGED <<table, view>>

Tick ==
    /\ age' = [h \in Handle |-> IF age[h] < SecondsThreshold THEN age[h] + 1 ELSE age[h]]
    /\ UNCHANGED <<table, writer, view, pc, count, missed>>

-----------------------------------------------------------------------------

\* open_with_policy on a fresh file.
Init ==
    /\ table = [k \in Key |-> Empty]
    /\ view = table
    /\ writer = Nobody
    /\ pc = [h \in Handle |-> "idle"]
    /\ count = [h \in Handle |-> 0]
    /\ age = [h \in Handle |-> 0]
    /\ missed = {}

Next ==
    \/ \E h \in Handle, k \in Key : Put(h, k) \/ Delete(h, k) \/ TxPut(h, k) \/ TxDelete(h, k)
    \/ \E h \in Handle : Checkpoint(h) \/ MaybeCheckpoint(h) \/ Begin(h) \/ Commit(h)
                            \/ Rollback(h) \/ Panic(h) \/ Reopen(h)
    \/ Tick

Spec == Init /\ [][Next]_vars

-----------------------------------------------------------------------------
(* Properties *)

\* Types of the rows, the lock and the checkpoint policy's counters.
TypeOK ==
    /\ table \in [Key -> Value] /\ view \in [Key -> Value]
    /\ writer \in Handle \union {Nobody}
    /\ pc \in [Handle -> {"idle", "policy", "poisoned"}]
    /\ count \in [Handle -> Nat] /\ age \in [Handle -> Nat]
    /\ missed \subseteq Handle

\* The unfinished writes of a transaction: where its view differs.
Same == "same"
batch == [h \in Handle |-> [k \in Key |->
            IF writer = h /\ view[k] # table[k] THEN view[k] ELSE Same]]

Abstract == INSTANCE AtomicStore WITH Client <- Handle

\* The store keeps the promises of AtomicStore across handles, failed
\* commits, panics and crashes: the writes of a Transaction take effect
\* together or not at all, and nobody else writes in between.
Atomic == Abstract!Spec

\* An entry under an append-only prefix disappears only when a transaction,
\* which bypasses the guard, commits; no crash, panic or guarded call of
\* any identity removes it.
AppendOnlyStays ==
    [][\A k \in Key :
          Namespace[k] \in AppendOnly /\ table[k] # Empty /\ table'[k] = Empty =>
              writer # Nobody /\ view[k] = Empty]_vars

\* Between calls a handle has counted fewer writes than the threshold, or
\* the last checkpoint it tried returned an error.
CheckpointKeepsUp ==
    \A h \in Handle : pc[h] = "idle" /\ WriteThreshold > 0 =>
        count[h] < WriteThreshold \/ h \in missed
=============================================================================
