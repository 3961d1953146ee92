---------------------------- MODULE StoreProofs ----------------------------
(***************************************************************************)
(* The state store for any handles, identities, keys and thresholds: types,*)
(* append-only prefixes, the checkpoint policy, and that it implements     *)
(* AtomicStore.                                                            *)
(***************************************************************************)
EXTENDS StateStore, TLAPS

\* Every step keeps the types.
LEMMA TypeStep == TypeOK /\ [Next]_vars => TypeOK'
<1> SUFFICES ASSUME TypeOK, [Next]_vars PROVE TypeOK'
  OBVIOUS
<1> USE StoreAssumption DEF TypeOK, policyVars
<1>1. ASSUME NEW h \in Handle, NEW k \in Key, NEW v \in Value, SetRow(h, k, v)
      PROVE  TypeOK'
  BY <1>1 DEF SetRow
<1>2. ASSUME NEW h \in Handle, NEW k \in Key, NEW v \in Value, TxSet(h, k, v)
      PROVE  TypeOK'
  BY <1>2 DEF TxSet
<1>3. ASSUME NEW h \in Handle, NEW k \in Key, Put(h, k) \/ Delete(h, k) PROVE TypeOK'
  BY <1>1, <1>3 DEF Put, Delete, Value, ProcessIdentity
<1>4. ASSUME NEW h \in Handle, NEW k \in Key, TxPut(h, k) \/ TxDelete(h, k) PROVE TypeOK'
  BY <1>2, <1>4 DEF TxPut, TxDelete, Value
<1>5. ASSUME NEW h \in Handle, Checkpoint(h) \/ MaybeCheckpoint(h) PROVE TypeOK'
  BY <1>5 DEF Checkpoint, MaybeCheckpoint, CheckpointOutcome
<1>6. ASSUME NEW h \in Handle, Begin(h) \/ Commit(h) \/ Rollback(h) \/ Panic(h)
      PROVE  TypeOK'
  BY <1>6 DEF Begin, Commit, Rollback, Panic
<1>7. ASSUME NEW h \in Handle, Reopen(h) PROVE TypeOK'
  BY <1>7 DEF Reopen
<1>8. CASE Tick
  BY <1>8 DEF Tick
<1>9. CASE UNCHANGED vars
  BY <1>9 DEF vars
<1> QED
  BY <1>3, <1>4, <1>5, <1>6, <1>7, <1>8, <1>9 DEF Next

\* The rows, the lock and the policy's counters keep their types.
THEOREM TypeCorrect == Spec => []TypeOK
<1>1. Init => TypeOK
  BY StoreAssumption DEF Init, TypeOK, Value
<1> QED
  BY <1>1, TypeStep, PTL DEF Spec

-----------------------------------------------------------------------------
(* Append-only prefixes *)

\* One step removes an append-only entry only by a transaction's commit.
LEMMA AppendOnlyStep ==
    ASSUME TypeOK, [Next]_vars, NEW k \in Key, Namespace[k] \in AppendOnly,
           table[k] # Empty, table'[k] = Empty
    PROVE  writer # Nobody /\ view[k] = Empty
<1> USE StoreAssumption DEF TypeOK, policyVars
<1>1. ASSUME NEW h \in Handle, NEW q \in Key, Put(h, q) PROVE FALSE
  BY <1>1 DEF Put, SetRow, Empty, ProcessIdentity
<1>2. ASSUME NEW h \in Handle, NEW q \in Key, Delete(h, q) PROVE FALSE
  BY <1>2 DEF Delete, MayDelete, SetRow
<1>3. ASSUME NEW h \in Handle, NEW q \in Key, TxPut(h, q) \/ TxDelete(h, q) PROVE FALSE
  BY <1>3 DEF TxPut, TxDelete, TxSet
<1>4. ASSUME NEW h \in Handle, Commit(h) PROVE writer # Nobody /\ view[k] = Empty
  BY <1>4 DEF Commit
<1>5. ASSUME NEW h \in Handle,
             Checkpoint(h) \/ MaybeCheckpoint(h) \/ Begin(h)
               \/ Rollback(h) \/ Panic(h) \/ Reopen(h)
      PROVE  FALSE
  BY <1>5 DEF Checkpoint, MaybeCheckpoint, Begin, Rollback, Panic, Reopen
<1>6. CASE Tick
  BY <1>6 DEF Tick
<1>7. CASE UNCHANGED vars
  BY <1>7 DEF vars
<1> QED
  BY <1>1, <1>2, <1>3, <1>4, <1>5, <1>6, <1>7 DEF Next

\* No guarded call, crash or panic of any handle removes an entry under an
\* append-only prefix.
THEOREM AppendOnlyHolds == Spec => AppendOnlyStays
<1>1. TypeOK /\ [Next]_vars =>
        [\A k \in Key :
            Namespace[k] \in AppendOnly /\ table[k] # Empty /\ table'[k] = Empty =>
                writer # Nobody /\ view[k] = Empty]_vars
  BY AppendOnlyStep
<1> QED
  BY <1>1, TypeCorrect, PTL DEF Spec, AppendOnlyStays

-----------------------------------------------------------------------------
(* The checkpoint policy *)

\* Every step keeps the counters below the threshold between calls.
LEMMA CheckpointStep ==
    TypeOK /\ CheckpointKeepsUp /\ [Next]_vars => CheckpointKeepsUp'
<1> SUFFICES ASSUME TypeOK, CheckpointKeepsUp, [Next]_vars,
                    NEW g \in Handle, pc'[g] = "idle", WriteThreshold > 0
             PROVE  count'[g] < WriteThreshold \/ g \in missed'
  BY DEF CheckpointKeepsUp
<1> USE StoreAssumption DEF TypeOK, policyVars, CheckpointKeepsUp
<1>1. ASSUME NEW h \in Handle, NEW k \in Key, Put(h, k) \/ Delete(h, k)
      PROVE  count'[g] < WriteThreshold \/ g \in missed'
  BY <1>1 DEF Put, Delete, SetRow
<1>2. ASSUME NEW h \in Handle, NEW k \in Key, TxPut(h, k) \/ TxDelete(h, k)
      PROVE  count'[g] < WriteThreshold \/ g \in missed'
  BY <1>2 DEF TxPut, TxDelete, TxSet
<1>3. ASSUME NEW h \in Handle, Checkpoint(h)
      PROVE  count'[g] < WriteThreshold \/ g \in missed'
  BY <1>3 DEF Checkpoint, CheckpointOutcome
<1>4. ASSUME NEW h \in Handle, MaybeCheckpoint(h)
      PROVE  count'[g] < WriteThreshold \/ g \in missed'
  BY <1>4 DEF MaybeCheckpoint, CheckpointDue, CheckpointOutcome
<1>5. ASSUME NEW h \in Handle, Begin(h) \/ Commit(h) \/ Rollback(h) \/ Panic(h)
      PROVE  count'[g] < WriteThreshold \/ g \in missed'
  BY <1>5 DEF Begin, Commit, Rollback, Panic
<1>6. ASSUME NEW h \in Handle, Reopen(h)
      PROVE  count'[g] < WriteThreshold \/ g \in missed'
  BY <1>6 DEF Reopen
<1>7. CASE Tick
  BY <1>7 DEF Tick
<1>8. CASE UNCHANGED vars
  BY <1>8 DEF vars
<1> QED
  BY <1>1, <1>2, <1>3, <1>4, <1>5, <1>6, <1>7, <1>8 DEF Next

\* Between calls a handle has fewer uncheckpointed writes than the
\* threshold unless its last checkpoint returned an error.
THEOREM CheckpointHolds == Spec => []CheckpointKeepsUp
<1>1. Init => CheckpointKeepsUp
  BY StoreAssumption DEF Init, CheckpointKeepsUp
<1> QED
  BY <1>1, CheckpointStep, TypeCorrect, PTL DEF Spec

-----------------------------------------------------------------------------
(* Refinement *)

\* Every step is one of AtomicStore's, or changes nothing it sees.
LEMMA AtomicStep == TypeOK /\ [Next]_vars => [Abstract!Next]_(Abstract!vars)
<1> SUFFICES ASSUME TypeOK, [Next]_vars PROVE [Abstract!Next]_(Abstract!vars)
  OBVIOUS
<1> USE StoreAssumption DEF TypeOK, policyVars
<1>1. ASSUME NEW h \in Handle, NEW k \in Key, NEW v \in Value, SetRow(h, k, v)
      PROVE  Abstract!Next
  <2>1. batch' = batch
    BY <1>1 DEF SetRow, batch
  <2>2. Abstract!Write(k, v)
    BY <1>1, <2>1 DEF SetRow, Abstract!Write
  <2> QED
    BY <2>2 DEF Abstract!Next
<1>2. ASSUME NEW h \in Handle, NEW k \in Key, NEW v \in Value, TxSet(h, k, v)
      PROVE  Abstract!Next
  <2> DEFINE w == IF v # table[k] THEN v ELSE Same
  <2>1. table' = table /\ writer = h /\ writer' = h
    BY <1>2 DEF TxSet
  <2>2. ASSUME NEW q \in Key
        PROVE  batch'[h][q] = IF q = k THEN w ELSE batch[h][q]
    BY <1>2, <2>1 DEF TxSet, batch
  <2>3. ASSUME NEW g \in Handle, g # h PROVE batch'[g] = batch[g]
    BY <2>1, <2>3 DEF batch
  <2>4. batch' = [batch EXCEPT ![h][k] = w]
    <3> HIDE DEF w
    <3>1. /\ batch' \in [Handle -> [Key -> Value \union {Same}]]
          /\ batch \in [Handle -> [Key -> Value \union {Same}]]
      BY <1>2, <2>1 DEF TxSet, batch
    <3>2. batch'[h] = [batch[h] EXCEPT ![k] = w]
      BY <2>2, <3>1
    <3> QED
      BY <2>3, <3>1, <3>2
  <2>5. Abstract!Stage(h, k, w)
    BY <2>1, <2>4 DEF Abstract!Stage
  <2>6. w \in Value \union {Same}
    OBVIOUS
  <2> QED
    BY <2>5, <2>6 DEF Abstract!Next
<1>3. ASSUME NEW h \in Handle, writer = h, writer' = Nobody, UNCHANGED <<table, view>>
      PROVE  Abstract!Next
  <2>1. batch' = [batch EXCEPT ![h] = Abstract!NoWrites]
    BY <1>3 DEF batch, Abstract!NoWrites
  <2> QED
    BY <1>3, <2>1 DEF Abstract!Next, Abstract!Abort
<1>4. ASSUME NEW h \in Handle, Commit(h) PROVE Abstract!Next
  <2>1. batch' = [batch EXCEPT ![h] = Abstract!NoWrites]
    BY <1>4 DEF Commit, batch, Abstract!NoWrites
  <2>2. table' = [k \in Key |-> IF batch[h][k] = Same THEN table[k] ELSE batch[h][k]]
    <3>1. ASSUME NEW k \in Key
          PROVE  view[k] = IF batch[h][k] = Same THEN table[k] ELSE batch[h][k]
      BY <1>4 DEF Commit, batch, Value, ProcessIdentity, Empty, Same
    <3> QED
      BY <1>4, <3>1 DEF Commit
  <2> QED
    BY <2>1, <2>2 DEF Abstract!Next, Abstract!Commit
<1>5. ASSUME NEW h \in Handle, Begin(h) PROVE UNCHANGED Abstract!vars
  BY <1>5 DEF Begin, batch, Abstract!vars
<1>6. ASSUME UNCHANGED <<table, writer, view>> PROVE UNCHANGED Abstract!vars
  BY <1>6 DEF batch, Abstract!vars
<1>7. ASSUME NEW h \in Handle, NEW k \in Key,
             Put(h, k) \/ Delete(h, k) \/ TxPut(h, k) \/ TxDelete(h, k)
      PROVE  Abstract!Next
  BY <1>1, <1>2, <1>7 DEF Put, Delete, TxPut, TxDelete, Value
<1>8. ASSUME NEW h \in Handle, Checkpoint(h) \/ MaybeCheckpoint(h)
      PROVE  UNCHANGED Abstract!vars
  BY <1>6, <1>8 DEF Checkpoint, MaybeCheckpoint
<1>9. ASSUME NEW h \in Handle, Rollback(h) \/ Panic(h) PROVE Abstract!Next
  BY <1>3, <1>9 DEF Rollback, Panic
<1>10. ASSUME NEW h \in Handle, Reopen(h) PROVE [Abstract!Next]_(Abstract!vars)
  <2>1. CASE writer = h
    BY <1>3, <1>10, <2>1 DEF Reopen
  <2>2. CASE writer # h
    BY <1>6, <1>10, <2>2 DEF Reopen
  <2> QED
    BY <2>1, <2>2
<1>11. CASE Tick \/ UNCHANGED vars
  BY <1>6, <1>11 DEF Tick, vars
<1> QED
  BY <1>4, <1>5, <1>7, <1>8, <1>9, <1>10, <1>11 DEF Next

\* The store implements AtomicStore: transactions of any number of handles
\* take effect together or not at all, also across panics and crashes.
THEOREM StoreIsAtomic == Spec => Atomic
<1>1. Init => Abstract!Init
  BY StoreAssumption DEF Init, Abstract!Init, batch, Abstract!NoWrites
<1> QED
  BY <1>1, AtomicStep, TypeCorrect, PTL DEF Spec, Atomic, Abstract!Spec
=============================================================================
