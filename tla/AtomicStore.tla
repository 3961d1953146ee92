----------------------------- MODULE AtomicStore ----------------------------
(***************************************************************************)
(* What a store with transactions promises its clients: single writes      *)
(* take effect at once, the writes of a transaction all together when it   *)
(* commits or not at all, and no client sees another's unfinished ones.    *)
(***************************************************************************)
CONSTANTS Client, Key, Value, Empty, Same

VARIABLES
    table,   \* the committed value of each key
    batch    \* the unfinished writes of each client, Same for a key not written

vars == <<table, batch>>

NoWrites == [k \in Key |-> Same]

Init ==
    /\ table = [k \in Key |-> Empty]
    /\ batch = [c \in Client |-> NoWrites]

Write(k, v) ==
    /\ table' = [table EXCEPT ![k] = v]
    /\ UNCHANGED batch

\* A client stages a write; staging the committed value is staging nothing.
Stage(c, k, v) ==
    /\ batch' = [batch EXCEPT ![c][k] = v]
    /\ UNCHANGED table

Commit(c) ==
    /\ table' = [k \in Key |-> IF batch[c][k] = Same THEN table[k] ELSE batch[c][k]]
    /\ batch' = [batch EXCEPT ![c] = NoWrites]

Abort(c) ==
    /\ batch' = [batch EXCEPT ![c] = NoWrites]
    /\ UNCHANGED table

Next ==
    \/ \E k \in Key, v \in Value : Write(k, v)
    \/ \E c \in Client :
         \/ \E k \in Key, v \in Value \union {Same} : Stage(c, k, v)
         \/ Commit(c)
         \/ Abort(c)

Spec == Init /\ [][Next]_vars
=============================================================================
