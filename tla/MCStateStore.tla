---------------------------- MODULE MCStateStore ----------------------------
(* The kernel and an agent process on one file, with a key that only the   *)
(* kernel of the two may write and one of the audit log.                   *)
EXTENDS StateStore

MCHandle    == {"kernel", "agent"}
MCIdentity  == [kernel |-> "Kernel", agent |-> "AgenticLoop"]
MCKey       == {"goal", "entry"}
MCNamespace == [goal |-> "policy", entry |-> "audit"]
=============================================================================
