-------------------------- MODULE MCSyncTaskQueue --------------------------
(* Small instances of SyncTaskQueue. *)
EXTENDS SyncTaskQueue

\* the sync loop runs user and node tasks, the mailer its own
MCTypesOf == [w \in Workers |-> IF w = "mailer" THEN {"mail"} ELSE Types \ {"mail"}]
=============================================================================
