------------------------------ MODULE Transaction ------------------------------
(***************************************************************************)
(* The transaction a connection is in, as psycopg and the server keep it:  *)
(* outside autocommit the first statement opens one, and a failed one      *)
(* aborts what is open.  External; what Pipeline and Upsert share.         *)
(***************************************************************************)
VARIABLES tx, auto     \* the transaction status, and autocommit

TransactionTypeOK == tx \in {"idle", "open", "failed"} /\ auto \in BOOLEAN

Begun == IF tx = "idle" /\ ~auto THEN "open" ELSE tx
Aborted == IF Begun = "idle" THEN "idle" ELSE "failed"
===============================================================================
