---------------------------- MODULE MCTaskQueue ----------------------------
(* TaskQueue on a small instance: two servers that share a database.       *)
EXTENDS TaskQueue, TLC

CONSTANTS t1, A, B
=============================================================================
