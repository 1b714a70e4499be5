---------------------------- MODULE MCWorkerThread ----------------------------
(* Instances of the worker thread for TLC. *)
EXTENDS WorkerThread, TLC

CONSTANTS main, db, log   \* model values: the threads
=============================================================================
