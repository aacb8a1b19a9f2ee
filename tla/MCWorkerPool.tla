---------------------------- MODULE MCWorkerPool ----------------------------
(* WorkerPool with three files and two workers.                            *)
EXTENDS WorkerPool

CONSTANTS f1, f2, f3
=============================================================================
