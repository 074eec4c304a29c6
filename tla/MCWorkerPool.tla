---------------------------- MODULE MCWorkerPool ----------------------------
(* WorkerPool for TLC: the threads are model values.                        *)
EXTENDS WorkerPool
CONSTANTS w1, w2, w3
=============================================================================
