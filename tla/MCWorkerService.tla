-------------------------- MODULE MCWorkerService --------------------------
(* Instances of WorkerService for TLC.  The deadlines of 2s, 5s and 10s    *)
(* last 1, 2 and 4 ticks; the durations of 30s and more are cut down.      *)
EXTENDS WorkerService

CONSTANTS p1
=============================================================================
