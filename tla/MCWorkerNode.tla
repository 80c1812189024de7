---------------------------- MODULE MCWorkerNode ----------------------------
(* Instances of WorkerNode for TLC.                                        *)
EXTENDS WorkerNode, TLC

CONSTANTS t1, t2

TaskSymmetry == Permutations(Task)
=============================================================================
