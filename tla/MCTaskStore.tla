---------------------------- MODULE MCTaskStore ----------------------------
(* Instances of TaskStore for TLC: one session with two jobs (two tasks and *)
(* one task), and one session with a job each.                              *)
EXTENDS TaskStore, TLC

CONSTANTS s1, s2, j1, j2, t1, t2, t3, node, slot, none

MCJobOf == [t \in Task |-> IF t = t3 THEN j2 ELSE j1]
MCSessionOf == [j \in Job |-> s1]
MCOwnSession == [j \in Job |-> IF j = j1 THEN s1 ELSE s2]
MCNodeOf == [e \in Executor |-> node]

(* The two tasks of j1 are interchangeable. *)
Twins == Permutations({t1, t2})
=============================================================================
