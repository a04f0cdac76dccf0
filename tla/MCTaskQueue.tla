---------------------------- MODULE MCTaskQueue ----------------------------
(* TaskQueue for TLC: all tasks are for one user and one media item.       *)
EXTENDS TaskQueue, TLC

CONSTANTS w1, w2, u1, m1

MCTitle == [t \in Task |-> <<u1, m1>>]

Symmetry == Permutations(Worker) \cup Permutations(Slot)
=============================================================================
