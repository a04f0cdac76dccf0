---------------------------- MODULE MCTaskQuota ----------------------------
(* TaskQuota for TLC: two tasks of one user that fit the quota one by one. *)
(* The file a worker reports is smaller than the release of the first task *)
(* and larger than that of the second.                                     *)
EXTENDS TaskQuota, TLC

CONSTANTS w1, w2, u1, m1, m2

MCTitle == [t \in Task |-> <<u1, m1>>]
MCSize == [t \in Task |-> IF t = 1 THEN 4 ELSE 2]

Symmetry == Permutations(Worker) \cup Permutations(Slot) \cup Permutations(Creator)
=============================================================================
