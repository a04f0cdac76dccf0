----------------------------- MODULE MCLibrary -----------------------------
(* Library for TLC: a process of the script and a contract worker, a task  *)
(* of ann and one of bob for the same media item.                          *)
EXTENDS Library, TLC

CONSTANTS ann, bob, m1, p1, n1

MCTitle == [t \in Task |-> <<IF t = 1 THEN ann ELSE bob, m1>>]
MCName == [p \in Path |-> n1]
(* Bob reports on a file of ann.                                           *)
MCWatched == {<<bob, <<1, p1>>>>}

(* Just below 95 %, but shown as 95 once it is rounded.                    *)
MCReport == {[position |-> 949, duration |-> 1000]}

Symmetry == Permutations(Slot)
=============================================================================
