--------------------------- MODULE TaskOwnership ---------------------------
(***************************************************************************)
(* What the download queue promises, whatever the workers do and however   *)
(* their requests overlap: a task has at most one holder, a worker gets it *)
(* only while nobody holds it, every grant counts as an attempt, and only  *)
(* a task that was granted Max times or more is given up as failed.        *)
(***************************************************************************)
EXTENDS Naturals

CONSTANTS Worker, Task, None, Max

VARIABLES holder,   \* who holds each task, or None
          grants,   \* how many times each task was granted
          failed    \* the tasks given up

OInit ==
  /\ holder = [t \in Task |-> None]
  /\ grants = [t \in Task |-> 0]
  /\ failed = {}

Grant(t, w) ==
  /\ holder[t] = None
  /\ t \notin failed
  /\ holder' = [holder EXCEPT ![t] = w]
  /\ grants' = [grants EXCEPT ![t] = @ + 1]
  /\ failed' = failed

(* The holders of some tasks lose them, and the verdict on tasks that have *)
(* used up their grants may change.                                        *)
Settle(released) ==
  /\ holder' = [t \in Task |-> IF t \in released THEN None ELSE holder[t]]
  /\ grants' = grants
  /\ failed' \subseteq Task
  /\ \A t \in failed' : grants[t] >= Max

ONext ==
  \/ \E t \in Task, w \in Worker : Grant(t, w)
  \/ \E released \in SUBSET Task : Settle(released)

OSpec == OInit /\ [][ONext]_<<holder, grants, failed>>
=============================================================================
