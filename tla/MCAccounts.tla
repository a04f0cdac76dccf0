----------------------------- MODULE MCAccounts -----------------------------
(* Accounts for TLC: two plans; bodies that assign the free one for good  *)
(* and take all rights, that assign the other for a while and give all     *)
(* rights, and that give a quota by hand.                                  *)
EXTENDS Accounts, TLC

CONSTANT plus

MCPlanQuota == [p \in Plan |-> IF p = Free THEN 1 ELSE 2]

Unchanged == [plan |-> None, expires |-> "never", quota |-> None, admin |-> None, inviter |-> None]

MCBody == {[Unchanged EXCEPT !.plan = Free, !.inviter = FALSE, !.admin = FALSE],
           [Unchanged EXCEPT !.plan = plus, !.expires = "ahead", !.inviter = TRUE, !.admin = TRUE],
           [Unchanged EXCEPT !.quota = 2]}

Symmetry == Permutations(Email) \cup Permutations(Key) \cup Permutations(Slot)
=============================================================================
