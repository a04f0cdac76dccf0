------------------------------ MODULE Accounts ------------------------------
(***************************************************************************)
(* Accounts, invite keys, plans and quotas: registration, the creation of  *)
(* keys and the patches of administrators.  Each request works on a        *)
(* database session of its own: it reads, awaits, and writes at its commit *)
(* the columns it changed, so other commits may fall in between.           *)
(***************************************************************************)
EXTENDS Naturals, FiniteSets

CONSTANTS Email,     \* the people who may have an account
          Key,       \* the invite keys that may come to be
          Slot,      \* requests served at the same time
          Plan,      \* the codes of PLANS
          Free,      \* the code of FREE_PLAN
          PlanQuota, \* PlanQuota[p]: its quota_bytes
          Body,      \* the bodies of PATCH /api/admin/users/{id}
          None

ASSUME AccountsAssumption ==
  /\ Free \in Plan
  /\ PlanQuota \in [Plan -> Nat]
  /\ \A p, q \in Plan : PlanQuota[p] = PlanQuota[q] => p = q
  /\ None \notin Email \cup Plan \cup Nat \cup BOOLEAN
  /\ None \notin [admin : BOOLEAN, inviter : BOOLEAN, plan : Plan,
                  expires : {"never", "ahead", "past"}, quota : Nat]
  /\ "absent" \notin Email \cup {None}
  /\ Body \subseteq [plan : Plan \cup {None}, expires : {"never", "ahead", "past"},
                     quota : Nat \cup {None},
                     admin : BOOLEAN \cup {None}, inviter : BOOLEAN \cup {None}]

VARIABLES users,     \* the row of each account, or None
          keys,      \* used_by of each invite key, or "absent"
          reqs,      \* the request each slot is serving
          overridden \* history: the accounts an override was committed on

vars == <<users, keys, reqs, overridden>>

(* plan_expires_at only matters against the clock.                         *)
Expiry == {"never", "ahead", "past"}

Account == [admin : BOOLEAN, inviter : BOOLEAN, plan : Plan, expires : Expiry, quota : Nat]

NewAccount == [admin |-> FALSE, inviter |-> FALSE, plan |-> Free, expires |-> "never",
               quota |-> PlanQuota[Free]]

Idle == [op |-> "idle"]

(* What is not None in a body is to change.                                *)
Given(value, old) == IF value = None THEN old ELSE value

Exists(e) == users[e] # None

Start(s, request) == reqs' = [reqs EXCEPT ![s] = request]

Done(s) == reqs' = [reqs EXCEPT ![s] = Idle]

-----------------------------------------------------------------------------
(* One account that was made an administrator in the database, and a key   *)
(* that nobody created.                                                    *)
Init ==
  /\ \E e \in Email : users = [x \in Email |->
       IF x = e THEN [NewAccount EXCEPT !.admin = TRUE, !.inviter = TRUE] ELSE None]
  /\ \E k \in Key : keys = [x \in Key |-> IF x = k THEN None ELSE "absent"]
  /\ reqs = [s \in Slot |-> Idle]
  /\ overridden = {}

(* POST /api/auth/register, up to the hashing of the password.             *)
RegisterRead(s, e, k) ==
  /\ reqs[s] = Idle
  /\ ~Exists(e)
  /\ keys[k] = None
  /\ Start(s, [op |-> "register", email |-> e, key |-> k])
  /\ UNCHANGED <<users, keys, overridden>>

(* Mutated form of RegisterCommit: the key is used up by a failure, too.   *)
RegisterBurningKey(s) ==
  LET e == reqs[s].email IN
  /\ reqs[s].op = "register"
  /\ users' = IF Exists(e) THEN users ELSE [users EXCEPT ![e] = NewAccount]
  /\ keys' = [keys EXCEPT ![reqs[s].key] = e]
  /\ Done(s)
  /\ UNCHANGED overridden

(* The insert, the key and the commit.  If the email was registered        *)
(* meanwhile, users.email is no longer unique and all is rolled back.      *)
RegisterCommit(s) ==
  LET e == reqs[s].email IN
  /\ reqs[s].op = "register"
  /\ IF Exists(e)
       THEN UNCHANGED <<users, keys>>
       ELSE /\ users' = [users EXCEPT ![e] = NewAccount]
            /\ keys' = [keys EXCEPT ![reqs[s].key] = e]
  /\ Done(s)
  /\ UNCHANGED overridden

(* POST /api/auth/invite-keys.                                             *)
CreateKeyRead(s, e, k) ==
  /\ reqs[s] = Idle
  /\ Exists(e) /\ users[e].inviter
  /\ keys[k] = "absent"
  /\ \A r \in Slot : reqs[r].op = "create_key" => reqs[r].key # k
  /\ Start(s, [op |-> "create_key", key |-> k])
  /\ UNCHANGED <<users, keys, overridden>>

CreateKeyCommit(s) ==
  /\ reqs[s].op = "create_key"
  /\ keys' = [keys EXCEPT ![reqs[s].key] = None]
  /\ Done(s)
  /\ UNCHANGED <<users, overridden>>

(* require_admin: the row of the one who asks is read first.               *)
Authorise(s, a) ==
  /\ reqs[s] = Idle
  /\ Exists(a) /\ users[a].admin
  /\ Start(s, [op |-> "authorised", by |-> a, own |-> users[a]])
  /\ UNCHANGED <<users, keys, overridden>>

(* A row that the session has loaded is not loaded anew.                   *)
Seen(s, u) == IF u = reqs[s].by THEN reqs[s].own ELSE users[u]

(* Mutated form of PatchRead: one may demote oneself.                      *)
PatchReadOfSelf(s, u, body) ==
  /\ reqs[s].op = "authorised"
  /\ Exists(u)
  /\ Start(s, [op |-> "patch", by |-> reqs[s].by, email |-> u, seen |-> Seen(s, u),
               body |-> body])
  /\ UNCHANGED <<users, keys, overridden>>

(* PATCH /api/admin/users/{id}, up to the commit.                          *)
PatchRead(s, u, body) ==
  /\ reqs[s].op = "authorised"
  /\ Exists(u)
  /\ ~(body.admin = FALSE /\ u = reqs[s].by)
  /\ Start(s, [op |-> "patch", by |-> reqs[s].by, email |-> u, seen |-> Seen(s, u),
               body |-> body])
  /\ UNCHANGED <<users, keys, overridden>>

(* Mutated forms of Patched: a quota that is not given is set all the same;*)
(* a plan does not bring its quota.                                        *)
PatchedUnguarded(u, body) ==
  [u EXCEPT !.plan = Given(body.plan, @),
            !.expires = IF body.plan = None THEN @ ELSE body.expires,
            !.quota = body.quota,
            !.admin = Given(body.admin, @),
            !.inviter = Given(body.inviter, @)]

PatchedWithoutQuota(u, body) ==
  [u EXCEPT !.plan = Given(body.plan, @),
            !.expires = IF body.plan = None THEN @ ELSE body.expires,
            !.quota = Given(body.quota, @),
            !.admin = Given(body.admin, @),
            !.inviter = Given(body.inviter, @)]

(* A plan comes with its expiry and, unless the body gives one, its quota. *)
Patched(u, body) ==
  [u EXCEPT !.plan = Given(body.plan, @),
            !.expires = IF body.plan = None THEN @ ELSE body.expires,
            !.quota = Given(body.quota, IF body.plan = None THEN @ ELSE PlanQuota[body.plan]),
            !.admin = Given(body.admin, @),
            !.inviter = Given(body.inviter, @)]

(* The UPDATE sets the columns that differ from those loaded; two dates     *)
(* ahead may be one and the same (sameDate) or not.                         *)
Written(seen, new, body, sameDate) ==
  {f \in DOMAIN new : new[f] # seen[f]}
    \cup IF body.plan # None /\ new.expires # "never" /\ ~sameDate THEN {"expires"} ELSE {}

(* The row after that UPDATE.                                              *)
Updated(old, seen, body, sameDate) ==
  LET new == Patched(seen, body) IN
  [f \in DOMAIN old |-> IF f \in Written(seen, new, body, sameDate) THEN new[f] ELSE old[f]]

PatchCommit(s, sameDate) ==
  LET u == reqs[s].email  body == reqs[s].body IN
  /\ reqs[s].op = "patch"
  /\ users' = [users EXCEPT ![u] = Updated(@, reqs[s].seen, body, sameDate)]
  /\ overridden' = IF body.quota = None THEN overridden ELSE overridden \cup {u}
  /\ Done(s)
  /\ UNCHANGED keys

(* A request that never commits.                                           *)
Abort(s) ==
  /\ reqs[s] # Idle
  /\ Done(s)
  /\ UNCHANGED <<users, keys, overridden>>

(* The clock passes plan_expires_at.                                       *)
PlanExpires(e) ==
  /\ Exists(e) /\ users[e].expires = "ahead"
  /\ users' = [users EXCEPT ![e].expires = "past"]
  /\ UNCHANGED <<keys, reqs, overridden>>

Next ==
  \/ \E s \in Slot : RegisterCommit(s) \/ CreateKeyCommit(s) \/ Abort(s)
  \/ \E s \in Slot, sameDate \in BOOLEAN : PatchCommit(s, sameDate)
  \/ \E s \in Slot, e \in Email, k \in Key : RegisterRead(s, e, k) \/ CreateKeyRead(s, e, k)
  \/ \E s \in Slot, a \in Email : Authorise(s, a)
  \/ \E s \in Slot, u \in Email, body \in Body : PatchRead(s, u, body)
  \/ \E e \in Email : PlanExpires(e)

Spec == Init /\ [][Next]_vars

-----------------------------------------------------------------------------
(* get_effective_plan and get_effective_quota_bytes.                       *)
EffectivePlan(u) == IF u.expires = "past" THEN Free ELSE u.plan

EffectiveQuota(u) == IF u.expires = "past" THEN PlanQuota[Free] ELSE u.quota

(* The tables have the shape the code gives them.                          *)
TypeOK ==
  /\ users \in [Email -> Account \cup {None}]
  /\ keys \in [Key -> {"absent", None} \cup Email]
  /\ overridden \subseteq Email

(* However two registrations for one email or with one key race, a used    *)
(* key names an account, and no account has used up two keys: what fails   *)
(* fails as a whole (register).                                            *)
KeysTellUsers ==
  \A k \in Key : keys[k] \in Email =>
    /\ Exists(keys[k])
    /\ \A j \in Key : keys[j] = keys[k] => j = k

(* Patches that overlap may mix their columns, but an account that was     *)
(* never given a quota by hand has the quota of the plan in effect         *)
(* (patch_user, get_effective_plan, get_effective_quota_bytes).            *)
PlanQuotaAgree ==
  \A e \in Email : Exists(e) /\ e \notin overridden =>
    EffectiveQuota(users[e]) = PlanQuota[EffectivePlan(users[e])]

(* However patches overlap, the right to administer is given and taken only *)
(* by a patch of another that names it: nobody demotes oneself, and a patch *)
(* of one's own that was under way does not bring a revoked right back, so  *)
(* that the last administrator is lost only to one who was just demoted     *)
(* (require_admin, patch_user).                                             *)
AdminFromOthers ==
  [][\A e \in Email : Exists(e) /\ users'[e].admin # users[e].admin =>
       \E s \in Slot :
         /\ reqs[s].op = "patch" /\ reqs'[s] = Idle
         /\ reqs[s].email = e /\ reqs[s].by # e
         /\ reqs[s].body.admin = users'[e].admin]_vars
=============================================================================
