--------------------------- MODULE AccountsProofs ---------------------------
(***************************************************************************)
(* Proofs about Accounts, for any people, keys, plans and bodies, and any  *)
(* number of requests at a time.                                           *)
(***************************************************************************)
EXTENDS Accounts, TLAPS

(* The quota of a row is that of its plan, whether it has expired or not.  *)
Agrees(u) == u.quota = PlanQuota[u.plan]

(* LEMMA UpdatedRow                                                        *)
(* What a patch makes of a row, whose columns may be newer than those it   *)
(* read: it stays a row, its quota stays that of its plan unless one was   *)
(* given, and its right to administer changes only to what the body says   *)
(* and the row that was read did not (Patched, Written).                   *)
LEMMA UpdatedRow ==
  ASSUME NEW old \in Account, NEW seen \in Account, NEW body \in Body, NEW sameDate \in BOOLEAN
  PROVE  /\ Updated(old, seen, body, sameDate) \in Account
         /\ body.quota = None /\ Agrees(old) /\ Agrees(seen)
              => Agrees(Updated(old, seen, body, sameDate))
         /\ Updated(old, seen, body, sameDate).admin # old.admin
              => /\ body.admin = Updated(old, seen, body, sameDate).admin
                 /\ seen.admin # Updated(old, seen, body, sameDate).admin
<1> DEFINE p == Patched(seen, body)
           w == Written(seen, p, body, sameDate)
           new == Updated(old, seen, body, sameDate)
<1>1. /\ body.plan \in Plan \cup {None} /\ body.expires \in Expiry
      /\ body.quota \in Nat \cup {None}
      /\ body.admin \in BOOLEAN \cup {None} /\ body.inviter \in BOOLEAN \cup {None}
  BY AccountsAssumption DEF Expiry
<1>2. None \notin Plan /\ None \notin Nat /\ None \notin BOOLEAN /\ PlanQuota \in [Plan -> Nat]
  BY AccountsAssumption
<1>3. p \in Account
  BY <1>1, <1>2 DEF Patched, Given, Account, Expiry
<1>4. DOMAIN old = {"admin", "inviter", "plan", "expires", "quota"}
  BY DEF Account
<1>5. new = [f \in {"admin", "inviter", "plan", "expires", "quota"} |-> IF f \in w THEN p[f] ELSE old[f]]
  BY <1>4 DEF Updated
<1>6. /\ new.admin = IF "admin" \in w THEN p.admin ELSE old.admin
      /\ new.inviter = IF "inviter" \in w THEN p.inviter ELSE old.inviter
      /\ new.plan = IF "plan" \in w THEN p.plan ELSE old.plan
      /\ new.expires = IF "expires" \in w THEN p.expires ELSE old.expires
      /\ new.quota = IF "quota" \in w THEN p.quota ELSE old.quota
  BY <1>5
<1>7. new \in Account
  BY <1>3, <1>5, <1>6 DEF Account
<1>8. DOMAIN p = {"admin", "inviter", "plan", "expires", "quota"}
  BY <1>3 DEF Account
<1>9. /\ "admin" \in w <=> p.admin # seen.admin
      /\ "plan" \in w <=> p.plan # seen.plan
      /\ "quota" \in w <=> p.quota # seen.quota
  BY <1>8 DEF Written
<1>10. /\ p.admin = Given(body.admin, seen.admin)
       /\ p.plan = Given(body.plan, seen.plan)
       /\ p.quota = Given(body.quota, IF body.plan = None THEN seen.quota ELSE PlanQuota[body.plan])
  BY DEF Patched, Account
<1>11. body.quota = None /\ Agrees(old) /\ Agrees(seen) => Agrees(new)
  <2> SUFFICES ASSUME body.quota = None, Agrees(old), Agrees(seen) PROVE Agrees(new)
    OBVIOUS
  <2>1. Agrees(p)
    BY <1>1, <1>10 DEF Given, Agrees
  <2>2. seen.plan \in Plan /\ p.plan \in Plan
    BY <1>3 DEF Account
  <2>3. p.plan = seen.plan <=> p.quota = seen.quota
    BY <2>1, <2>2, AccountsAssumption DEF Agrees
  <2> QED
    BY <1>6, <1>9, <2>1, <2>3 DEF Agrees
<1>12. ASSUME new.admin # old.admin PROVE body.admin = new.admin /\ seen.admin # new.admin
  BY <1>6, <1>9, <1>10, <1>12 DEF Given
<1> QED
  BY <1>7, <1>11, <1>12

-----------------------------------------------------------------------------
(* What a row that was read must tell of the account it was read from.     *)
RowRead(us, ov, e, u) ==
  /\ e \in Email /\ us[e] # None
  /\ u \in Account
  /\ e \notin ov => Agrees(u)

(* A request: an authorised one was read as an administrator; a patch of   *)
(* one's own was, too, and does not take the right.                        *)
Sound(us, ov, r) ==
  \/ r = Idle
  \/ r.op = "register" /\ r.email \in Email /\ r.key \in Key
  \/ r.op = "create_key" /\ r.key \in Key
  \/ r.op = "authorised" /\ RowRead(us, ov, r.by, r.own) /\ r.own.admin = TRUE
  \/ /\ r.op = "patch" /\ r.body \in Body
     /\ RowRead(us, ov, r.email, r.seen)
     /\ r.by = r.email => r.seen.admin = TRUE /\ r.body.admin # FALSE

AllAgree(us, ov) == \A e \in Email : us[e] # None /\ e \notin ov => Agrees(us[e])

IInv ==
  /\ TypeOK
  /\ KeysTellUsers
  /\ AllAgree(users, overridden)
  /\ \A s \in Slot : Sound(users, overridden, reqs[s])
  /\ DOMAIN reqs = Slot

(* LEMMA StaysSound                                                        *)
(* A request stays sound while accounts come and rows change.              *)
LEMMA StaysSound ==
  ASSUME NEW us, NEW vs, NEW ov, NEW pv, NEW r, Sound(us, ov, r),
         \A e \in Email : us[e] # None => vs[e] # None, ov \subseteq pv
  PROVE  Sound(vs, pv, r)
  BY DEF Sound, RowRead

(* LEMMA SoundByOp                                                         *)
(* What is known of a request by its operation.                            *)
LEMMA SoundByOp ==
  ASSUME NEW us, NEW ov, NEW r, Sound(us, ov, r)
  PROVE  /\ r.op = "register" => r.email \in Email /\ r.key \in Key
         /\ r.op = "create_key" => r.key \in Key
         /\ r.op = "authorised" => RowRead(us, ov, r.by, r.own) /\ r.own.admin = TRUE
         /\ r.op = "patch" => /\ r.body \in Body /\ RowRead(us, ov, r.email, r.seen)
                              /\ r.by = r.email => r.seen.admin = TRUE /\ r.body.admin # FALSE
<1>1. CASE r = Idle
  <2>1. r.op = "idle"
    BY <1>1 DEF Idle
  <2> QED
    BY <2>1
<1>2. CASE r # Idle
  BY <1>2 DEF Sound
<1> QED
  BY <1>1, <1>2

LEMMA InitIInv == Init => IInv
<1> SUFFICES ASSUME Init PROVE IInv
  OBVIOUS
<1> DEFINE new == NewAccount
<1>1. PICK e \in Email : users = [x \in Email |->
        IF x = e THEN [NewAccount EXCEPT !.admin = TRUE, !.inviter = TRUE] ELSE None]
  BY DEF Init
<1>2. PICK k \in Key : keys = [x \in Key |-> IF x = k THEN None ELSE "absent"]
  BY DEF Init
<1>3. NewAccount \in Account /\ Agrees(NewAccount)
  BY AccountsAssumption DEF NewAccount, Account, Expiry, Agrees
<1>4. /\ [NewAccount EXCEPT !.admin = TRUE, !.inviter = TRUE] \in Account
      /\ Agrees([NewAccount EXCEPT !.admin = TRUE, !.inviter = TRUE])
  BY AccountsAssumption DEF NewAccount, Account, Expiry, Agrees
<1>5. TypeOK
  BY <1>1, <1>2, <1>4 DEF TypeOK, Init
<1>6. KeysTellUsers
  BY <1>2, AccountsAssumption DEF KeysTellUsers
<1>7. AllAgree(users, overridden)
  BY <1>1, <1>4 DEF AllAgree
<1> QED
  BY <1>5, <1>6, <1>7 DEF IInv, Init, Sound

LEMMA Inductive == IInv /\ [Next]_vars => IInv'
<1> SUFFICES ASSUME IInv, [Next]_vars PROVE IInv'
  OBVIOUS
<1>1. TypeOK /\ KeysTellUsers /\ AllAgree(users, overridden)
      /\ (\A s \in Slot : Sound(users, overridden, reqs[s])) /\ DOMAIN reqs = Slot
  BY DEF IInv
<1>2. None \notin Account /\ None \notin Email /\ "absent" \notin Email
  BY AccountsAssumption DEF Account, Expiry
<1>3. NewAccount \in Account /\ Agrees(NewAccount)
  BY AccountsAssumption DEF NewAccount, Account, Expiry, Agrees
<1>4. ASSUME NEW s \in Slot, Done(s), UNCHANGED <<users, keys, overridden>> PROVE IInv'
  BY <1>1, <1>4 DEF Done, IInv, TypeOK, KeysTellUsers, Exists, AllAgree, Sound
<1>5. ASSUME NEW s \in Slot, NEW r, Start(s, r), Sound(users, overridden, r),
             UNCHANGED <<users, keys, overridden>>
      PROVE IInv'
  BY <1>1, <1>5 DEF Start, IInv, TypeOK, KeysTellUsers, Exists, AllAgree
<1>6. ASSUME NEW s \in Slot, RegisterCommit(s) PROVE IInv'
  <2> DEFINE e == reqs[s].email  k == reqs[s].key
  <2>1. e \in Email /\ k \in Key
    BY <1>1, <1>6, SoundByOp DEF RegisterCommit
  <2>2. CASE Exists(e)
    BY <1>4, <1>6, <2>2 DEF RegisterCommit
  <2>3. CASE ~Exists(e)
    <3>1. /\ users' = [users EXCEPT ![e] = NewAccount]
          /\ keys' = [keys EXCEPT ![k] = e]
          /\ reqs' = [reqs EXCEPT ![s] = Idle] /\ overridden' = overridden
      BY <1>6, <2>3 DEF RegisterCommit, Done
    <3>2. \A j \in Key : keys[j] # e
      BY <1>1, <2>1, <2>3 DEF KeysTellUsers
    <3>3. TypeOK'
      BY <1>1, <1>3, <2>1, <3>1 DEF TypeOK
    <3>4. KeysTellUsers'
      BY <1>1, <1>2, <1>3, <2>1, <3>1, <3>2 DEF KeysTellUsers, TypeOK, Exists
    <3>5. AllAgree(users, overridden)'
      BY <1>1, <1>3, <2>1, <3>1 DEF AllAgree, TypeOK
    <3>6. \A x \in Email : users[x] # None => users'[x] # None
      BY <1>1, <1>2, <1>3, <3>1 DEF TypeOK
    <3>7. \A r \in Slot : Sound(users', overridden', reqs'[r])
      <4> TAKE r \in Slot
      <4>1. CASE r = s
        BY <1>1, <3>1, <4>1 DEF Sound
      <4>2. CASE r # s
        BY <1>1, <3>1, <3>6, <4>2, StaysSound
      <4> QED
        BY <4>1, <4>2
    <3> QED
      BY <1>1, <3>1, <3>3, <3>4, <3>5, <3>7 DEF IInv
  <2> QED
    BY <2>2, <2>3
<1>7. ASSUME NEW s \in Slot, CreateKeyCommit(s) PROVE IInv'
  <2>1. reqs[s].key \in Key
    BY <1>1, <1>7, SoundByOp DEF CreateKeyCommit
  <2>2. /\ keys' = [keys EXCEPT ![reqs[s].key] = None]
        /\ reqs' = [reqs EXCEPT ![s] = Idle]
        /\ UNCHANGED <<users, overridden>>
    BY <1>7 DEF CreateKeyCommit, Done
  <2>3. TypeOK' /\ KeysTellUsers'
    BY <1>1, <1>2, <2>1, <2>2 DEF TypeOK, KeysTellUsers, Exists
  <2> QED
    BY <1>1, <2>2, <2>3 DEF IInv, AllAgree, Sound
<1>8. ASSUME NEW s \in Slot, NEW sameDate \in BOOLEAN, PatchCommit(s, sameDate) PROVE IInv'
  <2> DEFINE u == reqs[s].email  new == Updated(users[u], reqs[s].seen, reqs[s].body, sameDate)
  <2>1. u \in Email /\ users[u] # None /\ reqs[s].seen \in Account /\ reqs[s].body \in Body
        /\ (u \notin overridden => Agrees(reqs[s].seen))
    BY <1>1, <1>8, SoundByOp DEF PatchCommit, RowRead
  <2>2. users[u] \in Account
    BY <1>1, <2>1 DEF TypeOK
  <2>3. /\ new \in Account
        /\ reqs[s].body.quota = None /\ Agrees(users[u]) /\ Agrees(reqs[s].seen) => Agrees(new)
    BY <2>1, <2>2, UpdatedRow
  <2>4. /\ users' = [users EXCEPT ![u] = new]
        /\ overridden' = IF reqs[s].body.quota = None THEN overridden ELSE overridden \cup {u}
        /\ reqs' = [reqs EXCEPT ![s] = Idle] /\ keys' = keys
    BY <1>8 DEF PatchCommit, Done
  <2> HIDE DEF u, new
  <2>5. TypeOK'
    BY <1>1, <2>1, <2>3, <2>4 DEF TypeOK
  <2>6. \A x \in Email : users'[x] # None <=> users[x] # None
    BY <1>1, <1>2, <2>1, <2>3, <2>4 DEF TypeOK
  <2>7. KeysTellUsers'
    BY <1>1, <2>4, <2>6 DEF KeysTellUsers, Exists
  <2>8. AllAgree(users, overridden)'
    BY <1>1, <2>1, <2>3, <2>4 DEF AllAgree, TypeOK
  <2>9. \A r \in Slot : Sound(users', overridden', reqs'[r])
    <3> TAKE r \in Slot
    <3>1. CASE r = s
      BY <1>1, <2>4, <3>1 DEF Sound
    <3>2. CASE r # s
      BY <1>1, <2>4, <2>6, <3>2, StaysSound
    <3> QED
      BY <3>1, <3>2
  <2> QED
    BY <1>1, <2>4, <2>5, <2>7, <2>8, <2>9 DEF IInv
<1>9. ASSUME NEW e \in Email, PlanExpires(e) PROVE IInv'
  <2>1. /\ users[e] \in Account
        /\ users' = [users EXCEPT ![e] = [users[e] EXCEPT !.expires = "past"]]
        /\ UNCHANGED <<keys, reqs, overridden>>
    BY <1>1, <1>9 DEF PlanExpires, Exists, TypeOK
  <2>2. /\ [users[e] EXCEPT !.expires = "past"] \in Account
        /\ [users[e] EXCEPT !.expires = "past"].quota = users[e].quota
        /\ [users[e] EXCEPT !.expires = "past"].plan = users[e].plan
    BY <2>1 DEF Account, Expiry
  <2>3. TypeOK'
    BY <1>1, <2>1, <2>2 DEF TypeOK
  <2>4. \A x \in Email : users'[x] # None <=> users[x] # None
    BY <1>1, <1>2, <2>1, <2>2 DEF TypeOK
  <2>5. KeysTellUsers'
    BY <1>1, <2>1, <2>4 DEF KeysTellUsers, Exists
  <2>6. AllAgree(users, overridden)'
    BY <1>1, <1>2, <2>1, <2>2 DEF AllAgree, TypeOK, Agrees
  <2>7. \A r \in Slot : Sound(users', overridden', reqs'[r])
    BY <1>1, <2>1, <2>4, StaysSound
  <2> QED
    BY <1>1, <2>1, <2>3, <2>5, <2>6, <2>7 DEF IInv
<1>10. ASSUME NEW s \in Slot, NEW e \in Email, NEW k \in Key, RegisterRead(s, e, k) PROVE IInv'
  <2>1. Sound(users, overridden, [op |-> "register", email |-> e, key |-> k])
    BY DEF Sound
  <2> QED
    BY <1>5, <1>10, <2>1 DEF RegisterRead
<1>11. ASSUME NEW s \in Slot, NEW e \in Email, NEW k \in Key, CreateKeyRead(s, e, k) PROVE IInv'
  <2>1. Sound(users, overridden, [op |-> "create_key", key |-> k])
    BY DEF Sound
  <2> QED
    BY <1>5, <1>11, <2>1 DEF CreateKeyRead
<1>12. ASSUME NEW s \in Slot, NEW a \in Email, Authorise(s, a) PROVE IInv'
  <2>1. Sound(users, overridden, [op |-> "authorised", by |-> a, own |-> users[a]])
    BY <1>1, <1>12 DEF Sound, RowRead, Authorise, Exists, TypeOK, AllAgree
  <2> QED
    BY <1>5, <1>12, <2>1 DEF Authorise
<1>13. ASSUME NEW s \in Slot, NEW u \in Email, NEW body \in Body, PatchRead(s, u, body) PROVE IInv'
  <2> DEFINE r == [op |-> "patch", by |-> reqs[s].by, email |-> u, seen |-> Seen(s, u), body |-> body]
  <2>1. reqs[s].op = "authorised" /\ RowRead(users, overridden, reqs[s].by, reqs[s].own) /\ reqs[s].own.admin = TRUE
    BY <1>1, <1>13, SoundByOp DEF PatchRead
  <2>2. RowRead(users, overridden, u, Seen(s, u))
    BY <1>1, <1>13, <2>1 DEF PatchRead, Seen, RowRead, Exists, TypeOK, AllAgree
  <2>3. reqs[s].by = u => Seen(s, u).admin = TRUE /\ body.admin # FALSE
    BY <1>13, <2>1 DEF PatchRead, Seen
  <2>4. Sound(users, overridden, r)
    BY <2>2, <2>3 DEF Sound
  <2> QED
    BY <1>5, <1>13, <2>4 DEF PatchRead
<1>14. ASSUME NEW s \in Slot, Abort(s) PROVE IInv'
  BY <1>4, <1>14 DEF Abort
<1>15. CASE UNCHANGED vars
  BY <1>1, <1>15 DEF vars, IInv, TypeOK, KeysTellUsers, Exists, AllAgree
<1> QED
  BY <1>6, <1>7, <1>8, <1>9, <1>10, <1>11, <1>12, <1>13, <1>14, <1>15 DEF Next

LEMMA Invariant == Spec => []IInv
<1> QED
  BY InitIInv, Inductive, PTL DEF Spec

-----------------------------------------------------------------------------
(* THEOREM TypeCorrect                                                     *)
(* The tables keep their shape, whatever requests overlap.                 *)
THEOREM TypeCorrect == Spec => []TypeOK
<1>1. IInv => TypeOK
  BY DEF IInv
<1> QED
  BY Invariant, <1>1, PTL

(* THEOREM KeysTell                                                        *)
(* A used key names an account, and no account used up two keys (register).*)
THEOREM KeysTell == Spec => []KeysTellUsers
<1>1. IInv => KeysTellUsers
  BY DEF IInv
<1> QED
  BY Invariant, <1>1, PTL

(* THEOREM QuotaOfPlan                                                     *)
(* Without a quota by hand, the quota in effect is that of the plan in     *)
(* effect, although overlapping patches mix their columns: they only do so *)
(* with plans that have quotas of their own (patch_user).                  *)
THEOREM QuotaOfPlan == Spec => []PlanQuotaAgree
<1>1. IInv => PlanQuotaAgree
  BY DEF IInv, AllAgree, Agrees, PlanQuotaAgree, EffectiveQuota, EffectivePlan, Exists
<1> QED
  BY Invariant, <1>1, PTL

(* LEMMA PatchedRow                                                        *)
(* A commit changes one row, and its right to administer only as a patch   *)
(* of another says (patch_user).                                           *)
LEMMA PatchedRow ==
  ASSUME IInv, NEW s \in Slot, NEW sameDate \in BOOLEAN, PatchCommit(s, sameDate)
  PROVE  \E new : /\ users' = [users EXCEPT ![reqs[s].email] = new]
                  /\ new.admin # users[reqs[s].email].admin =>
                       /\ reqs[s].by # reqs[s].email
                       /\ reqs[s].body.admin = new.admin
<1> DEFINE r == reqs[s]
           old == users[r.email]
           seen == r.seen
           body == r.body
           new == Updated(old, seen, body, sameDate)
<1>1. r.op = "patch" /\ users' = [users EXCEPT ![r.email] = new]
  BY DEF PatchCommit
<1>2. users \in [Email -> Account \cup {None}] /\ Sound(users, overridden, r)
  BY DEF IInv, TypeOK
<1>3. /\ body \in Body /\ RowRead(users, overridden, r.email, seen)
      /\ r.by = r.email => seen.admin = TRUE /\ body.admin # FALSE
  BY <1>1, <1>2, SoundByOp
<1>4. old \in Account /\ seen \in Account /\ body \in Body
  BY <1>2, <1>3 DEF RowRead
<1> HIDE DEF old, seen, body
<1>5. /\ new \in Account
      /\ new.admin # old.admin => body.admin = new.admin /\ seen.admin # new.admin
  BY <1>4, UpdatedRow
<1>6. new.admin \in BOOLEAN
  BY <1>5 DEF Account
<1>7. new.admin # old.admin => r.by # r.email /\ body.admin = new.admin
  BY <1>3, <1>5, <1>6
<1> QED
  BY <1>1, <1>7 DEF old, body

(* THEOREM RightsComeFromOthers                                            *)
(* The right to administer is given and taken only by another's patch that *)
(* names it (require_admin, patch_user).                                   *)
THEOREM RightsComeFromOthers == Spec => AdminFromOthers
<1> DEFINE Change == \A e \in Email : Exists(e) /\ users'[e].admin # users[e].admin =>
             \E s \in Slot :
               /\ reqs[s].op = "patch" /\ reqs'[s] = Idle
               /\ reqs[s].email = e /\ reqs[s].by # e
               /\ reqs[s].body.admin = users'[e].admin
<1>1. ASSUME IInv, [Next]_vars PROVE [Change]_vars
  <2> SUFFICES ASSUME NEW e \in Email, Exists(e), users'[e].admin # users[e].admin
               PROVE  \E s \in Slot :
                        /\ reqs[s].op = "patch" /\ reqs'[s] = Idle
                        /\ reqs[s].email = e /\ reqs[s].by # e
                        /\ reqs[s].body.admin = users'[e].admin
    OBVIOUS
  <2>1. users' # users
    OBVIOUS
  <2>2. TypeOK /\ (\A s \in Slot : Sound(users, overridden, reqs[s])) /\ DOMAIN reqs = Slot
    BY <1>1 DEF IInv
  <2>3. users \in [Email -> Account \cup {None}]
    BY <2>2 DEF TypeOK
  <2>4. ASSUME NEW s \in Slot, RegisterCommit(s) PROVE FALSE
    BY <2>1, <2>3, <2>4 DEF RegisterCommit, Exists
  <2>5. ASSUME NEW x \in Email, PlanExpires(x) PROVE FALSE
    <3>1. users' = [users EXCEPT ![x] = [users[x] EXCEPT !.expires = "past"]]
      BY <2>5 DEF PlanExpires
    <3>2. users[x] \in Account
      BY <2>3, <2>5 DEF PlanExpires, Exists
    <3>3. [users[x] EXCEPT !.expires = "past"].admin = users[x].admin
      BY <3>2 DEF Account
    <3> QED
      BY <2>3, <3>1, <3>3
  <2>6. ASSUME NEW s \in Slot, NEW sameDate \in BOOLEAN, PatchCommit(s, sameDate)
        PROVE  /\ reqs[s].op = "patch" /\ reqs'[s] = Idle
               /\ reqs[s].email = e /\ reqs[s].by # e
               /\ reqs[s].body.admin = users'[e].admin
    <3>1. PICK new : /\ users' = [users EXCEPT ![reqs[s].email] = new]
                     /\ new.admin # users[reqs[s].email].admin =>
                          /\ reqs[s].by # reqs[s].email
                          /\ reqs[s].body.admin = new.admin
      BY <1>1, <2>6, PatchedRow
    <3>2. reqs[s].email = e /\ users'[e] = new
      BY <2>3, <3>1
    <3> QED
      BY <2>2, <2>6, <3>1, <3>2 DEF PatchCommit, Done
  <2> QED
    BY <1>1, <2>1, <2>4, <2>5, <2>6
       DEF Next, vars, CreateKeyCommit, Abort, RegisterRead, CreateKeyRead, Authorise, PatchRead
<1> QED
  BY Invariant, <1>1, PTL DEF Spec, AdminFromOthers
=============================================================================
