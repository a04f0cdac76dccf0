-------------------------- MODULE FakeWorkerProofs --------------------------
(***************************************************************************)
(* The script keeps the lease contract of TaskQueue, in a fleet of any     *)
(* size: nothing but the order of its own requests makes it.               *)
(***************************************************************************)
EXTENDS FakeWorker, TLAPS

(* What the argument needs of a process; the bound of "beat" is left out.  *)
Doing == [at : {"register", "claim", "manifest", "heartbeat", "upload", "complete"},
          waiting : BOOLEAN, beat : Nat, todo : SUBSET Path]

(* A request in flight of worker w.                                        *)
Of(rs, s, w) == rs[s] # Idle /\ rs[s].by = w

(* A process that runs and awaits nothing has no request in flight, and    *)
(* one that awaits an answer has at most the one.                          *)
Quiet(rs, p, w) ==
  /\ p.waiting = FALSE => \A s \in Slot : ~Of(rs, s, w)
  /\ p.waiting = TRUE => p.at \in {"claim", "manifest", "heartbeat", "complete"}
  /\ \A s, r \in Slot : Of(rs, s, w) /\ Of(rs, r, w) => s = r

FInv ==
  /\ DOMAIN reqs = Slot
  /\ script \in [Script -> Doing]
  /\ \A w \in Script \ stopped : Quiet(reqs, script[w], w)

-----------------------------------------------------------------------------
(* The contract constrains the requests that workers send and the expiry   *)
(* of leases, and nothing else of TaskQueue.                               *)
LEMMA SameSteps ==
  /\ Init => Contract!Init
  /\ \A t \in Task : CreateTask(t) => Contract!CreateTask(t)
  /\ \A s \in Slot : Commit(s) => Contract!Commit(s)
  /\ \A s \in Slot : Abort(s) => Contract!Abort(s)
  /\ \A s \in Slot, t \in Task : CancelRead(s, t) => Contract!CancelRead(s, t)
  /\ \A s \in Slot, w \in Worker, t \in Task : ClaimLock(s, w, t) => Contract!ClaimLock(s, w, t)
  /\ \A w \in Worker, t \in Task : ToldGone(w, t) => Contract!ToldGone(w, t)
  /\ \A w \in Worker : WorkerStops(w) => Contract!WorkerStops(w)
  /\ Reap => Contract!Reap
<1> USE DEF
      Task, Contract!Task, Titles, Contract!Titles, NoRow, Contract!NoRow,
      Active, Contract!Active, Idle, Contract!Idle, InFlight, Contract!InFlight,
      ClaimLocked, Contract!ClaimLocked, Present, Contract!Present,
      Merge, Contract!Merge, Flush, Contract!Flush, Start, Contract!Start,
      Done, Contract!Done, Forget, Contract!Forget
<1>1. Init => Contract!Init
  BY DEF
      Init, Contract!Init
<1>2. ASSUME NEW t \in Task, CreateTask(t) PROVE Contract!CreateTask(t)
  BY <1>2 DEF
      CreateTask, Contract!CreateTask
<1>3. ASSUME NEW s \in Slot, Commit(s) PROVE Contract!Commit(s)
  <2>1. ASSUME NEW delivered \in BOOLEAN, ClaimCommit(s, delivered) PROVE Contract!ClaimCommit(s, delivered)
    BY <2>1 DEF ClaimCommit, Contract!ClaimCommit
  <2>2. CancelCommit(s) => Contract!CancelCommit(s)
    BY DEF CancelCommit, Contract!CancelCommit
  <2>3. ManifestCommit(s) => Contract!ManifestCommit(s)
    BY DEF ManifestCommit, Contract!ManifestCommit
  <2>4. HeartbeatCommit(s) => Contract!HeartbeatCommit(s)
    BY DEF HeartbeatCommit, Contract!HeartbeatCommit
  <2>5. CompleteCommit(s) => Contract!CompleteCommit(s)
    BY DEF CompleteCommit, Contract!CompleteCommit
  <2>6. FailCommit(s) => Contract!FailCommit(s)
    BY DEF FailCommit, Contract!FailCommit, AfterFail, Contract!AfterFail
  <2> QED
    BY <1>3, <2>1, <2>2, <2>3, <2>4, <2>5, <2>6 DEF Commit, Contract!Commit
<1>4. ASSUME NEW s \in Slot, Abort(s) PROVE Contract!Abort(s)
  BY <1>4 DEF
      Abort, Contract!Abort
<1>5. ASSUME NEW s \in Slot, NEW t \in Task, CancelRead(s, t) PROVE Contract!CancelRead(s, t)
  BY <1>5 DEF
      CancelRead, Contract!CancelRead
<1>6. ASSUME NEW s \in Slot, NEW w \in Worker, NEW t \in Task, ClaimLock(s, w, t)
      PROVE  Contract!ClaimLock(s, w, t)
  BY <1>6 DEF
      ClaimLock, Contract!ClaimLock, MayBeLocked, Contract!MayBeLocked
<1>7. ASSUME NEW w \in Worker, NEW t \in Task, ToldGone(w, t) PROVE Contract!ToldGone(w, t)
  BY <1>7 DEF
      ToldGone, Contract!ToldGone
<1>8. ASSUME NEW w \in Worker, WorkerStops(w) PROVE Contract!WorkerStops(w)
  BY <1>8 DEF
      WorkerStops, Contract!WorkerStops
<1>9. Reap => Contract!Reap
  BY DEF
      Reap, Contract!Reap, GivenUp, Contract!GivenUp, Reclaimed, Contract!Reclaimed,
      Expired, Contract!Expired
<1> QED
  BY <1>1, <1>2, <1>3, <1>4, <1>5, <1>6, <1>7, <1>8, <1>9

(* The steps that the contract constrains, where it is kept.               *)
LEMMA SameReports ==
  ASSUME NEW s \in Slot, NEW w \in Worker, NEW t \in Task, NEW paths \in SUBSET Path
  PROVE  /\ HeartbeatRead(s, w, t) => Contract!HeartbeatRead(s, w, t)
         /\ OneReport(w, t) /\ FailRead(s, w, t) => Contract!FailRead(s, w, t)
         /\ OneReport(w, t) /\ ManifestRead(s, w, t, paths) => Contract!ManifestRead(s, w, t, paths)
         /\ OneReport(w, t) /\ CompleteRead(s, w, t, paths) => Contract!CompleteRead(s, w, t, paths)
<1> USE DEF Idle, Contract!Idle, InFlight, Contract!InFlight, Start, Contract!Start,
      Present, Contract!Present, MaySend, Contract!MaySend, OneReport, Contract!OneReport
<1>1. HeartbeatRead(s, w, t) => Contract!HeartbeatRead(s, w, t)
  BY DEF HeartbeatRead, Contract!HeartbeatRead
<1>2. OneReport(w, t) /\ FailRead(s, w, t) => Contract!FailRead(s, w, t)
  BY DEF FailRead, Contract!FailRead
<1>3. OneReport(w, t) /\ ManifestRead(s, w, t, paths) => Contract!ManifestRead(s, w, t, paths)
  BY DEF ManifestRead, Contract!ManifestRead
<1>4. OneReport(w, t) /\ CompleteRead(s, w, t, paths) => Contract!CompleteRead(s, w, t, paths)
  BY DEF CompleteRead, Contract!CompleteRead
<1> QED
  BY <1>1, <1>2, <1>3, <1>4

LEMMA SameExpiry ==
  ASSUME NEW t \in Task, Unattended(t), LeaseExpires(t)
  PROVE  Contract!LeaseExpires(t)
  BY DEF LeaseExpires, Contract!LeaseExpires, Unattended, Contract!Unattended, Idle, Contract!Idle

-----------------------------------------------------------------------------
(* A process of the script that sends has no other request in flight.      *)
LEMMA QuietProcess ==
  ASSUME FInv, NEW w \in Script, w \notin stopped, script[w].waiting = FALSE, NEW t
  PROVE  OneReport(w, t)
  BY DEF FInv, Quiet, Of, OneReport

(* A worker sends a request: a process of the script had none and awaits   *)
(* its answer from now on.                                                 *)
LEMMA StartKeeps ==
  ASSUME FInv, NEW s \in Slot, NEW w \in Worker, NEW t, NEW paths,
         NEW op \in {"claim", "manifest", "heartbeat", "complete", "fail"},
         reqs[s] = Idle, Start(s, op, w, t, paths), w \notin stopped, UNCHANGED stopped,
         IF w \in Script THEN op # "fail" /\ Sends(w, op) ELSE UNCHANGED script
  PROVE  FInv'
<1>1. /\ reqs' = [reqs EXCEPT ![s] = [op |-> op, by |-> w, task |-> t, seen |-> rows[t], paths |-> paths]]
      /\ DOMAIN reqs = Slot
  BY DEF Start, FInv
<1>2. \A r \in Slot, x \in Worker : Of(reqs', r, x) <=> (IF r = s THEN x = w ELSE Of(reqs, r, x))
  BY <1>1 DEF Of, Idle
<1>3. CASE w \in Script
  <2>1. /\ script[w].at = op /\ script[w].waiting = FALSE /\ op # "fail"
        /\ script' = [script EXCEPT ![w] = [script[w] EXCEPT !.waiting = TRUE]]
    BY <1>3 DEF Sends, Step, FInv, Doing
  <2>2. script[w] \in Doing
    BY <1>3 DEF FInv
  <2> DEFINE q == [script[w] EXCEPT !.waiting = TRUE]
  <2>3. q \in Doing /\ q.at = op /\ q.waiting = TRUE
    BY <2>1, <2>2 DEF Doing
  <2>4. script' \in [Script -> Doing]
    BY <2>1, <2>3 DEF FInv
  <2>5. ASSUME NEW x \in Script \ stopped' PROVE Quiet(reqs', script'[x], x)
    <3>1. x \in Worker /\ x \in Script \ stopped /\ Quiet(reqs, script[x], x)
      BY <2>5, FleetAssumption DEF FInv
    <3>2. CASE x = w
      <4>1. script'[x] = q
        BY <1>3, <2>1, <3>2 DEF FInv
      <4>2. \A r \in Slot : Of(reqs', r, x) => r = s
        BY <1>2, <2>1, <3>1, <3>2 DEF Quiet
      <4> QED
        BY <2>1, <2>3, <4>1, <4>2 DEF Quiet
    <3>3. CASE x # w
      <4>1. script'[x] = script[x]
        BY <2>1, <3>3 DEF FInv
      <4>2. \A r \in Slot : Of(reqs', r, x) => Of(reqs, r, x)
        BY <1>2, <3>1, <3>3
      <4> QED
        BY <3>1, <4>1, <4>2 DEF Quiet
    <3> QED
      BY <3>2, <3>3
  <2> QED
    BY <1>1, <2>4, <2>5 DEF FInv
<1>4. CASE w \notin Script
  <2>1. script' = script
    BY <1>4
  <2>2. ASSUME NEW x \in Script \ stopped' PROVE Quiet(reqs', script'[x], x)
    <3>1. x \in Worker /\ x # w /\ Quiet(reqs, script[x], x)
      BY <1>4, <2>2, FleetAssumption DEF FInv
    <3>2. \A r \in Slot : Of(reqs', r, x) => Of(reqs, r, x)
      BY <1>2, <3>1
    <3> QED
      BY <2>1, <3>1, <3>2 DEF Quiet
  <2> QED
    BY <1>1, <2>1, <2>2 DEF FInv
<1> QED
  BY <1>3, <1>4

(* Whatever takes no part in the script and adds no request of a worker    *)
(* keeps the invariant.                                                    *)
LEMMA FewerKeep ==
  ASSUME FInv, DOMAIN reqs' = Slot, UNCHANGED script, stopped \subseteq stopped',
         \A r \in Slot, x \in Worker : Of(reqs', r, x) => Of(reqs, r, x)
  PROVE  FInv'
<1>1. ASSUME NEW x \in Script \ stopped' PROVE Quiet(reqs', script'[x], x)
  <2>1. x \in Worker /\ Quiet(reqs, script[x], x)
    BY <1>1, FleetAssumption DEF FInv
  <2> QED
    BY <2>1 DEF Quiet
<1> QED
  BY <1>1 DEF FInv

(* What follows the success of a request awaits nothing.                   *)
LEMMA NextTask ==
  ASSUME NEW p \in Doing, p.at \in {"claim", "manifest", "heartbeat", "complete"},
         NEW present \in SUBSET Path
  PROVE  Following(p, present) \in Doing /\ Following(p, present).waiting = FALSE
<1>1. CASE p.at = "claim"
  BY <1>1 DEF Following, At, Doing
<1>2. CASE p.at = "manifest"
  BY <1>2 DEF Following, At, Doing
<1>3. CASE p.at = "heartbeat"
  <2> DEFINE at == IF p.beat + 1 < Beats THEN p.at ELSE "upload"
             beat == p.beat + 1
  <2>1. Following(p, present) = [p EXCEPT !.at = at, !.waiting = FALSE, !.beat = beat]
    BY <1>3 DEF Following
  <2>2. at \in {"heartbeat", "upload"} /\ beat \in Nat
    BY <1>3 DEF Doing
  <2> HIDE DEF at, beat
  <2> QED
    BY <2>1, <2>2 DEF Doing
<1>4. CASE p.at = "complete"
  BY <1>4 DEF Following, At, Doing
<1> QED
  BY <1>1, <1>2, <1>3, <1>4

(* A request ends, with an answer or without.                              *)
LEMMA AnswerKeeps ==
  ASSUME FInv, NEW s \in Slot, reqs[s] # Idle, Done(s), UNCHANGED stopped,
         NEW success \in BOOLEAN, NEW delivered \in BOOLEAN, Answer(s, success, delivered)
  PROVE  FInv'
<1> DEFINE w == reqs[s].by
           present == {p \in Path : files'[reqs[s].task][p] # "absent"}
<1>1. /\ reqs' = [reqs EXCEPT ![s] = Idle] /\ DOMAIN reqs = Slot
      /\ script' = IF w \in Script \ stopped /\ success /\ delivered
                     THEN [script EXCEPT ![w] = Following(script[w], present)] ELSE script
  BY DEF Done, FInv, Answer
<1>2. \A r \in Slot, x \in Worker : Of(reqs', r, x) => Of(reqs, r, x) /\ r # s
  BY <1>1 DEF Of
<1>3. CASE ~(w \in Script \ stopped /\ success /\ delivered)
  BY <1>1, <1>2, <1>3, FewerKeep
<1>4. CASE w \in Script \ stopped /\ success /\ delivered
  <2> DEFINE q == Following(script[w], present)
  <2>1. script[w] \in Doing /\ Quiet(reqs, script[w], w) /\ Of(reqs, s, w)
    BY <1>4 DEF FInv, Of
  <2>2. script[w].waiting = TRUE
    BY <2>1 DEF Quiet, Doing
  <2>3. script[w].at \in {"claim", "manifest", "heartbeat", "complete"}
    BY <2>1, <2>2 DEF Quiet
  <2>4. q \in Doing /\ q.waiting = FALSE
    BY <2>1, <2>3, NextTask
  <2>5. script' = [script EXCEPT ![w] = q]
    BY <1>1, <1>4
  <2> HIDE DEF q
  <2>6. script' \in [Script -> Doing]
    BY <2>4, <2>5 DEF FInv
  <2>7. ASSUME NEW x \in Script \ stopped' PROVE Quiet(reqs', script'[x], x)
    <3>1. x \in Worker /\ x \in Script \ stopped /\ Quiet(reqs, script[x], x)
      BY <2>7, FleetAssumption DEF FInv
    <3>2. CASE x = w
      <4>1. script'[x] = q
        BY <1>4, <2>5, <3>2 DEF FInv
      <4>2. \A r \in Slot : ~Of(reqs', r, x)
        BY <1>2, <2>1, <3>1, <3>2 DEF Quiet
      <4> QED
        BY <2>4, <4>1, <4>2 DEF Quiet
    <3>3. CASE x # w
      <4>1. script'[x] = script[x]
        BY <2>5, <3>3 DEF FInv
      <4> QED
        BY <1>2, <3>1, <4>1 DEF Quiet
    <3> QED
      BY <3>2, <3>3
  <2> QED
    BY <1>1, <2>6, <2>7 DEF FInv
<1> QED
  BY <1>3, <1>4

(* A process that awaits nothing goes on by itself.                        *)
LEMMA MovesKeep ==
  ASSUME FInv, NEW w \in Script, w \notin stopped, script[w].waiting = FALSE,
         NEW q \in Doing, q.waiting = FALSE, Step(w, q), UNCHANGED <<reqs, stopped>>
  PROVE  FInv'
<1>1. script' = [script EXCEPT ![w] = q]
  BY DEF Step
<1>2. script' \in [Script -> Doing]
  BY <1>1 DEF FInv
<1>3. ASSUME NEW x \in Script \ stopped' PROVE Quiet(reqs', script'[x], x)
  BY <1>1, <1>3 DEF FInv, Quiet
<1> QED
  BY <1>2, <1>3 DEF FInv

(* The invariant says nothing of a process that is gone.                   *)
LEMMA DiesKeeps ==
  ASSUME FInv, NEW w \in Worker, Dies(w)
  PROVE  FInv'
<1>1. /\ stopped' = stopped \cup {w} /\ reqs' = reqs
      /\ script' = IF w \in Script THEN [script EXCEPT ![w] = At("register")] ELSE script
  BY DEF Dies, WorkerStops
<1>2. At("register") \in Doing
  BY DEF At, Doing
<1>3. script' \in [Script -> Doing]
  BY <1>1, <1>2 DEF FInv
<1>4. ASSUME NEW x \in Script \ stopped' PROVE Quiet(reqs', script'[x], x)
  BY <1>1, <1>4 DEF FInv
<1> QED
  BY <1>1, <1>3, <1>4 DEF FInv

-----------------------------------------------------------------------------
LEMMA InitKeeps == FInit => FInv
<1>1. At("register") \in Doing
  BY DEF At, Doing
<1> QED
  BY <1>1 DEF FInit, Init, FInv, Quiet, Of, At

(* Every step of the fleet is one of the contract, and keeps the invariant.*)
LEMMA StepKeeps ==
  ASSUME FInv, [FNext]_fvars
  PROVE  FInv' /\ [Contract!Next]_vars
<1>1. CASE Backend /\ UNCHANGED script
  <2>1. ASSUME NEW t \in Task, CreateTask(t) \/ (Unattended(t) /\ LeaseExpires(t))
        PROVE  FInv' /\ Contract!Next
    <3>1. UNCHANGED <<reqs, stopped, script>>
      BY <1>1, <2>1 DEF CreateTask, LeaseExpires
    <3>2. Contract!CreateTask(t) \/ Contract!LeaseExpires(t)
      BY <2>1, SameSteps, SameExpiry
    <3> QED
      BY <3>1, <3>2, FewerKeep DEF FInv, Contract!Next, Task, Contract!Task
  <2>2. ASSUME NEW s \in Slot, CancelCommit(s) \/ Abort(s) PROVE FInv' /\ Contract!Next
    <3>1. Done(s) /\ UNCHANGED <<stopped, script>>
      BY <1>1, <2>2 DEF CancelCommit, Abort
    <3>2. DOMAIN reqs' = Slot /\ \A r \in Slot, x \in Worker : Of(reqs', r, x) => Of(reqs, r, x)
      BY <3>1 DEF Done, Of, FInv
    <3>3. Contract!Commit(s) \/ Contract!Abort(s)
      BY <2>2, SameSteps DEF Commit
    <3> QED
      BY <3>1, <3>2, <3>3, FewerKeep DEF Contract!Next
  <2>3. ASSUME NEW s \in Slot, NEW t \in Task, CancelRead(s, t) PROVE FInv' /\ Contract!Next
    <3>1. Start(s, "cancel", None, t, {}) /\ UNCHANGED <<stopped, script>>
      BY <1>1, <2>3 DEF CancelRead
    <3>2. DOMAIN reqs' = Slot /\ \A r \in Slot, x \in Worker : Of(reqs', r, x) => Of(reqs, r, x)
      BY <3>1, QueueAssumption DEF Start, Of, FInv
    <3> QED
      BY <2>3, <3>1, <3>2, SameSteps, FewerKeep DEF Contract!Next, Task, Contract!Task
  <2>4. ASSUME NEW w \in Worker, NEW t \in Task, ToldGone(w, t) PROVE FInv' /\ Contract!Next
    <3>1. UNCHANGED <<reqs, stopped, script>>
      BY <1>1, <2>4 DEF ToldGone
    <3> QED
      BY <2>4, <3>1, SameSteps, FewerKeep DEF FInv, Contract!Next, Task, Contract!Task
  <2>5. ASSUME Reap PROVE FInv' /\ Contract!Next
    <3>1. UNCHANGED <<reqs, stopped, script>>
      BY <1>1, <2>5 DEF Reap
    <3> QED
      BY <2>5, <3>1, SameSteps, FewerKeep DEF FInv, Contract!Next
  <2> QED
    BY <1>1, <2>1, <2>2, <2>3, <2>4, <2>5 DEF Backend
<1>2. ASSUME NEW s \in Slot, NEW w \in Worker, NEW t \in Task, Requests(s, w, t)
      PROVE  FInv' /\ Contract!Next
  <2>1. ASSUME NEW op, w \in Script, Sends(w, op), w \notin stopped PROVE OneReport(w, t)
    BY <2>1, QuietProcess DEF Sends, FInv, Doing
  <2>2. ASSUME ClaimLock(s, w, t), Sends(w, "claim") PROVE FInv' /\ Contract!Next
    <3>1. FInv'
      BY <2>2, StartKeeps DEF ClaimLock, Sends
    <3> QED
      BY <2>2, <3>1, SameSteps DEF Contract!Next, Task, Contract!Task
  <2>3. ASSUME HeartbeatRead(s, w, t), Sends(w, "heartbeat") PROVE FInv' /\ Contract!Next
    <3>1. FInv'
      BY <2>3, StartKeeps DEF HeartbeatRead, MaySend, Sends
    <3> QED
      BY <2>3, <3>1, SameReports DEF Contract!Next, Task, Contract!Task
  <2>4. ASSUME NEW paths \in SUBSET Path, ManifestRead(s, w, t, paths), Sends(w, "manifest"),
               w \notin Script => OneReport(w, t)
        PROVE  FInv' /\ Contract!Next
    <3>1. FInv'
      BY <2>4, StartKeeps DEF ManifestRead, MaySend, Sends
    <3>2. OneReport(w, t)
      BY <2>1, <2>4 DEF ManifestRead, MaySend
    <3> QED
      BY <2>4, <3>1, <3>2, SameReports DEF Contract!Next, Task, Contract!Task
  <2>5. ASSUME NEW paths \in SUBSET Path, CompleteRead(s, w, t, paths), Sends(w, "complete"),
               w \notin Script => OneReport(w, t)
        PROVE  FInv' /\ Contract!Next
    <3>1. FInv'
      BY <2>5, StartKeeps DEF CompleteRead, MaySend, Sends
    <3>2. OneReport(w, t)
      BY <2>1, <2>5 DEF CompleteRead, MaySend
    <3> QED
      BY <2>5, <3>1, <3>2, SameReports DEF Contract!Next, Task, Contract!Task
  <2>6. ASSUME w \notin Script, OneReport(w, t), FailRead(s, w, t), UNCHANGED script
        PROVE  FInv' /\ Contract!Next
    <3>1. FInv'
      BY <2>6, StartKeeps DEF FailRead, MaySend
    <3> QED
      BY <2>6, <3>1, SameReports DEF Contract!Next, Task, Contract!Task
  <2> QED
    BY <1>2, <2>2, <2>3, <2>4, <2>5, <2>6 DEF Requests
<1>3. ASSUME NEW s \in Slot, NEW delivered \in BOOLEAN, Replies(s, delivered)
      PROVE  FInv' /\ Contract!Next
  <2>1. Commit(s)
    BY <1>3 DEF Replies, Commit
  <2>2. reqs[s] # Idle /\ Done(s) /\ UNCHANGED stopped
    <3>1. \E op \in {"claim", "manifest", "heartbeat", "complete", "fail"} : InFlight(s, op)
      BY <1>3 DEF Replies, ClaimCommit, ManifestCommit, HeartbeatCommit, CompleteCommit, FailCommit
    <3>2. Done(s) /\ UNCHANGED stopped
      BY <1>3 DEF Replies, ClaimCommit, ManifestCommit, HeartbeatCommit, CompleteCommit, FailCommit
    <3>3. Idle.op = "idle"
      BY DEF Idle
    <3> QED
      BY <3>1, <3>2, <3>3 DEF InFlight
  <2>3. (\E success \in BOOLEAN : Answer(s, success, delivered)) \/ UNCHANGED script
    BY <1>3 DEF Replies
  <2>4. FInv'
    <3>1. CASE UNCHANGED script
      <4>1. DOMAIN reqs' = Slot /\ \A r \in Slot, x \in Worker : Of(reqs', r, x) => Of(reqs, r, x)
        BY <2>2 DEF Done, Of, FInv
      <4> QED
        BY <2>2, <3>1, <4>1, FewerKeep
    <3> QED
      BY <2>2, <2>3, <3>1, AnswerKeeps
  <2> QED
    BY <2>1, <2>4, SameSteps DEF Contract!Next
<1>4. ASSUME NEW w \in Script, Register(w) PROVE FInv' /\ UNCHANGED vars
  <2>1. At("claim") \in Doing /\ At("claim").waiting = FALSE /\ At("register").waiting = FALSE
    BY DEF At, Doing
  <2> QED
    BY <1>4, <2>1, MovesKeep DEF Register, vars
<1>5. ASSUME NEW w \in Script, NEW p \in Path, FillSlot(w, p) PROVE FInv' /\ UNCHANGED vars
  <2> DEFINE todo == script[w].todo \ {p}
             q == IF todo = {} THEN At("complete") ELSE [script[w] EXCEPT !.todo = todo]
  <2>1. w \notin stopped /\ script[w].at = "upload" /\ Step(w, q) /\ UNCHANGED vars
    BY <1>5 DEF FillSlot
  <2>2. script[w] \in Doing /\ script[w].waiting = FALSE
    BY <2>1 DEF FInv, Quiet, Doing
  <2>3. q \in Doing /\ q.waiting = FALSE
    BY <2>2 DEF At, Doing
  <2> HIDE DEF q
  <2> QED
    BY <2>1, <2>2, <2>3, MovesKeep DEF vars
<1>6. ASSUME NEW w \in Worker, Dies(w) PROVE FInv' /\ Contract!Next
  BY <1>6, DiesKeeps, SameSteps DEF Dies, Contract!Next
<1>7. CASE UNCHANGED fvars
  BY <1>7, FewerKeep DEF fvars, vars, FInv
<1> QED
  BY <1>1, <1>2, <1>3, <1>4, <1>5, <1>6, <1>7 DEF FNext

(* A fleet of processes of fake_worker.py and of workers that keep the     *)
(* lease contract, of any size, implements the queue with orderly workers. *)
THEOREM ScriptKeepsContract == FSpec => KeepsContract
<1>1. FInit => FInv
  BY InitKeeps
<1>2. FInv /\ [FNext]_fvars => FInv' /\ [Contract!Next]_vars
  BY StepKeeps
<1>3. FInit => Contract!Init
  BY SameSteps DEF FInit
<1> QED
  BY <1>1, <1>2, <1>3, PTL DEF FSpec, KeepsContract, Contract!Spec, Contract!vars, vars
=============================================================================
