----------------------------- MODULE TaskQueue -----------------------------
(***************************************************************************)
(* The download queue of the backend: rows of the tables tasks, task_files *)
(* and library_items, and the HTTP handlers and the reaper that write      *)
(* them.  Every handler runs on a database session of its own, under READ  *)
(* COMMITTED: it SELECTs its row, checks what it read, and flushes its     *)
(* changes when it commits, so any number of other commits may fall in     *)
(* between.  A request in flight remembers the row it read.                *)
(***************************************************************************)
EXTENDS Naturals, FiniteSets

CONSTANTS Worker,       \* worker identities: one per registration
          NumTasks,     \* tasks are numbered by tasks.created_at
          Path,         \* paths a manifest may name
          Slot,         \* requests the backend serves at the same time
          MaxAttempts,  \* tasks.max_attempts
          Title,        \* Title[t]: the <<user, media item>> of task t
          None,         \* SQL NULL
          Orderly       \* do workers keep their side of the lease contract?

Task == 1..NumTasks

ASSUME QueueAssumption ==
  /\ NumTasks \in Nat
  /\ MaxAttempts \in Nat \ {0}
  /\ None \notin Worker
  /\ Orderly \in BOOLEAN
  /\ DOMAIN Title = Task

VARIABLES rows,     \* the tasks table
          files,    \* the task_files of each task: absent, pending, uploaded
          library,  \* the library item of each title: absent, in_progress, ready
          reqs,     \* the request each slot is serving
          handed,   \* the tasks each worker was told to download
          stopped   \* the worker identities that are gone

vars == <<rows, files, library, reqs, handed, stopped>>

Active == {"assigned", "downloading", "uploading"}
Status == {"absent", "queued", "completed", "failed", "canceled"} \cup Active

Row == [status : Status, worker : Worker \cup {None}, attempts : Nat,
        lease : {"none", "live", "expired"}]

NoRow == [status |-> "absent", worker |-> None, attempts |-> 0, lease |-> "none"]

(* A request: the operation, the worker that sent it (None: a user), the   *)
(* row it read and the file paths of its body.                             *)
Request == [op : {"claim", "manifest", "heartbeat", "complete", "fail", "cancel"},
            by : Worker \cup {None}, task : Task, seen : Row, paths : SUBSET Path]

Idle == [op |-> "idle"]

Titles == {Title[t] : t \in Task}

(* What the queue promises: see TaskOwnership.                             *)
Ownership == INSTANCE TaskOwnership
  WITH holder <- [t \in Task |-> rows[t].worker],
       grants <- [t \in Task |-> rows[t].attempts],
       failed <- {t \in Task : rows[t].status = "failed"},
       Max <- MaxAttempts

-----------------------------------------------------------------------------
(* SQLAlchemy writes the columns whose value differs from the one loaded,  *)
(* whatever the row holds by now.                                          *)
Merge(cur, old, new) == IF new # old THEN new ELSE cur

Flush(t, old, new) ==
  [rows EXCEPT ![t] = [status   |-> Merge(@.status, old.status, new.status),
                       worker   |-> Merge(@.worker, old.worker, new.worker),
                       attempts |-> Merge(@.attempts, old.attempts, new.attempts),
                       lease    |-> Merge(@.lease, old.lease, new.lease)]]

InFlight(s, op) == reqs[s].op = op

(* Mutated form of ClaimLocked: the SELECT of claim_task takes no lock.    *)
ClaimUnlocked(t) == FALSE

(* The row lock that claim_task holds from its SELECT to its commit.       *)
ClaimLocked(t) == \E s \in Slot : InFlight(s, "claim") /\ reqs[s].task = t

(* A flush of any request may hold the lock of its row for a while, and so *)
(* may a pass of the reaper on a row it is about to fail.                  *)
MayBeLocked(t) ==
  \/ \E s \in Slot : reqs[s] # Idle /\ reqs[s].task = t
  \/ rows[t].attempts >= MaxAttempts

Present(t) == {p \in Path : files[t][p] # "absent"}

Start(s, op, w, t, paths) ==
  reqs' = [reqs EXCEPT ![s] = [op |-> op, by |-> w, task |-> t,
                               seen |-> rows[t], paths |-> paths]]

Done(s) == reqs' = [reqs EXCEPT ![s] = Idle]

Forget(w, t) == handed' = [handed EXCEPT ![w] = @ \ {t}]

-----------------------------------------------------------------------------
Init ==
  /\ rows = [t \in Task |-> NoRow]
  /\ files = [t \in Task |-> [p \in Path |-> "absent"]]
  /\ library = [x \in Titles |-> "absent"]
  /\ reqs = [s \in Slot |-> Idle]
  /\ handed = [w \in Worker |-> {}]
  /\ stopped = {}

(* Mutated form of CreateTask: the library item that is there starts anew. *)
CreateTaskRestartingItem(t) ==
  /\ rows[t].status = "absent"
  /\ rows' = [rows EXCEPT ![t] = [NoRow EXCEPT !.status = "queued"]]
  /\ library' = [library EXCEPT ![Title[t]] = "in_progress"]
  /\ UNCHANGED <<files, reqs, handed, stopped>>

(* POST /api/tasks, at its commit, for a request the quota lets through.   *)
(* TaskQuota models the steps before the commit.                           *)
CreateTask(t) ==
  /\ rows[t].status = "absent"
  /\ rows' = [rows EXCEPT ![t] = [NoRow EXCEPT !.status = "queued"]]
  /\ library' = [library EXCEPT ![Title[t]] = IF @ = "absent" THEN "in_progress" ELSE @]
  /\ UNCHANGED <<files, reqs, handed, stopped>>

(* POST /api/tasks/{id}/cancel: the read and the check of the status.      *)
CancelRead(s, t) ==
  /\ reqs[s] = Idle
  /\ rows[t].status \in {"queued", "assigned"}
  /\ Start(s, "cancel", None, t, {})
  /\ UNCHANGED <<rows, files, library, handed, stopped>>

CancelCommit(s) ==
  LET t == reqs[s].task  seen == reqs[s].seen IN
  /\ InFlight(s, "cancel")
  /\ ~ClaimLocked(t)
  /\ rows' = Flush(t, seen, [seen EXCEPT !.status = "canceled"])
  /\ Done(s)
  /\ UNCHANGED <<files, library, handed, stopped>>

(* Mutated form of ClaimLock: it takes assigned tasks, too.                *)
ClaimLockOfAny(s, w, t) ==
  /\ reqs[s] = Idle
  /\ w \notin stopped
  /\ rows[t].status \in {"queued", "assigned"}
  /\ ~ClaimLocked(t)
  /\ \A u \in Task : u < t /\ rows[u].status = "queued" => MayBeLocked(u)
  /\ Start(s, "claim", w, t, {})
  /\ UNCHANGED <<rows, files, library, handed, stopped>>

(* POST /api/worker/claim: SELECT ... FOR UPDATE SKIP LOCKED takes the     *)
(* oldest queued row that is not locked.                                   *)
ClaimLock(s, w, t) ==
  /\ reqs[s] = Idle
  /\ w \notin stopped
  /\ rows[t].status = "queued"
  /\ ~ClaimLocked(t)
  /\ \A u \in Task : u < t /\ rows[u].status = "queued" => MayBeLocked(u)
  /\ Start(s, "claim", w, t, {})
  /\ UNCHANGED <<rows, files, library, handed, stopped>>

(* Mutated form of ClaimCommit: the attempt is not counted.                *)
ClaimCommitUncounted(s, delivered) ==
  LET t == reqs[s].task  seen == reqs[s].seen  w == reqs[s].by IN
  /\ InFlight(s, "claim")
  /\ rows' = [Flush(t, seen, [seen EXCEPT !.status = "assigned", !.worker = w])
                EXCEPT ![t].lease = "live"]
  /\ handed' = [handed EXCEPT ![w] = IF delivered /\ w \notin stopped THEN @ \cup {t} ELSE @]
  /\ Done(s)
  /\ UNCHANGED <<files, library, stopped>>

(* The commit of the claim, with a lease_expires_at that differs from any  *)
(* loaded before.  The answer may not reach the worker.                    *)
ClaimCommit(s, delivered) ==
  LET t == reqs[s].task  seen == reqs[s].seen  w == reqs[s].by IN
  /\ InFlight(s, "claim")
  /\ rows' = [Flush(t, seen, [seen EXCEPT !.status = "assigned", !.worker = w, !.attempts = @ + 1])
                EXCEPT ![t].lease = "live"]
  /\ handed' = [handed EXCEPT ![w] = IF delivered /\ w \notin stopped THEN @ \cup {t} ELSE @]
  /\ Done(s)
  /\ UNCHANGED <<files, library, stopped>>

(* The lease contract.  An orderly worker has one report on a task under   *)
(* way at a time, although its heartbeats run beside it; and its lease     *)
(* runs out only if it is gone, or never learned that it has the task.     *)
OneReport(w, t) ==
  \A s \in Slot : reqs[s] # Idle /\ reqs[s].by = w /\ reqs[s].task = t => InFlight(s, "heartbeat")

Unattended(t) ==
  /\ \A w \in Worker : rows[t].worker = w => w \in stopped \/ t \notin handed[w]
  /\ \A s \in Slot : reqs[s] # Idle /\ reqs[s].task = t => reqs[s].by # rows[t].worker

(* What a worker may send about a task: it was told to download it.        *)
MaySend(w, op, t) ==
  /\ w \notin stopped
  /\ t \in handed[w]
  /\ Orderly /\ op # "heartbeat" => OneReport(w, t)

(* The read of manifest, which checks nothing, of heartbeat, and of        *)
(* complete and fail.                                                      *)
ManifestRead(s, w, t, paths) ==
  /\ reqs[s] = Idle
  /\ MaySend(w, "manifest", t)
  /\ Start(s, "manifest", w, t, paths)
  /\ UNCHANGED <<rows, files, library, handed, stopped>>

HeartbeatRead(s, w, t) ==
  /\ reqs[s] = Idle
  /\ MaySend(w, "heartbeat", t)
  /\ rows[t].worker = w
  /\ rows[t].lease # "expired"
  /\ Start(s, "heartbeat", w, t, {})
  /\ UNCHANGED <<rows, files, library, handed, stopped>>

CompleteRead(s, w, t, paths) ==
  /\ reqs[s] = Idle
  /\ MaySend(w, "complete", t)
  /\ rows[t].worker = w
  /\ Start(s, "complete", w, t, paths)
  /\ UNCHANGED <<rows, files, library, handed, stopped>>

FailRead(s, w, t) ==
  /\ reqs[s] = Idle
  /\ MaySend(w, "fail", t)
  /\ rows[t].worker = w
  /\ Start(s, "fail", w, t, {})
  /\ UNCHANGED <<rows, files, library, handed, stopped>>

(* 409 to a heartbeat, complete or fail: the worker drops the task.        *)
ToldGone(w, t) ==
  /\ w \notin stopped
  /\ t \in handed[w]
  /\ rows[t].worker # w \/ rows[t].lease = "expired"
  /\ Forget(w, t)
  /\ UNCHANGED <<rows, files, library, reqs, stopped>>

(* The commit of manifest.  A path that task_files already has breaks      *)
(* uq_task_files_task_path: all is rolled back and the answer is a 500.    *)
ManifestCommit(s) ==
  LET t == reqs[s].task  seen == reqs[s].seen  paths == reqs[s].paths IN
  /\ InFlight(s, "manifest")
  /\ ~ClaimLocked(t)
  /\ IF paths \cap Present(t) = {}
       THEN /\ rows' = Flush(t, seen, [seen EXCEPT !.status = "downloading"])
            /\ files' = [files EXCEPT ![t] =
                 [p \in Path |-> IF p \in paths THEN "pending" ELSE @[p]]]
       ELSE UNCHANGED <<rows, files>>
  /\ Done(s)
  /\ UNCHANGED <<library, handed, stopped>>

(* A heartbeat also writes a lease_expires_at that nothing held before.    *)
HeartbeatCommit(s) ==
  LET t == reqs[s].task IN
  /\ InFlight(s, "heartbeat")
  /\ ~ClaimLocked(t)
  /\ rows' = [rows EXCEPT ![t].lease = "live"]
  /\ Done(s)
  /\ UNCHANGED <<files, library, handed, stopped>>

(* Each file of the body is looked up after the check of the worker; one   *)
(* that has no row by then is skipped.  Here all are looked up when the    *)
(* request commits: a file whose lookup came too early is one that a body  *)
(* with fewer paths leaves out.                                            *)
CompleteCommit(s) ==
  LET t == reqs[s].task  seen == reqs[s].seen IN
  /\ InFlight(s, "complete")
  /\ ~ClaimLocked(t)
  /\ rows' = Flush(t, seen, [seen EXCEPT !.status = "completed"])
  /\ files' = [files EXCEPT ![t] =
       [p \in Path |-> IF p \in reqs[s].paths \cap Present(t) THEN "uploaded" ELSE @[p]]]
  /\ library' = [library EXCEPT ![Title[t]] = IF @ = "absent" THEN @ ELSE "ready"]
  /\ Forget(reqs[s].by, t)
  /\ Done(s)
  /\ UNCHANGED stopped

(* Mutated forms of AfterFail: a status the table does not know; a worker  *)
(* that stays; one attempt too few; one too many.                          *)
AfterFailUnknownStatus(seen) ==
  IF seen.attempts < MaxAttempts
    THEN [seen EXCEPT !.status = "retrying", !.worker = None, !.lease = "none"]
    ELSE [seen EXCEPT !.status = "failed"]

AfterFailKeepingWorker(seen) ==
  IF seen.attempts < MaxAttempts
    THEN [seen EXCEPT !.status = "queued", !.lease = "none"]
    ELSE [seen EXCEPT !.status = "failed"]

AfterFailTooSoon(seen) ==
  IF seen.attempts + 1 < MaxAttempts
    THEN [seen EXCEPT !.status = "queued", !.worker = None, !.lease = "none"]
    ELSE [seen EXCEPT !.status = "failed"]

AfterFailTooLate(seen) ==
  IF seen.attempts <= MaxAttempts
    THEN [seen EXCEPT !.status = "queued", !.worker = None, !.lease = "none"]
    ELSE [seen EXCEPT !.status = "failed"]

(* What fail makes of the row it read.                                     *)
AfterFail(seen) ==
  IF seen.attempts < MaxAttempts
    THEN [seen EXCEPT !.status = "queued", !.worker = None, !.lease = "none"]
    ELSE [seen EXCEPT !.status = "failed"]

(* The worker forgets a task it reported on; one that is not orderly, or   *)
(* that never saw the answer, may send again what it had under way.        *)
FailCommit(s) ==
  LET t == reqs[s].task  seen == reqs[s].seen IN
  /\ InFlight(s, "fail")
  /\ ~ClaimLocked(t)
  /\ rows' = Flush(t, seen, AfterFail(seen))
  /\ Forget(reqs[s].by, t)
  /\ Done(s)
  /\ UNCHANGED <<files, library, stopped>>

(* A request that never commits: the backend restarts, or the database     *)
(* refuses the commit.  Its locks and its changes are gone.                *)
Abort(s) ==
  /\ reqs[s] # Idle
  /\ Done(s)
  /\ UNCHANGED <<rows, files, library, handed, stopped>>

(* The clock passes lease_expires_at.                                      *)
LeaseExpires(t) ==
  /\ rows[t].lease = "live"
  /\ Orderly => Unattended(t)
  /\ rows' = [rows EXCEPT ![t].lease = "expired"]
  /\ UNCHANGED <<files, library, reqs, handed, stopped>>

(* Mutated forms of Expired: the lease is ignored; only tasks that have    *)
(* not started to download are reclaimed.                                  *)
ExpiredAtOnce(r) == r.status \in Active

ExpiredBeforeDownload(r) == r.status = "assigned" /\ r.lease = "expired"

(* A pass of the reaper: expired rows return to the queue, and queued rows *)
(* that have used up their attempts fail.  It waits for the row lock of a  *)
(* claim on a row it would change.                                         *)
Expired(r) == r.status \in Active /\ r.lease = "expired"
(* Mutated forms of Reclaimed and GivenUp: the status stays; no task is    *)
(* ever given up.                                                          *)
ReclaimedInPart(r) == IF Expired(r) THEN [r EXCEPT !.worker = None, !.lease = "none"] ELSE r

NeverGivenUp(r) == r

Reclaimed(r) ==
  IF Expired(r) THEN [r EXCEPT !.status = "queued", !.worker = None, !.lease = "none"] ELSE r

GivenUp(r) ==
  IF r.status = "queued" /\ r.attempts >= MaxAttempts THEN [r EXCEPT !.status = "failed"] ELSE r

Reap ==
  /\ \A t \in Task : GivenUp(Reclaimed(rows[t])) # rows[t] => ~ClaimLocked(t)
  /\ rows' = [t \in Task |-> GivenUp(Reclaimed(rows[t]))]
  /\ rows' # rows
  /\ UNCHANGED <<files, library, reqs, handed, stopped>>

(* A worker process dies.  A new process registers under a new identity,   *)
(* so some identity is always running.                                     *)
WorkerStops(w) ==
  /\ w \notin stopped
  /\ \E v \in Worker \ {w} : v \notin stopped
  /\ stopped' = stopped \cup {w}
  /\ handed' = [handed EXCEPT ![w] = {}]
  /\ UNCHANGED <<rows, files, library, reqs>>

-----------------------------------------------------------------------------
Commit(s) ==
  \/ \E delivered \in BOOLEAN : ClaimCommit(s, delivered)
  \/ ManifestCommit(s)
  \/ HeartbeatCommit(s)
  \/ CompleteCommit(s)
  \/ FailCommit(s)
  \/ CancelCommit(s)

Next ==
  \/ \E t \in Task : CreateTask(t) \/ LeaseExpires(t)
  \/ \E s \in Slot : Commit(s) \/ Abort(s)
  \/ \E s \in Slot, t \in Task : CancelRead(s, t)
  \/ \E s \in Slot, w \in Worker, t \in Task :
       \/ ClaimLock(s, w, t)
       \/ HeartbeatRead(s, w, t)
       \/ FailRead(s, w, t)
       \/ \E paths \in SUBSET Path :
            ManifestRead(s, w, t, paths) \/ CompleteRead(s, w, t, paths)
  \/ \E w \in Worker, t \in Task : ToldGone(w, t)
  \/ \E w \in Worker : WorkerStops(w)
  \/ Reap

Spec == Init /\ [][Next]_vars

-----------------------------------------------------------------------------
(* The fairness of the liveness run.  Time passes and the reaper loops.    *)
(* Every request ends.  A free worker claims again and again, a worker     *)
(* that has a task reports on it at last (its stall and total timeouts see *)
(* to that), and the database does not refuse every one of these commits.  *)
Reported(w, t) ==
  \E s \in Slot : FailRead(s, w, t) \/ \E paths \in SUBSET Path : CompleteRead(s, w, t, paths)

Fairness ==
  /\ WF_vars(Reap)
  /\ \A s \in Slot : WF_vars(Commit(s) \/ Abort(s))
  /\ SF_vars(\E s \in Slot : ClaimCommit(s, TRUE) \/ ClaimCommit(s, FALSE))
  /\ SF_vars(\E s \in Slot : CompleteCommit(s) \/ FailCommit(s))
  /\ \A t \in Task : /\ WF_vars(LeaseExpires(t))
                     /\ SF_vars(\E s \in Slot, w \in Worker : ClaimLock(s, w, t))
  /\ \A w \in Worker, t \in Task : SF_vars(Reported(w, t))

FairSpec == Spec /\ Fairness

-----------------------------------------------------------------------------
(* The state has the shape the tables and the handlers give it.            *)
TypeOK ==
  /\ rows \in [Task -> Row]
  /\ files \in [Task -> [Path -> {"absent", "pending", "uploaded"}]]
  /\ library \in [Titles -> {"absent", "in_progress", "ready"}]
  /\ reqs \in [Slot -> Request \cup {Idle}]
  /\ handed \in [Worker -> SUBSET Task]
  /\ stopped \in SUBSET Worker

(* A queued row is free to take and an assigned row has its worker and a   *)
(* lease, although late fails, cancels, manifests and heartbeats write     *)
(* columns of rows that have moved on (worker.py, task_queue.py).          *)
OwnershipConsistent ==
  \A t \in Task :
    /\ rows[t].status = "queued" => rows[t].worker = None
    /\ rows[t].status = "assigned" => rows[t].worker # None /\ rows[t].lease # "none"

(* claim_task is atomic: as long as a claim is under way its row is still  *)
(* queued with the attempts it read, and no other claim took that row.     *)
ClaimAtomic ==
  \A s \in Slot : InFlight(s, "claim") =>
    LET t == reqs[s].task IN
    /\ rows[t].status = "queued"
    /\ rows[t].attempts = reqs[s].seen.attempts
    /\ \A r \in Slot : InFlight(r, "claim") /\ reqs[r].task = t => r = s

(* A task is given up only after its MaxAttempts claims, also when the     *)
(* verdict comes from a fail that read the row long ago.                   *)
FailedExhausted ==
  \A t \in Task : rows[t].status = "failed" => rows[t].attempts >= MaxAttempts

(* Stale fails can buy a task extra attempts, one for every other request  *)
(* that was under way when it used up its own.                             *)
AttemptsNearlyBounded ==
  \A t \in Task : rows[t].attempts < MaxAttempts + Cardinality(Slot)

(* The user finds every task in the library, and a completed one as ready  *)
(* (create_task, worker_complete).                                         *)
LibraryFollowsTasks ==
  \A t \in Task :
    /\ rows[t].status # "absent" => library[Title[t]] # "absent"
    /\ rows[t].status = "completed" => library[Title[t]] = "ready"

(* A task passes from one worker to another only by way of nobody.         *)
NoStealing ==
  [][\A t \in Task : rows'[t].worker # rows[t].worker =>
                        None \in {rows[t].worker, rows'[t].worker}]_vars

(* Only a claim gives a task to a worker, and every one it gives counts.   *)
OwnershipRefined == Ownership!OSpec

(* With orderly workers: two workers never download the same task, and a   *)
(* worker that was handed one is the worker its row names.                 *)
OneDownloader ==
  \A w \in Worker, t \in Task : t \in handed[w] => rows[t].worker = w

(* With orderly workers: every task in progress has a worker and a lease,  *)
(* so that the reaper sees to it if the worker dies (task_queue.py,        *)
(* start_doc_spec.md on SIGKILL).                                          *)
NoStranded ==
  \A t \in Task : rows[t].status \in Active => rows[t].worker # None /\ rows[t].lease # "none"

(* With orderly workers: no task is tried more often than max_attempts.    *)
AttemptsBounded == \A t \in Task : rows[t].attempts <= MaxAttempts

(* With orderly workers and fairness: a task that was created is completed,*)
(* failed or canceled at last.                                             *)
EveryTaskEnds ==
  \A t \in Task : rows[t].status = "queued" ~> rows[t].status \in {"completed", "failed", "canceled"}

(* A task that is tried again succeeds with its task_id: the manifest of   *)
(* the worker it is assigned to is not refused.                            *)
RetriedManifestAccepted ==
  \A s \in Slot : LET t == reqs[s].task IN
    InFlight(s, "manifest") /\ rows[t].status = "assigned" /\ rows[t].worker = reqs[s].by
      => reqs[s].paths \cap Present(t) = {}
=============================================================================
