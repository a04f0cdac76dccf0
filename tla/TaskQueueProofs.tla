-------------------------- MODULE TaskQueueProofs --------------------------
(***************************************************************************)
(* What holds of the download queue for every number of workers, tasks,    *)
(* paths and slots, however the requests overlap; and, at the end, what the*)
(* lease contract buys: with orderly workers, and only then, no two of them*)
(* download the same task, no task in progress is out of the reaper's sight*)
(* and no task is tried more often than max_attempts.                      *)
(***************************************************************************)
EXTENDS TaskQueue, FiniteSetTheorems, TLAPS

(* A row that does not exist yet carries nothing.                          *)
AbsentBlank ==
  \A t \in Task : rows[t].status = "absent" => rows[t].worker = None /\ rows[t].attempts = 0

(* A claim under way holds the lock of a row that is still as it read it.  *)
ClaimSound ==
  \A s \in Slot : InFlight(s, "claim") =>
    /\ reqs[s].by \in Worker
    /\ reqs[s].seen.status = "queued"
    /\ reqs[s].seen.worker = None
    /\ rows[reqs[s].task].status = "queued"
    /\ rows[reqs[s].task].attempts = reqs[s].seen.attempts
    /\ \A r \in Slot : InFlight(r, "claim") /\ reqs[r].task = reqs[s].task => r = s

(* A fail under way read a row that its sender had, however long ago.      *)
FailSound ==
  \A s \in Slot : InFlight(s, "fail") =>
    /\ reqs[s].by \in Worker
    /\ reqs[s].seen.worker = reqs[s].by
    /\ reqs[s].seen.status # "queued"
    /\ rows[reqs[s].task].status # "absent"
    /\ reqs[s].seen.attempts <= rows[reqs[s].task].attempts

(* The inductive invariant.                                                *)
IInv ==
  /\ TypeOK
  /\ OwnershipConsistent
  /\ AbsentBlank
  /\ ClaimSound
  /\ FailSound
  /\ FailedExhausted

-----------------------------------------------------------------------------
(* Writing back the changed columns of one row: the others stay.           *)
LEMMA FlushRow ==
  ASSUME rows \in [Task -> Row], NEW t \in Task, NEW old \in Row, NEW new \in Row
  PROVE  /\ Flush(t, old, new) \in [Task -> Row]
         /\ \A u \in Task : u # t => Flush(t, old, new)[u] = rows[u]
         /\ Flush(t, old, new)[t] = [status   |-> Merge(rows[t].status, old.status, new.status),
                                     worker   |-> Merge(rows[t].worker, old.worker, new.worker),
                                     attempts |-> Merge(rows[t].attempts, old.attempts, new.attempts),
                                     lease    |-> Merge(rows[t].lease, old.lease, new.lease)]
BY DEF Flush, Merge, Row

(* A request in flight has the shape of a request.                         *)
LEMMA RequestShape ==
  ASSUME TypeOK, NEW s \in Slot, reqs[s].op # "idle"
  PROVE  /\ reqs[s] \in Request
         /\ reqs[s].task \in Task
         /\ reqs[s].seen \in Row
         /\ reqs[s].by \in Worker \cup {None}
         /\ reqs[s].paths \subseteq Path
         /\ rows[reqs[s].task] \in Row
BY DEF TypeOK, Idle, Request

(* The start of a request.                                                 *)
LEMMA StartShape ==
  ASSUME TypeOK, NEW s \in Slot, NEW op \in {"claim", "manifest", "heartbeat", "complete", "fail", "cancel"},
         NEW w \in Worker \cup {None}, NEW t \in Task, NEW paths \in SUBSET Path,
         Start(s, op, w, t, paths)
  PROVE  /\ reqs' \in [Slot -> Request \cup {Idle}]
         /\ \A r \in Slot : r # s => reqs'[r] = reqs[r]
         /\ reqs'[s] = [op |-> op, by |-> w, task |-> t, seen |-> rows[t], paths |-> paths]
BY DEF TypeOK, Start, Request

(* The end of a request.                                                   *)
LEMMA DoneShape ==
  ASSUME TypeOK, NEW s \in Slot, Done(s)
  PROVE  /\ reqs' \in [Slot -> Request \cup {Idle}]
         /\ \A r \in Slot : r # s => reqs'[r] = reqs[r]
         /\ reqs'[s].op = "idle"
BY DEF TypeOK, Done, Idle

(* A request that starts by reading a row changes no row, so the invariant *)
(* only has to hold of what it read.                                       *)
LEMMA StartPreserves ==
  ASSUME IInv, NEW s \in Slot, NEW op \in {"claim", "manifest", "heartbeat", "complete", "fail", "cancel"},
         NEW w \in Worker \cup {None}, NEW t \in Task, NEW paths \in SUBSET Path,
         Start(s, op, w, t, paths),
         UNCHANGED <<rows, files, library, handed, stopped>>,
         op = "claim" => w \in Worker /\ rows[t].status = "queued" /\ ~ClaimLocked(t),
         op = "fail" => w \in Worker /\ rows[t].worker = w
  PROVE  IInv'
<1>1. /\ reqs' \in [Slot -> Request \cup {Idle}]
      /\ \A r \in Slot : r # s => reqs'[r] = reqs[r]
      /\ reqs'[s] = [op |-> op, by |-> w, task |-> t, seen |-> rows[t], paths |-> paths]
  BY StartShape DEF IInv
<1>2. TypeOK'
  BY <1>1 DEF IInv, TypeOK
<1>3. OwnershipConsistent' /\ AbsentBlank' /\ FailedExhausted'
  BY DEF IInv, OwnershipConsistent, AbsentBlank, FailedExhausted
<1>4. ClaimSound'
  BY <1>1 DEF IInv, ClaimSound, OwnershipConsistent, InFlight, ClaimLocked
<1>5. FailSound'
  BY <1>1, QueueAssumption DEF IInv, FailSound, OwnershipConsistent, AbsentBlank, InFlight, TypeOK, Row
<1> QED
  BY <1>2, <1>3, <1>4, <1>5 DEF IInv

(* Requests that end or stay leave the invariant of the others alone, if   *)
(* rows keep their attempts, exist on, and stay put while a claim locks    *)
(* them.                                                                   *)
LEMMA OthersSound ==
  ASSUME IInv, rows' \in [Task -> Row],
         \A r \in Slot : reqs'[r] = reqs[r] \/ reqs'[r].op = "idle",
         \A t \in Task : /\ rows'[t].attempts >= rows[t].attempts
                         /\ rows[t].status # "absent" => rows'[t].status # "absent",
         \A r \in Slot : InFlight(r, "claim")' =>
           /\ rows'[reqs[r].task].status = rows[reqs[r].task].status
           /\ rows'[reqs[r].task].attempts = rows[reqs[r].task].attempts
  PROVE  ClaimSound' /\ FailSound'
<1>1. ClaimSound'
  BY DEF IInv, ClaimSound, InFlight
<1>2. FailSound'
  <2> SUFFICES ASSUME NEW r \in Slot, InFlight(r, "fail")'
               PROVE  /\ reqs'[r].by \in Worker
                      /\ reqs'[r].seen.worker = reqs'[r].by
                      /\ reqs'[r].seen.status # "queued"
                      /\ rows'[reqs'[r].task].status # "absent"
                      /\ reqs'[r].seen.attempts <= rows'[reqs'[r].task].attempts
    BY DEF FailSound
  <2>1. reqs'[r] = reqs[r] /\ InFlight(r, "fail")
    BY DEF InFlight
  <2>2. reqs[r].task \in Task /\ reqs[r].seen \in Row /\ rows[reqs[r].task] \in Row
    BY <2>1, RequestShape DEF IInv, InFlight
  <2> QED
    BY <2>1, <2>2 DEF IInv, FailSound, Row
<1> QED
  BY <1>1, <1>2

(* Without the lock of a claim on t, no claim under way is about t.        *)
LEMMA NotLocked ==
  ASSUME NEW t, ~ClaimLocked(t), NEW r \in Slot, InFlight(r, "claim")
  PROVE  reqs[r].task # t
BY DEF ClaimLocked

(* The commit of a request on row t writes a row that keeps its worker and *)
(* its attempts, or gives up its worker.                                   *)
LEMMA CommitPreserves ==
  ASSUME IInv, NEW s \in Slot, NEW t \in Task, NEW row \in Row,
         ~ClaimLocked(t), Done(s),
         rows' = [rows EXCEPT ![t] = row],
         TypeOK',
         row.attempts = rows[t].attempts,
         row.status = "absent" => rows[t].status = "absent",
         row.worker \in {rows[t].worker, None},
         row.status = "queued" => row.worker = None,
         row.status = "assigned" => row.worker # None /\ row.lease # "none",
         row.status = "failed" => row.attempts >= MaxAttempts
  PROVE  IInv'
<1>1. \A r \in Slot : reqs'[r] = reqs[r] \/ reqs'[r].op = "idle"
  BY DoneShape DEF IInv
<1>2. rows \in [Task -> Row] /\ rows' \in [Task -> Row]
  BY DEF IInv, TypeOK
<1>3. \A u \in Task : rows'[u] = IF u = t THEN row ELSE rows[u]
  BY <1>2
<1>4. OwnershipConsistent' /\ AbsentBlank' /\ FailedExhausted'
  BY <1>2, <1>3 DEF IInv, OwnershipConsistent, AbsentBlank, FailedExhausted
<1>5. \A r \in Slot : InFlight(r, "claim")' =>
        InFlight(r, "claim") /\ reqs[r].task \in Task /\ reqs[r].task # t
  BY <1>1, RequestShape, NotLocked DEF IInv, InFlight
<1>6. ClaimSound' /\ FailSound'
  <2>1. \A u \in Task : /\ rows'[u].attempts >= rows[u].attempts
                        /\ rows[u].status # "absent" => rows'[u].status # "absent"
    BY <1>2, <1>3 DEF Row
  <2>2. \A r \in Slot : InFlight(r, "claim")' =>
           /\ rows'[reqs[r].task].status = rows[reqs[r].task].status
           /\ rows'[reqs[r].task].attempts = rows[reqs[r].task].attempts
    BY <1>3, <1>5
  <2> QED
    BY <1>1, <1>2, <2>1, <2>2, OthersSound
<1> QED
  BY <1>4, <1>6 DEF IInv

(* A request that ends without writing anything.                           *)
LEMMA DonePreserves ==
  ASSUME IInv, NEW s \in Slot, Done(s),
         UNCHANGED <<rows, files, library, handed, stopped>>
  PROVE  IInv'
<1>1. \A r \in Slot : reqs'[r] = reqs[r] \/ reqs'[r].op = "idle"
  BY DoneShape DEF IInv
<1>2. TypeOK' /\ OwnershipConsistent' /\ AbsentBlank' /\ FailedExhausted'
  BY DoneShape DEF IInv, TypeOK, OwnershipConsistent, AbsentBlank, FailedExhausted
<1>3. ClaimSound' /\ FailSound'
  BY <1>1, OthersSound DEF IInv, TypeOK, Row
<1> QED
  BY <1>2, <1>3 DEF IInv

-----------------------------------------------------------------------------
LEMMA CreateTaskPreserves ==
  ASSUME IInv, NEW t \in Task, CreateTask(t)
  PROVE  IInv'
<1>1. rows \in [Task -> Row] /\ rows' \in [Task -> Row]
  BY QueueAssumption DEF CreateTask, IInv, TypeOK, Row, NoRow, Status
<1>2. \A u \in Task : rows'[u] = IF u = t THEN [NoRow EXCEPT !.status = "queued"] ELSE rows[u]
  BY <1>1 DEF CreateTask
<1>3. TypeOK'
  BY <1>1 DEF CreateTask, IInv, TypeOK
<1>4. OwnershipConsistent' /\ AbsentBlank' /\ FailedExhausted'
  BY <1>2 DEF IInv, OwnershipConsistent, AbsentBlank, FailedExhausted, NoRow
<1>5. ClaimSound' /\ FailSound'
  <2>1. \A u \in Task : /\ rows'[u].attempts >= rows[u].attempts
                        /\ rows[u].status # "absent" => rows'[u].status # "absent"
    BY <1>1, <1>2 DEF IInv, AbsentBlank, CreateTask, NoRow, Row
  <2>2. \A r \in Slot : InFlight(r, "claim") => reqs[r].task \in Task /\ reqs[r].task # t
    BY RequestShape DEF IInv, ClaimSound, CreateTask, InFlight
  <2>3. reqs' = reqs
    BY DEF CreateTask
  <2> QED
    BY <1>1, <1>2, <2>1, <2>2, <2>3, OthersSound DEF InFlight
<1> QED
  BY <1>3, <1>4, <1>5 DEF IInv

(* A request that only changes the status it read writes only the status.  *)
LEMMA FlushStatus ==
  ASSUME rows \in [Task -> Row], NEW t \in Task, NEW old \in Row, NEW x \in Status
  PROVE  Flush(t, old, [old EXCEPT !.status = x]) =
           [rows EXCEPT ![t] = [rows[t] EXCEPT !.status = Merge(@, old.status, x)]]
<1> DEFINE new == [old EXCEPT !.status = x]
           row == [rows[t] EXCEPT !.status = Merge(@, old.status, x)]
<1>1. new \in Row /\ rows[t] \in Row
  BY DEF Row
<1>2. /\ new.status = x
      /\ new.worker = old.worker
      /\ new.attempts = old.attempts
      /\ new.lease = old.lease
  BY DEF Row
<1>3. row = [status   |-> Merge(rows[t].status, old.status, new.status),
             worker   |-> Merge(rows[t].worker, old.worker, new.worker),
             attempts |-> Merge(rows[t].attempts, old.attempts, new.attempts),
             lease    |-> Merge(rows[t].lease, old.lease, new.lease)]
  BY <1>1, <1>2 DEF Merge, Row
<1>4. Flush(t, old, new) = [rows EXCEPT ![t] = row]
  BY <1>3 DEF Flush
<1> QED
  BY <1>4

(* The commit of such a request, when it ends in a status of no obligation.*)
LEMMA StatusCommitPreserves ==
  ASSUME IInv, NEW s \in Slot, NEW t \in Task, NEW old \in Row,
         NEW x \in {"canceled", "downloading", "completed"},
         ~ClaimLocked(t), Done(s),
         rows' = Flush(t, old, [old EXCEPT !.status = x]),
         files' \in [Task -> [Path -> {"absent", "pending", "uploaded"}]],
         library' \in [Titles -> {"absent", "in_progress", "ready"}],
         handed' \in [Worker -> SUBSET Task],
         stopped' = stopped
  PROVE  IInv'
<1> DEFINE y == Merge(rows[t].status, old.status, x)
           row == [rows[t] EXCEPT !.status = y]
<1>1. rows \in [Task -> Row] /\ x \in Status /\ rows[t] \in Row
  BY DEF IInv, TypeOK, Status, Active
<1>2. y \in {rows[t].status, x}
  BY DEF Merge
<1>3. row \in Row /\ rows' = [rows EXCEPT ![t] = row]
  <2>1. row \in Row
    BY <1>1, <1>2 DEF Row
  <2>2. rows' = [rows EXCEPT ![t] = row]
    BY <1>1, FlushStatus
  <2> QED
    BY <2>1, <2>2
<1>4. TypeOK'
  BY <1>1, <1>3, DoneShape DEF IInv, TypeOK
<1>5. /\ row.status = y
      /\ row.worker = rows[t].worker
      /\ row.attempts = rows[t].attempts
      /\ row.lease = rows[t].lease
  BY <1>1 DEF Row
<1>6. /\ rows[t].status = "queued" => rows[t].worker = None
      /\ rows[t].status = "assigned" => rows[t].worker # None /\ rows[t].lease # "none"
      /\ rows[t].status = "failed" => rows[t].attempts >= MaxAttempts
  BY DEF IInv, OwnershipConsistent, FailedExhausted
<1> HIDE DEF y, row
<1> QED
  BY <1>2, <1>3, <1>4, <1>5, <1>6, CommitPreserves

LEMMA CancelCommitPreserves ==
  ASSUME IInv, NEW s \in Slot, CancelCommit(s)
  PROVE  IInv'
<1>1. reqs[s].task \in Task /\ reqs[s].seen \in Row
  BY RequestShape DEF CancelCommit, InFlight, IInv
<1> QED
  BY <1>1, StatusCommitPreserves DEF CancelCommit, IInv, TypeOK

LEMMA ManifestCommitPreserves ==
  ASSUME IInv, NEW s \in Slot, ManifestCommit(s)
  PROVE  IInv'
<1> DEFINE t == reqs[s].task
           seen == reqs[s].seen
           paths == reqs[s].paths
<1>1. t \in Task /\ seen \in Row /\ paths \subseteq Path /\ rows[t] \in Row
  BY RequestShape DEF ManifestCommit, InFlight, IInv
<1>2. CASE paths \cap Present(t) = {}
  <2>1. /\ rows' = Flush(t, seen, [seen EXCEPT !.status = "downloading"])
        /\ files' = [files EXCEPT ![t] = [p \in Path |-> IF p \in paths THEN "pending" ELSE @[p]]]
        /\ ~ClaimLocked(t) /\ Done(s) /\ UNCHANGED <<library, handed, stopped>>
    BY <1>2 DEF ManifestCommit
  <2>2. files' \in [Task -> [Path -> {"absent", "pending", "uploaded"}]]
    BY <1>1, <2>1 DEF IInv, TypeOK
  <2> QED
    BY <1>1, <2>1, <2>2, StatusCommitPreserves DEF IInv, TypeOK
<1>3. CASE paths \cap Present(t) # {}
  <2>1. UNCHANGED <<rows, files, library, handed, stopped>> /\ Done(s)
    BY <1>3 DEF ManifestCommit
  <2> QED
    BY <2>1, DonePreserves
<1> QED
  BY <1>2, <1>3

LEMMA HeartbeatCommitPreserves ==
  ASSUME IInv, NEW s \in Slot, HeartbeatCommit(s)
  PROVE  IInv'
<1> DEFINE t == reqs[s].task
           row == [rows[t] EXCEPT !.lease = "live"]
<1>1. t \in Task /\ rows[t] \in Row
  BY RequestShape DEF HeartbeatCommit, InFlight, IInv
<1>2. /\ row \in Row
      /\ row.status = rows[t].status
      /\ row.worker = rows[t].worker
      /\ row.attempts = rows[t].attempts
      /\ row.lease = "live"
  BY <1>1 DEF Row
<1>3. rows' = [rows EXCEPT ![t] = row]
  BY DEF HeartbeatCommit
<1>4. TypeOK'
  BY <1>1, <1>2, <1>3, DoneShape DEF HeartbeatCommit, IInv, TypeOK
<1>5. /\ rows[t].status = "queued" => rows[t].worker = None
      /\ rows[t].status = "assigned" => rows[t].worker # None
      /\ rows[t].status = "failed" => rows[t].attempts >= MaxAttempts
  BY <1>1 DEF IInv, OwnershipConsistent, FailedExhausted
<1> HIDE DEF row
<1> QED
  BY <1>1, <1>2, <1>3, <1>4, <1>5, CommitPreserves DEF HeartbeatCommit

LEMMA CompleteCommitPreserves ==
  ASSUME IInv, NEW s \in Slot, CompleteCommit(s)
  PROVE  IInv'
<1>1. reqs[s].task \in Task /\ reqs[s].seen \in Row /\ reqs[s].paths \subseteq Path
  BY RequestShape DEF CompleteCommit, InFlight, IInv
<1>2. /\ files' \in [Task -> [Path -> {"absent", "pending", "uploaded"}]]
      /\ library' \in [Titles -> {"absent", "in_progress", "ready"}]
      /\ handed' \in [Worker -> SUBSET Task]
  BY <1>1 DEF CompleteCommit, Forget, IInv, TypeOK
<1> QED
  BY <1>1, <1>2, StatusCommitPreserves DEF CompleteCommit

(* A fail that finds attempts left puts the row back without a worker: it  *)
(* writes both columns, for it read neither "queued" nor NULL.  Otherwise  *)
(* it read MaxAttempts or more, and a row never loses attempts.            *)
LEMMA FailCommitPreserves ==
  ASSUME IInv, NEW s \in Slot, FailCommit(s)
  PROVE  IInv'
<1> DEFINE t == reqs[s].task
           seen == reqs[s].seen
           new == AfterFail(seen)
           row == rows'[t]
<1>1. t \in Task /\ seen \in Row /\ rows[t] \in Row /\ rows \in [Task -> Row]
  BY RequestShape DEF FailCommit, InFlight, IInv, TypeOK
<1>2. /\ seen.worker \in Worker
      /\ seen.status # "queued"
      /\ rows[t].status # "absent"
      /\ seen.attempts <= rows[t].attempts
  BY DEF FailCommit, IInv, FailSound
<1>3. rows' = Flush(t, seen, new) /\ ~ClaimLocked(t) /\ Done(s)
  BY DEF FailCommit
<1>4. new \in Row
  BY <1>1 DEF AfterFail, Row, Status
<1> HIDE DEF new
<1>5. /\ rows' \in [Task -> Row]
      /\ \A u \in Task : u # t => rows'[u] = rows[u]
      /\ row = [status   |-> Merge(rows[t].status, seen.status, new.status),
                worker   |-> Merge(rows[t].worker, seen.worker, new.worker),
                attempts |-> Merge(rows[t].attempts, seen.attempts, new.attempts),
                lease    |-> Merge(rows[t].lease, seen.lease, new.lease)]
  <2> DEFINE f == Flush(t, seen, new)
  <2>1. /\ f \in [Task -> Row]
        /\ \A u \in Task : u # t => f[u] = rows[u]
        /\ f[t] = [status   |-> Merge(rows[t].status, seen.status, new.status),
                   worker   |-> Merge(rows[t].worker, seen.worker, new.worker),
                   attempts |-> Merge(rows[t].attempts, seen.attempts, new.attempts),
                   lease    |-> Merge(rows[t].lease, seen.lease, new.lease)]
    BY <1>1, <1>4, FlushRow
  <2> HIDE DEF f
  <2>2. rows' = f
    BY <1>3 DEF f
  <2> QED
    BY <2>1, <2>2
<1>6. row \in Row /\ rows' = [rows EXCEPT ![t] = row]
  BY <1>1, <1>5
<1>7. TypeOK'
  BY <1>5, DoneShape DEF FailCommit, Forget, IInv, TypeOK
<1>8. CASE seen.attempts < MaxAttempts
  <2>1. /\ new.status = "queued"
        /\ new.worker = None
        /\ new.attempts = seen.attempts
    BY <1>1, <1>8 DEF new, AfterFail, Row
  <2>2. row.status = "queued" /\ row.worker = None /\ row.attempts = rows[t].attempts
    BY <1>2, <1>5, <2>1, QueueAssumption DEF Merge
  <2> HIDE DEF row
  <2> QED
    BY <1>1, <1>3, <1>6, <1>7, <2>2, CommitPreserves
<1>9. CASE ~(seen.attempts < MaxAttempts)
  <2>1. /\ new.status = "failed"
        /\ new.worker = seen.worker
        /\ new.attempts = seen.attempts
        /\ new.lease = seen.lease
    BY <1>1, <1>9 DEF new, AfterFail, Row
  <2>2. /\ row.status \in {"failed", rows[t].status}
        /\ row.worker = rows[t].worker
        /\ row.attempts = rows[t].attempts
        /\ row.lease = rows[t].lease
    BY <1>5, <2>1 DEF Merge
  <2>3. rows[t].attempts >= MaxAttempts
    BY <1>1, <1>2, <1>9, QueueAssumption DEF Row
  <2>4. /\ rows[t].status = "queued" => rows[t].worker = None
        /\ rows[t].status = "assigned" => rows[t].worker # None /\ rows[t].lease # "none"
    BY <1>1 DEF IInv, OwnershipConsistent
  <2> HIDE DEF row
  <2> QED
    BY <1>1, <1>2, <1>3, <1>6, <1>7, <2>2, <2>3, <2>4, CommitPreserves
<1> QED
  BY <1>8, <1>9

(* What a claim writes, given that its row is still as it read it.         *)
LEMMA ClaimCommitRows ==
  ASSUME IInv, NEW s \in Slot, NEW delivered \in BOOLEAN, ClaimCommit(s, delivered)
  PROVE  /\ reqs[s].task \in Task /\ reqs[s].by \in Worker
         /\ rows[reqs[s].task].status = "queued"
         /\ rows[reqs[s].task].worker = None
         /\ rows' \in [Task -> Row]
         /\ \A u \in Task : u # reqs[s].task => rows'[u] = rows[u]
         /\ rows'[reqs[s].task].status = "assigned"
         /\ rows'[reqs[s].task].worker = reqs[s].by
         /\ rows'[reqs[s].task].attempts = rows[reqs[s].task].attempts + 1
         /\ rows'[reqs[s].task].lease = "live"
<1> DEFINE t == reqs[s].task
           seen == reqs[s].seen
           new == [seen EXCEPT !.status = "assigned", !.worker = reqs[s].by, !.attempts = @ + 1]
           f == Flush(t, seen, new)
<1>1. t \in Task /\ seen \in Row /\ rows[t] \in Row /\ rows \in [Task -> Row]
  BY RequestShape DEF ClaimCommit, InFlight, IInv, TypeOK
<1>2. /\ reqs[s].by \in Worker
      /\ seen.status = "queued"
      /\ seen.worker = None
      /\ rows[t].status = "queued"
      /\ rows[t].attempts = seen.attempts
  BY DEF ClaimCommit, IInv, ClaimSound
<1>3. rows[t].worker = None
  BY <1>1, <1>2 DEF IInv, OwnershipConsistent
<1>4. /\ new \in Row
      /\ new.status = "assigned"
      /\ new.worker = reqs[s].by
      /\ new.attempts = seen.attempts + 1
  <2>1. seen.attempts + 1 \in Nat /\ "assigned" \in Status
    BY <1>1 DEF Row, Status, Active
  <2> QED
    BY <1>1, <1>2, <2>1 DEF Row
<1> HIDE DEF new
<1>5. /\ f \in [Task -> Row]
      /\ \A u \in Task : u # t => f[u] = rows[u]
      /\ f[t] = [status   |-> Merge(rows[t].status, seen.status, new.status),
                 worker   |-> Merge(rows[t].worker, seen.worker, new.worker),
                 attempts |-> Merge(rows[t].attempts, seen.attempts, new.attempts),
                 lease    |-> Merge(rows[t].lease, seen.lease, new.lease)]
  BY <1>1, <1>4, FlushRow
<1>6. f[t].status = "assigned" /\ f[t].worker = reqs[s].by /\ f[t].attempts = rows[t].attempts + 1
  BY <1>1, <1>2, <1>4, <1>5, QueueAssumption DEF Merge, Row
<1>7. rows' = [f EXCEPT ![t].lease = "live"]
  BY DEF ClaimCommit, new
<1> HIDE DEF f
<1>8. rows' = [f EXCEPT ![t] = [f[t] EXCEPT !.lease = "live"]]
  BY <1>7
<1>9. /\ [f[t] EXCEPT !.lease = "live"] \in Row
      /\ [f[t] EXCEPT !.lease = "live"].status = f[t].status
      /\ [f[t] EXCEPT !.lease = "live"].worker = f[t].worker
      /\ [f[t] EXCEPT !.lease = "live"].attempts = f[t].attempts
      /\ [f[t] EXCEPT !.lease = "live"].lease = "live"
  BY <1>1, <1>5 DEF Row
<1> QED
  BY <1>1, <1>2, <1>3, <1>5, <1>6, <1>8, <1>9

LEMMA ClaimCommitPreserves ==
  ASSUME IInv, NEW s \in Slot, NEW delivered \in BOOLEAN, ClaimCommit(s, delivered)
  PROVE  IInv'
<1> DEFINE t == reqs[s].task
<1>1. /\ t \in Task /\ reqs[s].by \in Worker
      /\ rows[t].status = "queued"
      /\ rows' \in [Task -> Row]
      /\ \A u \in Task : u # t => rows'[u] = rows[u]
      /\ rows'[t].status = "assigned"
      /\ rows'[t].worker = reqs[s].by
      /\ rows'[t].attempts = rows[t].attempts + 1
      /\ rows'[t].lease = "live"
  BY ClaimCommitRows
<1>2. InFlight(s, "claim") /\ Done(s) /\ rows \in [Task -> Row]
  BY DEF ClaimCommit, IInv, TypeOK
<1>3. TypeOK'
  BY <1>1, <1>2, DoneShape DEF ClaimCommit, IInv, TypeOK
<1>4. OwnershipConsistent' /\ AbsentBlank' /\ FailedExhausted'
  BY <1>1, QueueAssumption DEF IInv, OwnershipConsistent, AbsentBlank, FailedExhausted
<1>5. \A r \in Slot : reqs'[r] = reqs[r] \/ reqs'[r].op = "idle"
  BY <1>2, DoneShape DEF IInv
<1>6. \A r \in Slot : InFlight(r, "claim")' => reqs[r].task \in Task /\ reqs[r].task # t
  <2> SUFFICES ASSUME NEW r \in Slot, InFlight(r, "claim")'
               PROVE  reqs[r].task \in Task /\ reqs[r].task # t
    OBVIOUS
  <2>1. r # s /\ InFlight(r, "claim")
    BY <1>2, <1>5, DoneShape DEF IInv, InFlight
  <2> QED
    BY <1>2, <2>1, RequestShape DEF IInv, ClaimSound, InFlight
<1>7. \A u \in Task : /\ rows'[u].attempts >= rows[u].attempts
                      /\ rows[u].status # "absent" => rows'[u].status # "absent"
  BY <1>1, <1>2 DEF Row
<1>8. ClaimSound' /\ FailSound'
  BY <1>1, <1>5, <1>6, <1>7, OthersSound
<1> QED
  BY <1>3, <1>4, <1>8 DEF IInv

LEMMA LeaseExpiresPreserves ==
  ASSUME IInv, NEW t \in Task, LeaseExpires(t)
  PROVE  IInv'
<1>1. /\ rows \in [Task -> Row] /\ rows' \in [Task -> Row]
      /\ \A u \in Task : /\ rows'[u].status = rows[u].status
                         /\ rows'[u].worker = rows[u].worker
                         /\ rows'[u].attempts = rows[u].attempts
                         /\ rows'[u].lease = "none" => rows[u].lease = "none"
  BY DEF LeaseExpires, IInv, TypeOK, Row
<1>2. TypeOK' /\ OwnershipConsistent' /\ AbsentBlank' /\ FailedExhausted'
  BY <1>1 DEF LeaseExpires, IInv, TypeOK, OwnershipConsistent, AbsentBlank, FailedExhausted
<1>3. reqs' = reqs
  BY DEF LeaseExpires
<1>4. \A r \in Slot : InFlight(r, "claim")' => reqs[r].task \in Task
  BY <1>3, RequestShape DEF IInv, InFlight
<1>5. \A u \in Task : /\ rows'[u].attempts >= rows[u].attempts
                      /\ rows[u].status # "absent" => rows'[u].status # "absent"
  BY <1>1 DEF Row
<1>6. ClaimSound' /\ FailSound'
  BY <1>1, <1>3, <1>4, <1>5, OthersSound
<1> QED
  BY <1>2, <1>6 DEF IInv

(* What a pass of the reaper makes of a row.                               *)
LEMMA ReapedRow ==
  ASSUME NEW r \in Row
  PROVE  /\ GivenUp(Reclaimed(r)) \in Row
         /\ GivenUp(Reclaimed(r)).attempts = r.attempts
         /\ GivenUp(Reclaimed(r)).worker \in {r.worker, None}
         /\ GivenUp(Reclaimed(r)).status \in {r.status, "queued", "failed"}
         /\ GivenUp(Reclaimed(r)).status = "absent" => GivenUp(Reclaimed(r)) = r
         /\ GivenUp(Reclaimed(r)).status = "queued" =>
              GivenUp(Reclaimed(r)).worker = None \/ GivenUp(Reclaimed(r)) = r
         /\ GivenUp(Reclaimed(r)).status = "assigned" => GivenUp(Reclaimed(r)) = r
         /\ GivenUp(Reclaimed(r)).status = "failed" => r.attempts >= MaxAttempts \/ r.status = "failed"
<1> DEFINE x == Reclaimed(r)
<1>1. /\ x \in Row
      /\ x.attempts = r.attempts
      /\ \/ x = r
         \/ x.status = "queued" /\ x.worker = None /\ r.status \in Active
  BY DEF Reclaimed, Expired, Row, Status
<1> HIDE DEF x
<1>2. /\ GivenUp(x) \in Row
      /\ GivenUp(x).attempts = x.attempts
      /\ GivenUp(x).worker = x.worker
      /\ \/ GivenUp(x) = x
         \/ GivenUp(x).status = "failed" /\ x.status = "queued" /\ x.attempts >= MaxAttempts
  BY <1>1 DEF GivenUp, Row, Status
<1>3. GivenUp(Reclaimed(r)) = GivenUp(x)
  BY DEF x
<1> QED
  BY <1>1, <1>2, <1>3 DEF Active

LEMMA ReapPreserves ==
  ASSUME IInv, Reap
  PROVE  IInv'
<1> DEFINE new(t) == GivenUp(Reclaimed(rows[t]))
<1>1. rows \in [Task -> Row] /\ reqs' = reqs
  BY DEF Reap, IInv, TypeOK
<1>2. \A t \in Task : rows'[t] = new(t)
  BY DEF Reap
<1>3. \A t \in Task : ClaimLocked(t) => new(t) = rows[t]
  BY DEF Reap
<1>4. \A t \in Task :
        /\ new(t) \in Row
        /\ new(t).attempts = rows[t].attempts
        /\ new(t).worker \in {rows[t].worker, None}
        /\ new(t).status \in {rows[t].status, "queued", "failed"}
        /\ new(t).status = "absent" => new(t) = rows[t]
        /\ new(t).status = "queued" => new(t).worker = None \/ new(t) = rows[t]
        /\ new(t).status = "assigned" => new(t) = rows[t]
        /\ new(t).status = "failed" => rows[t].attempts >= MaxAttempts \/ rows[t].status = "failed"
  BY <1>1, ReapedRow
<1> HIDE DEF new
<1>5. TypeOK'
  BY <1>2, <1>4 DEF Reap, IInv, TypeOK
<1>6. OwnershipConsistent' /\ AbsentBlank' /\ FailedExhausted'
  BY <1>2, <1>4 DEF IInv, OwnershipConsistent, AbsentBlank, FailedExhausted
<1>7. \A t \in Task : /\ rows'[t].attempts >= rows[t].attempts
                      /\ rows[t].status # "absent" => rows'[t].status # "absent"
  BY <1>1, <1>2, <1>4 DEF Row
<1>8. \A r \in Slot : InFlight(r, "claim")' =>
        reqs[r].task \in Task /\ rows'[reqs[r].task] = rows[reqs[r].task]
  BY <1>1, <1>2, <1>3, RequestShape DEF IInv, InFlight, ClaimLocked
<1>9. ClaimSound' /\ FailSound'
  BY <1>1, <1>5, <1>7, <1>8, OthersSound DEF TypeOK
<1> QED
  BY <1>5, <1>6, <1>9 DEF IInv

(* Steps that write neither rows nor requests.                             *)
LEMMA QuietPreserves ==
  ASSUME IInv, UNCHANGED <<rows, files, library, reqs>>,
         handed' \in [Worker -> SUBSET Task], stopped' \in SUBSET Worker
  PROVE  IInv'
BY DEF IInv, TypeOK, OwnershipConsistent, AbsentBlank, ClaimSound, FailSound, FailedExhausted, InFlight

-----------------------------------------------------------------------------
LEMMA InitIInv == Init => IInv
<1> SUFFICES ASSUME Init PROVE IInv
  OBVIOUS
<1>1. TypeOK
  BY QueueAssumption DEF Init, TypeOK, NoRow, Row, Status
<1>2. OwnershipConsistent /\ AbsentBlank /\ ClaimSound /\ FailSound /\ FailedExhausted
  BY DEF Init, OwnershipConsistent, AbsentBlank, ClaimSound, FailSound, FailedExhausted,
         NoRow, Idle, InFlight
<1> QED
  BY <1>1, <1>2 DEF IInv

LEMMA NextIInv == IInv /\ [Next]_vars => IInv'
<1> SUFFICES ASSUME IInv, [Next]_vars PROVE IInv'
  OBVIOUS
<1>1. ASSUME NEW t \in Task, CreateTask(t) PROVE IInv'
  BY <1>1, CreateTaskPreserves
<1>2. ASSUME NEW t \in Task, LeaseExpires(t) PROVE IInv'
  BY <1>2, LeaseExpiresPreserves
<1>3. ASSUME NEW s \in Slot, Commit(s) PROVE IInv'
  BY <1>3, ClaimCommitPreserves, ManifestCommitPreserves, HeartbeatCommitPreserves,
     CompleteCommitPreserves, FailCommitPreserves, CancelCommitPreserves DEF Commit
<1>4. ASSUME NEW s \in Slot, Abort(s) PROVE IInv'
  BY <1>4, DonePreserves DEF Abort
<1>5. ASSUME NEW s \in Slot, NEW t \in Task, CancelRead(s, t) PROVE IInv'
  BY <1>5, StartPreserves DEF CancelRead
<1>6. ASSUME NEW s \in Slot, NEW w \in Worker, NEW t \in Task, ClaimLock(s, w, t) PROVE IInv'
  BY <1>6, StartPreserves DEF ClaimLock
<1>7. ASSUME NEW s \in Slot, NEW w \in Worker, NEW t \in Task, HeartbeatRead(s, w, t) PROVE IInv'
  BY <1>7, StartPreserves DEF HeartbeatRead
<1>8. ASSUME NEW s \in Slot, NEW w \in Worker, NEW t \in Task, FailRead(s, w, t) PROVE IInv'
  BY <1>8, StartPreserves DEF FailRead
<1>9. ASSUME NEW s \in Slot, NEW w \in Worker, NEW t \in Task, NEW paths \in SUBSET Path,
             ManifestRead(s, w, t, paths)
      PROVE  IInv'
  BY <1>9, StartPreserves DEF ManifestRead
<1>10. ASSUME NEW s \in Slot, NEW w \in Worker, NEW t \in Task, NEW paths \in SUBSET Path,
              CompleteRead(s, w, t, paths)
       PROVE  IInv'
  BY <1>10, StartPreserves DEF CompleteRead
<1>11. ASSUME NEW w \in Worker, NEW t \in Task, ToldGone(w, t) PROVE IInv'
  BY <1>11, QuietPreserves DEF ToldGone, Forget, IInv, TypeOK
<1>12. ASSUME NEW w \in Worker, WorkerStops(w) PROVE IInv'
  BY <1>12, QuietPreserves DEF WorkerStops, IInv, TypeOK
<1>13. ASSUME Reap PROVE IInv'
  BY <1>13, ReapPreserves
<1>14. ASSUME UNCHANGED vars PROVE IInv'
  BY <1>14, QuietPreserves DEF vars, IInv, TypeOK
<1> QED
  BY <1>1, <1>2, <1>3, <1>4, <1>5, <1>6, <1>7, <1>8, <1>9, <1>10, <1>11, <1>12, <1>13, <1>14
     DEF Next

LEMMA Inductive == Spec => []IInv
BY InitIInv, NextIInv, PTL DEF Spec

(* The state keeps its shape.                                              *)
THEOREM TypeCorrect == Spec => []TypeOK
BY Inductive, PTL DEF IInv

(* A queued row is free to take and an assigned row is owned and leased,   *)
(* however late the handlers' writes arrive.                               *)
THEOREM OwnershipConsistency == Spec => []OwnershipConsistent
BY Inductive, PTL DEF IInv

(* claim_task is atomic: its row stays as it read it until it commits, and *)
(* no other claim takes it meanwhile.                                      *)
THEOREM ClaimAtomicity == Spec => []ClaimAtomic
<1>1. IInv => ClaimAtomic
  BY DEF IInv, ClaimSound, ClaimAtomic
<1> QED
  BY <1>1, Inductive, PTL

(* No task is given up before it was claimed MaxAttempts times.            *)
THEOREM FailedOnlyExhausted == Spec => []FailedExhausted
BY Inductive, PTL DEF IInv

-----------------------------------------------------------------------------
(* The two kinds of steps: a claim, and those that at most take tasks from *)
(* their workers.                                                          *)
Settles ==
  \A t \in Task : /\ rows'[t].attempts = rows[t].attempts
                  /\ rows'[t].worker \in {rows[t].worker, None}

LEMMA StatusSettles ==
  ASSUME IInv, NEW t \in Task, NEW old \in Row, NEW x \in Status,
         rows' = Flush(t, old, [old EXCEPT !.status = x])
  PROVE  Settles
<1>1. rows \in [Task -> Row]
  BY DEF IInv, TypeOK
<1>2. rows' = [rows EXCEPT ![t] = [rows[t] EXCEPT !.status = Merge(@, old.status, x)]]
  BY <1>1, FlushStatus
<1> QED
  BY <1>1, <1>2 DEF Settles, Row

LEMMA CommitSettles ==
  ASSUME IInv, NEW s \in Slot, Commit(s), \A d \in BOOLEAN : ~ClaimCommit(s, d)
  PROVE  Settles
<1>1. CASE ManifestCommit(s)
  <2>1. reqs[s].task \in Task /\ reqs[s].seen \in Row /\ "downloading" \in Status
    BY <1>1, RequestShape DEF ManifestCommit, InFlight, IInv, Status, Active
  <2> QED
    BY <1>1, <2>1, StatusSettles DEF ManifestCommit, Settles
<1>2. CASE HeartbeatCommit(s)
  BY <1>2 DEF HeartbeatCommit, Settles, IInv, TypeOK, Row
<1>3. CASE CompleteCommit(s)
  <2>1. reqs[s].task \in Task /\ reqs[s].seen \in Row /\ "completed" \in Status
    BY <1>3, RequestShape DEF CompleteCommit, InFlight, IInv, Status
  <2> QED
    BY <1>3, <2>1, StatusSettles DEF CompleteCommit
<1>4. CASE FailCommit(s)
  <2> DEFINE t == reqs[s].task
             seen == reqs[s].seen
             new == AfterFail(seen)
             f == Flush(t, seen, new)
  <2>1. t \in Task /\ seen \in Row /\ rows \in [Task -> Row]
    BY <1>4, RequestShape DEF FailCommit, InFlight, IInv, TypeOK
  <2>2. new \in Row /\ new.attempts = seen.attempts /\ new.worker \in {seen.worker, None}
    BY <2>1 DEF AfterFail, Row, Status
  <2> HIDE DEF new
  <2>3. /\ \A u \in Task : u # t => f[u] = rows[u]
        /\ f[t] = [status   |-> Merge(rows[t].status, seen.status, new.status),
                   worker   |-> Merge(rows[t].worker, seen.worker, new.worker),
                   attempts |-> Merge(rows[t].attempts, seen.attempts, new.attempts),
                   lease    |-> Merge(rows[t].lease, seen.lease, new.lease)]
    BY <2>1, <2>2, FlushRow
  <2>4. rows' = f
    BY <1>4 DEF FailCommit, new
  <2> HIDE DEF f
  <2> QED
    BY <2>1, <2>2, <2>3, <2>4 DEF Settles, Merge
<1>5. CASE CancelCommit(s)
  <2>1. reqs[s].task \in Task /\ reqs[s].seen \in Row /\ "canceled" \in Status
    BY <1>5, RequestShape DEF CancelCommit, InFlight, IInv, Status
  <2> QED
    BY <1>5, <2>1, StatusSettles DEF CancelCommit
<1> QED
  BY <1>1, <1>2, <1>3, <1>4, <1>5 DEF Commit

LEMMA StepKinds ==
  ASSUME IInv, [Next]_vars
  PROVE  Settles \/ \E s \in Slot, d \in BOOLEAN : ClaimCommit(s, d)
<1>1. ASSUME NEW t \in Task, CreateTask(t) PROVE Settles
  BY <1>1 DEF CreateTask, Settles, IInv, TypeOK, AbsentBlank, NoRow
<1>2. ASSUME NEW t \in Task, LeaseExpires(t) PROVE Settles
  BY <1>2 DEF LeaseExpires, Settles, IInv, TypeOK, Row
<1>3. ASSUME NEW s \in Slot, Commit(s)
      PROVE  Settles \/ \E d \in BOOLEAN : ClaimCommit(s, d)
  BY <1>3, CommitSettles
<1>4. ASSUME Reap PROVE Settles
  BY <1>4, ReapedRow DEF Reap, Settles, IInv, TypeOK
<1>5. ASSUME UNCHANGED rows PROVE Settles
  BY <1>5 DEF Settles
<1>6. ASSUME NEW s \in Slot, Abort(s) PROVE UNCHANGED rows
  BY <1>6 DEF Abort
<1>7. ASSUME NEW s \in Slot, NEW t \in Task, CancelRead(s, t) PROVE UNCHANGED rows
  BY <1>7 DEF CancelRead
<1>8. ASSUME NEW s \in Slot, NEW w \in Worker, NEW t \in Task,
             \/ ClaimLock(s, w, t)
             \/ HeartbeatRead(s, w, t)
             \/ FailRead(s, w, t)
             \/ \E paths \in SUBSET Path : ManifestRead(s, w, t, paths) \/ CompleteRead(s, w, t, paths)
      PROVE  UNCHANGED rows
  BY <1>8 DEF ClaimLock, HeartbeatRead, FailRead, ManifestRead, CompleteRead
<1>9. ASSUME NEW w \in Worker, WorkerStops(w) \/ \E t \in Task : ToldGone(w, t)
      PROVE  UNCHANGED rows
  BY <1>9 DEF WorkerStops, ToldGone
<1>10. ASSUME UNCHANGED vars PROVE UNCHANGED rows
  BY <1>10 DEF vars
<1> HIDE DEF Settles
<1> QED
  BY <1>1, <1>2, <1>3, <1>4, <1>5, <1>6, <1>7, <1>8, <1>9, <1>10 DEF Next

(* A task never passes from one worker straight to another.                *)
THEOREM NoStealingHolds == Spec => NoStealing
<1>1. IInv /\ [Next]_vars =>
        [\A t \in Task : rows'[t].worker # rows[t].worker =>
                          None \in {rows[t].worker, rows'[t].worker}]_vars
  <2> SUFFICES ASSUME IInv, [Next]_vars, NEW t \in Task, rows'[t].worker # rows[t].worker
               PROVE  None \in {rows[t].worker, rows'[t].worker}
    OBVIOUS
  <2>1. CASE Settles
    BY <2>1 DEF Settles
  <2>2. ASSUME NEW s \in Slot, NEW d \in BOOLEAN, ClaimCommit(s, d)
        PROVE  None \in {rows[t].worker, rows'[t].worker}
    BY <2>2, ClaimCommitRows
  <2> QED
    BY <2>1, <2>2, StepKinds
<1> QED
  BY <1>1, Inductive, PTL DEF Spec, NoStealing

-----------------------------------------------------------------------------
(* A claim is a grant, every other step settles or does not touch what the *)
(* queue promises about.                                                   *)
LEMMA ClaimGrants ==
  ASSUME IInv, NEW s \in Slot, NEW d \in BOOLEAN, ClaimCommit(s, d)
  PROVE  Ownership!ONext
<1>1. PICK t \in Task, w \in Worker :
        /\ rows[t].status = "queued"
        /\ rows[t].worker = None
        /\ \A u \in Task : u # t => rows'[u] = rows[u]
        /\ rows'[t].status = "assigned"
        /\ rows'[t].worker = w
        /\ rows'[t].attempts = rows[t].attempts + 1
  BY ClaimCommitRows
<1>2. Ownership!Grant(t, w)
  BY <1>1 DEF Ownership!Grant
<1> QED
  BY <1>2 DEF Ownership!ONext

LEMMA SettlesSettle ==
  ASSUME IInv, IInv', Settles
  PROVE  Ownership!ONext
<1>1. PICK released \in SUBSET Task : released = {t \in Task : rows'[t].worker = None}
  OBVIOUS
<1>2. [t \in Task |-> rows'[t].worker] =
        [t \in Task |-> IF t \in released THEN None ELSE [u \in Task |-> rows[u].worker][t]]
  BY <1>1 DEF Settles
<1>3. [t \in Task |-> rows'[t].attempts] = [t \in Task |-> rows[t].attempts]
  BY DEF Settles
<1>4. \A t \in Task : rows'[t].status = "failed" => rows[t].attempts >= MaxAttempts
  BY DEF IInv, FailedExhausted, Settles
<1>5. Ownership!Settle(released)
  BY <1>2, <1>3, <1>4 DEF Ownership!Settle
<1> QED
  BY <1>5 DEF Ownership!ONext

(* The queue implements TaskOwnership.                                     *)
THEOREM ImplementsOwnership == Spec => OwnershipRefined
<1>1. Init => Ownership!OInit
  BY DEF Init, Ownership!OInit, NoRow
<1>2. IInv /\ [Next]_vars =>
        [Ownership!ONext]_<<[t \in Task |-> rows[t].worker], [t \in Task |-> rows[t].attempts],
                            {t \in Task : rows[t].status = "failed"}>>
  BY StepKinds, NextIInv, ClaimGrants, SettlesSettle
<1> QED
  BY <1>1, <1>2, Inductive, PTL DEF Spec, OwnershipRefined, Ownership!OSpec

-----------------------------------------------------------------------------
(* The fails that can put a task back although its attempts are used up:   *)
(* they read the row before.                                               *)
Stale(t) ==
  {s \in Slot : InFlight(s, "fail") /\ reqs[s].task = t /\ reqs[s].seen.attempts < MaxAttempts}

Reopened(t) == IF rows[t].status = "queued" THEN 1 ELSE 0

(* Every stale fail is good for one more attempt, and the claim that uses  *)
(* up the attempts takes a slot that none of them has.                     *)
Spare ==
  \A t \in Task : rows[t].attempts >= MaxAttempts =>
    rows[t].attempts + Cardinality(Stale(t)) + Reopened(t) < MaxAttempts + Cardinality(Slot)

LEMMA StaleFinite ==
  ASSUME IsFiniteSet(Slot), NEW t
  PROVE  /\ Cardinality(Slot) \in Nat
         /\ Stale(t) \subseteq Slot
         /\ IsFiniteSet(Stale(t)) /\ Cardinality(Stale(t)) \in Nat
<1>1. Stale(t) \in SUBSET Slot
  BY DEF Stale
<1> QED
  BY <1>1, FS_Subset, FS_CardinalityType

(* A step that counts no attempt: of a task that used up its attempts no   *)
(* fail becomes stale, and if the task is queued anew one stale fail ended.*)
LEMMA SpareStep ==
  ASSUME IsFiniteSet(Slot), IInv, Spare,
         \A t \in Task : rows'[t].attempts = rows[t].attempts,
         \A t \in Task : rows[t].attempts >= MaxAttempts =>
           /\ Stale(t)' \subseteq Stale(t)
           /\ rows'[t].status = "queued" =>
                rows[t].status = "queued" \/ Stale(t)' # Stale(t)
  PROVE  Spare'
<1> SUFFICES ASSUME NEW t \in Task, rows[t].attempts >= MaxAttempts
             PROVE  rows[t].attempts + Cardinality(Stale(t)') + Reopened(t)'
                      < MaxAttempts + Cardinality(Slot)
  BY DEF Spare
<1> DEFINE old == Stale(t)
           new == Stale(t)'
<1>1. new \in SUBSET old /\ (rows'[t].status = "queued" => rows[t].status = "queued" \/ new # old)
  OBVIOUS
<1>2. IsFiniteSet(old) /\ Cardinality(old) \in Nat /\ Cardinality(Slot) \in Nat
  BY StaleFinite
<1>3. rows[t].attempts \in Nat
  BY DEF IInv, TypeOK, Row
<1>4. rows[t].attempts + Cardinality(old) + Reopened(t) < MaxAttempts + Cardinality(Slot)
  BY DEF Spare
<1> HIDE DEF old, new
<1>5. /\ Cardinality(new) \in Nat
      /\ Cardinality(new) <= Cardinality(old)
      /\ Cardinality(new) = Cardinality(old) => new = old
  BY <1>1, <1>2, FS_Subset, FS_CardinalityType
<1>6. Cardinality(new) + Reopened(t)' <= Cardinality(old) + Reopened(t)
  BY <1>1, <1>2, <1>5 DEF Reopened
<1>7. Reopened(t) \in Nat /\ Reopened(t)' \in Nat
  BY DEF Reopened
<1> QED
  BY <1>2, <1>3, <1>4, <1>5, <1>6, <1>7, QueueAssumption DEF new

(* Requests that end or stay, and other requests than fails, are not stale.*)
LEMMA StaleShrinks ==
  ASSUME NEW t, \A r \in Slot : reqs'[r] = reqs[r] \/ reqs'[r].op # "fail"
  PROVE  Stale(t)' \subseteq Stale(t)
BY DEF Stale, InFlight

LEMMA SpareClaim ==
  ASSUME IsFiniteSet(Slot), IInv, Spare, NEW s \in Slot, NEW d \in BOOLEAN, ClaimCommit(s, d)
  PROVE  Spare'
<1> DEFINE t == reqs[s].task
<1>1. /\ t \in Task
      /\ rows[t].status = "queued"
      /\ \A u \in Task : u # t => rows'[u] = rows[u]
      /\ rows'[t].status = "assigned"
      /\ rows'[t].attempts = rows[t].attempts + 1
  BY ClaimCommitRows
<1>2. /\ \A r \in Slot : r # s => reqs'[r] = reqs[r]
      /\ reqs'[s].op = "idle"
  BY DoneShape DEF ClaimCommit, IInv
<1> SUFFICES ASSUME NEW u \in Task, rows'[u].attempts >= MaxAttempts
             PROVE  rows'[u].attempts + Cardinality(Stale(u)') + Reopened(u)'
                      < MaxAttempts + Cardinality(Slot)
  BY DEF Spare
<1> DEFINE old == Stale(u)
           new == Stale(u)'
<1>3. new \in SUBSET old
  BY <1>2, StaleShrinks
<1>4. /\ IsFiniteSet(old) /\ Cardinality(old) \in Nat /\ Cardinality(Slot) \in Nat
      /\ rows[u].attempts \in Nat
  BY StaleFinite DEF IInv, TypeOK, Row
<1>5. rows[u].attempts >= MaxAttempts =>
        rows[u].attempts + Cardinality(old) + Reopened(u) < MaxAttempts + Cardinality(Slot)
  BY DEF Spare
<1>6. new \in SUBSET (Slot \ {s})
  BY <1>2 DEF Stale, InFlight
<1> HIDE DEF old, new
<1>7. /\ Cardinality(new) \in Nat
      /\ Cardinality(new) <= Cardinality(old)
      /\ Cardinality(new) < Cardinality(Slot)
  <2>1. Cardinality(new) \in Nat /\ Cardinality(new) <= Cardinality(old)
    BY <1>3, <1>4, FS_Subset, FS_CardinalityType
  <2>2. IsFiniteSet(Slot \ {s}) /\ Cardinality(Slot \ {s}) = Cardinality(Slot) - 1
    BY FS_RemoveElement
  <2>3. Cardinality(new) <= Cardinality(Slot \ {s})
    BY <1>6, <2>2, FS_Subset
  <2> QED
    BY <1>4, <2>1, <2>2, <2>3
<1>8. CASE u = t
  <2>1. Reopened(u) = 1 /\ Reopened(u)' = 0 /\ rows'[u].attempts = rows[u].attempts + 1
    BY <1>1, <1>8 DEF Reopened
  <2>2. rows'[u].attempts + Cardinality(new) < MaxAttempts + Cardinality(Slot)
    BY <1>4, <1>5, <1>7, <2>1, QueueAssumption
  <2> QED
    BY <1>4, <1>7, <2>1, <2>2 DEF new
<1>9. CASE u # t
  <2>1. rows'[u] = rows[u] /\ Reopened(u)' = Reopened(u) /\ Reopened(u) \in Nat
    BY <1>1, <1>9 DEF Reopened
  <2>2. rows[u].attempts + Cardinality(new) + Reopened(u) < MaxAttempts + Cardinality(Slot)
    BY <1>4, <1>5, <1>7, <2>1, QueueAssumption
  <2> QED
    BY <2>1, <2>2 DEF new
<1> QED
  BY <1>8, <1>9

(* Writing back another status: the row has it or the one it had.          *)
LEMMA WrittenStatus ==
  ASSUME rows \in [Task -> Row], NEW t \in Task, NEW old \in Row, NEW x \in Status,
         rows' = Flush(t, old, [old EXCEPT !.status = x])
  PROVE  /\ rows'[t].status \in {rows[t].status, x}
         /\ \A u \in Task : u # t => rows'[u] = rows[u]
<1> DEFINE z == Merge(rows[t].status, old.status, x)
<1>1. rows' = [rows EXCEPT ![t] = [rows[t] EXCEPT !.status = z]]
  BY FlushStatus
<1>2. z \in {rows[t].status, x}
  BY DEF Merge
<1> HIDE DEF z
<1> QED
  BY <1>1, <1>2 DEF Row

(* So it puts no task back.                                                *)
LEMMA StatusReopensNone ==
  ASSUME IInv, NEW t \in Task, NEW old \in Row, NEW x \in {"canceled", "downloading", "completed"},
         rows' = Flush(t, old, [old EXCEPT !.status = x]), NEW u \in Task, rows'[u].status = "queued"
  PROVE  rows[u].status = "queued"
<1>1. rows \in [Task -> Row] /\ x \in Status
  BY DEF IInv, TypeOK, Status, Active
<1> QED
  BY <1>1, WrittenStatus

LEMMA FailReopens ==
  ASSUME IInv, NEW s \in Slot, FailCommit(s), NEW u \in Task, rows'[u].status = "queued"
  PROVE  rows[u].status = "queued" \/ s \in Stale(u)
<1> DEFINE t == reqs[s].task
           seen == reqs[s].seen
           new == AfterFail(seen)
           f == Flush(t, seen, new)
<1>1. t \in Task /\ seen \in Row /\ rows \in [Task -> Row]
  BY RequestShape DEF FailCommit, InFlight, IInv, TypeOK
<1>2. new \in Row /\ (new.status = "queued" <=> seen.attempts < MaxAttempts)
  BY <1>1 DEF AfterFail, Row, Status
<1>3. InFlight(s, "fail") /\ rows' = f
  BY DEF FailCommit
<1> HIDE DEF new
<1>4. /\ \A v \in Task : v # t => f[v] = rows[v]
      /\ f[t] = [status   |-> Merge(rows[t].status, seen.status, new.status),
                 worker   |-> Merge(rows[t].worker, seen.worker, new.worker),
                 attempts |-> Merge(rows[t].attempts, seen.attempts, new.attempts),
                 lease    |-> Merge(rows[t].lease, seen.lease, new.lease)]
  BY <1>1, <1>2, FlushRow
<1> HIDE DEF f
<1>5. CASE u = t
  <2>1. rows'[u].status \in {rows[u].status, new.status}
    BY <1>3, <1>4, <1>5 DEF Merge
  <2> QED
    BY <1>2, <1>3, <1>5, <2>1 DEF Stale
<1>6. CASE u # t
  BY <1>3, <1>4, <1>6
<1> QED
  BY <1>5, <1>6

LEMMA SpareCommit ==
  ASSUME IsFiniteSet(Slot), IInv, Spare, NEW s \in Slot, Commit(s)
  PROVE  Spare'
<1>1. ASSUME NEW d \in BOOLEAN, ClaimCommit(s, d) PROVE Spare'
  BY <1>1, SpareClaim
<1>2. CASE \A d \in BOOLEAN : ~ClaimCommit(s, d)
  <2>1. \A t \in Task : rows'[t].attempts = rows[t].attempts
    BY <1>2, CommitSettles DEF Settles
  <2>2. Done(s)
    BY <1>2 DEF Commit, ManifestCommit, HeartbeatCommit, CompleteCommit, FailCommit, CancelCommit
  <2>3. \A r \in Slot : reqs'[r] = reqs[r] \/ reqs'[r].op # "fail"
    BY <2>2, DoneShape DEF IInv
  <2>4. \A u \in Task : Stale(u)' \subseteq Stale(u)
    BY <2>3, StaleShrinks
  <2>5. \A u \in Task : s \notin Stale(u)'
    BY <2>2, DoneShape DEF IInv, Stale, InFlight
  <2>6. ASSUME InFlight(s, "manifest") \/ InFlight(s, "complete") \/ InFlight(s, "cancel")
        PROVE  reqs[s].task \in Task /\ reqs[s].seen \in Row
    BY <2>6, RequestShape DEF InFlight, IInv
  <2>7. ASSUME NEW u \in Task, rows'[u].status = "queued"
        PROVE  rows[u].status = "queued" \/ s \in Stale(u)
    <3>1. CASE ManifestCommit(s)
      BY <2>6, <2>7, <3>1, StatusReopensNone DEF ManifestCommit
    <3>2. CASE HeartbeatCommit(s)
      BY <2>7, <3>2 DEF HeartbeatCommit, IInv, TypeOK, Row
    <3>3. CASE CompleteCommit(s)
      BY <2>6, <2>7, <3>3, StatusReopensNone DEF CompleteCommit
    <3>4. CASE FailCommit(s)
      BY <2>7, <3>4, FailReopens
    <3>5. CASE CancelCommit(s)
      BY <2>6, <2>7, <3>5, StatusReopensNone DEF CancelCommit
    <3> QED
      BY <1>2, <3>1, <3>2, <3>3, <3>4, <3>5 DEF Commit
  <2> QED
    BY <2>1, <2>4, <2>5, <2>7, SpareStep
<1> QED
  BY <1>1, <1>2

(* A fail that starts when the attempts are used up reads that they are.   *)
LEMMA SpareStart ==
  ASSUME IsFiniteSet(Slot), IInv, Spare, NEW s \in Slot,
         NEW op \in {"claim", "manifest", "heartbeat", "complete", "fail", "cancel"},
         NEW w \in Worker \cup {None}, NEW t \in Task, NEW paths \in SUBSET Path,
         Start(s, op, w, t, paths), rows' = rows
  PROVE  Spare'
<1>1. /\ \A r \in Slot : r # s => reqs'[r] = reqs[r]
      /\ reqs'[s] = [op |-> op, by |-> w, task |-> t, seen |-> rows[t], paths |-> paths]
  BY StartShape DEF IInv
<1>2. \A u \in Task : rows[u].attempts \in Nat
  BY DEF IInv, TypeOK, Row
<1>3. ASSUME NEW u \in Task, rows[u].attempts >= MaxAttempts, NEW r \in Stale(u)'
      PROVE  r \in Stale(u)
  <2>1. r \in Slot /\ reqs'[r].op = "fail" /\ reqs'[r].task = u /\ reqs'[r].seen.attempts < MaxAttempts
    BY <1>3 DEF Stale, InFlight
  <2>2. r # s
    BY <1>1, <1>2, <1>3, <2>1, QueueAssumption
  <2> QED
    BY <1>1, <2>1, <2>2 DEF Stale, InFlight
<1> QED
  BY <1>3, SpareStep

LEMMA NextSpare ==
  ASSUME IsFiniteSet(Slot)
  PROVE  IInv /\ Spare /\ [Next]_vars => Spare'
<1> SUFFICES ASSUME IInv, Spare, [Next]_vars PROVE Spare'
  OBVIOUS
<1>1. ASSUME \A r \in Slot : reqs'[r] = reqs[r] \/ reqs'[r].op # "fail",
             \A t \in Task : rows'[t].attempts = rows[t].attempts,
             \A t \in Task : rows'[t].status = "queued" =>
               rows[t].status = "queued" \/ rows[t].attempts < MaxAttempts
      PROVE  Spare'
  <2>1. \A t \in Task : rows[t].attempts \in Nat
    BY DEF IInv, TypeOK, Row
  <2>2. \A t \in Task : Stale(t)' \subseteq Stale(t)
    BY <1>1, StaleShrinks
  <2> QED
    BY <1>1, <2>1, <2>2, SpareStep, QueueAssumption
<1>2. ASSUME NEW t \in Task, CreateTask(t) PROVE Spare'
  <2>1. \A u \in Task : rows'[u] = IF u = t THEN [NoRow EXCEPT !.status = "queued"] ELSE rows[u]
    BY <1>2 DEF CreateTask, IInv, TypeOK
  <2>2. rows[t].attempts = 0 /\ rows'[t].attempts = 0
    BY <1>2, <2>1 DEF CreateTask, IInv, AbsentBlank, NoRow
  <2>3. reqs' = reqs
    BY <1>2 DEF CreateTask
  <2> QED
    BY <1>1, <2>1, <2>2, <2>3, QueueAssumption
<1>3. ASSUME NEW t \in Task, LeaseExpires(t) PROVE Spare'
  <2>1. \A u \in Task : rows'[u].attempts = rows[u].attempts /\ rows'[u].status = rows[u].status
    BY <1>3 DEF LeaseExpires, IInv, TypeOK, Row
  <2> QED
    BY <1>1, <1>3, <2>1 DEF LeaseExpires
<1>4. ASSUME NEW s \in Slot, Commit(s) PROVE Spare'
  BY <1>4, SpareCommit
<1>5. ASSUME NEW s \in Slot, Abort(s) PROVE Spare'
  BY <1>1, <1>5, DoneShape DEF Abort, IInv
<1>6. ASSUME NEW s \in Slot, NEW t \in Task, CancelRead(s, t) PROVE Spare'
  BY <1>6, SpareStart DEF CancelRead
<1>7. ASSUME NEW s \in Slot, NEW w \in Worker, NEW t \in Task,
             ClaimLock(s, w, t) \/ HeartbeatRead(s, w, t) \/ FailRead(s, w, t)
      PROVE  Spare'
  BY <1>7, SpareStart DEF ClaimLock, HeartbeatRead, FailRead
<1>8. ASSUME NEW s \in Slot, NEW w \in Worker, NEW t \in Task, NEW paths \in SUBSET Path,
             ManifestRead(s, w, t, paths)
      PROVE  Spare'
  BY <1>8, SpareStart DEF ManifestRead
<1>9. ASSUME NEW s \in Slot, NEW w \in Worker, NEW t \in Task, NEW paths \in SUBSET Path,
             CompleteRead(s, w, t, paths)
      PROVE  Spare'
  BY <1>9, SpareStart DEF CompleteRead
<1>10. ASSUME UNCHANGED <<rows, reqs>> PROVE Spare'
  BY <1>1, <1>10
<1>11. ASSUME NEW w \in Worker, WorkerStops(w) \/ \E t \in Task : ToldGone(w, t) PROVE Spare'
  BY <1>10, <1>11 DEF WorkerStops, ToldGone
<1>12. ASSUME Reap PROVE Spare'
  <2>1. \A t \in Task : rows[t] \in Row /\ rows'[t] = GivenUp(Reclaimed(rows[t]))
    BY <1>12 DEF Reap, IInv, TypeOK
  <2>2. ASSUME NEW r \in Row, GivenUp(Reclaimed(r)).status = "queued"
        PROVE  r.attempts < MaxAttempts
    <3> DEFINE x == Reclaimed(r)
    <3>1. x.attempts = r.attempts /\ x \in Row
      BY DEF Reclaimed, Row, Status
    <3>2. GivenUp(x).status = "queued"
      BY <2>2
    <3> HIDE DEF x
    <3>3. ~(x.attempts >= MaxAttempts)
      <4> SUFFICES ASSUME x.attempts >= MaxAttempts PROVE FALSE
        OBVIOUS
      <4>1. CASE x.status = "queued"
        BY <3>1, <3>2, <4>1 DEF GivenUp, Row
      <4>2. CASE x.status # "queued"
        BY <3>2, <4>2 DEF GivenUp
      <4> QED
        BY <4>1, <4>2
    <3> QED
      BY <3>1, <3>3, QueueAssumption DEF Row
  <2>3. \A t \in Task : rows'[t].attempts = rows[t].attempts
    BY <2>1, ReapedRow
  <2> QED
    BY <1>1, <1>12, <2>1, <2>2, <2>3 DEF Reap
<1>13. ASSUME UNCHANGED vars PROVE Spare'
  BY <1>10, <1>13 DEF vars
<1> QED
  BY <1>2, <1>3, <1>4, <1>5, <1>6, <1>7, <1>8, <1>9, <1>11, <1>12, <1>13 DEF Next

(* Whatever the workers do, a task is tried fewer than max_attempts times  *)
(* and once more for each request served at the same time.                 *)
THEOREM AttemptsNearlyWithinMax ==
  ASSUME IsFiniteSet(Slot)
  PROVE  Spec => []AttemptsNearlyBounded
<1>1. Init => Spare
  BY QueueAssumption DEF Init, Spare, NoRow
<1>2. IInv /\ Spare /\ [Next]_vars => Spare'
  BY NextSpare
<1>3. IInv /\ Spare => AttemptsNearlyBounded
  <2> SUFFICES ASSUME IInv, Spare, NEW t \in Task
               PROVE  rows[t].attempts < MaxAttempts + Cardinality(Slot)
    BY DEF AttemptsNearlyBounded
  <2>1. Cardinality(Slot) \in Nat /\ Cardinality(Stale(t)) \in Nat /\ rows[t].attempts \in Nat
    BY StaleFinite DEF IInv, TypeOK, Row
  <2>2. Reopened(t) \in Nat
    BY DEF Reopened
  <2> QED
    BY <2>1, <2>2, QueueAssumption DEF Spare
<1> QED
  BY <1>1, <1>2, <1>3, Inductive, PTL DEF Spec

-----------------------------------------------------------------------------
(* What the user sees follows the tasks, since whoever reports on a task   *)
(* reports on one that exists.                                             *)
Shelf ==
  /\ LibraryFollowsTasks
  /\ \A w \in Worker : \A t \in handed[w] : rows[t].status # "absent"
  /\ \A s \in Slot : reqs[s].op # "idle" => rows[reqs[s].task].status # "absent"

(* What every step keeps: no row and no item goes away, a new row comes    *)
(* with its item, a completed one with an item that is ready.              *)
LEMMA ShelfStep ==
  ASSUME IInv, Shelf, IInv',
         \A t \in Task : rows[t].status # "absent" => rows'[t].status # "absent",
         \A t \in Task : rows'[t].status # "absent" =>
           rows[t].status # "absent" \/ library'[Title[t]] # "absent",
         \A t \in Task : rows'[t].status = "completed" =>
           rows[t].status = "completed" \/ library'[Title[t]] = "ready",
         \A x \in Titles : /\ library[x] # "absent" => library'[x] # "absent"
                           /\ library[x] = "ready" => library'[x] = "ready",
         \A s \in Slot : \/ reqs'[s] = reqs[s]
                         \/ reqs'[s].op = "idle"
                         \/ rows'[reqs'[s].task].status # "absent",
         \A w \in Worker : \A t \in handed'[w] : t \in handed[w] \/ rows'[t].status # "absent"
  PROVE  Shelf'
<1>1. \A t \in Task : Title[t] \in Titles
  BY DEF Titles
<1>2. LibraryFollowsTasks'
  BY <1>1 DEF Shelf, LibraryFollowsTasks
<1>3. \A w \in Worker : \A t \in handed'[w] : t \in Task
  BY DEF IInv, TypeOK
<1>4. \A s \in Slot : reqs[s].op # "idle" => reqs[s].task \in Task
  BY RequestShape DEF IInv
<1> QED
  BY <1>2, <1>3, <1>4 DEF Shelf

(* The start of a request on a row that exists.                            *)
LEMMA ShelfStart ==
  ASSUME IInv, Shelf, IInv', NEW s \in Slot,
         NEW op \in {"claim", "manifest", "heartbeat", "complete", "fail", "cancel"},
         NEW w \in Worker \cup {None}, NEW t \in Task, NEW paths \in SUBSET Path,
         Start(s, op, w, t, paths), UNCHANGED <<rows, files, library, handed, stopped>>,
         rows[t].status # "absent"
  PROVE  Shelf'
<1>1. /\ \A r \in Slot : r # s => reqs'[r] = reqs[r]
      /\ reqs'[s] = [op |-> op, by |-> w, task |-> t, seen |-> rows[t], paths |-> paths]
  BY StartShape DEF IInv
<1> QED
  BY <1>1, ShelfStep

(* A request that ends, whatever it writes of a row that exists.           *)
LEMMA ShelfEnd ==
  ASSUME IInv, Shelf, IInv', NEW s \in Slot, reqs[s].op # "idle", Done(s),
         \A u \in Task : u # reqs[s].task => rows'[u] = rows[u],
         rows'[reqs[s].task].status # "absent",
         rows'[reqs[s].task].status = "completed" =>
           rows[reqs[s].task].status = "completed" \/ library'[Title[reqs[s].task]] = "ready",
         \A x \in Titles : /\ library[x] # "absent" => library'[x] # "absent"
                           /\ library[x] = "ready" => library'[x] = "ready",
         \A w \in Worker : handed'[w] \subseteq handed[w] \cup {reqs[s].task}
  PROVE  Shelf'
<1> DEFINE t == reqs[s].task
<1>1. t \in Task /\ rows[t].status # "absent"
  BY RequestShape DEF IInv, Shelf
<1>2. \A r \in Slot : reqs'[r] = reqs[r] \/ reqs'[r].op = "idle"
  BY DoneShape DEF IInv
<1>3. \A w \in Worker : \A u \in handed'[w] : u \in handed[w] \/ rows'[u].status # "absent"
  OBVIOUS
<1> HIDE DEF t
<1>4. \A u \in Task : u # t => rows'[u] = rows[u]
  BY DEF t
<1>5. rows'[t].status = "completed" =>
        rows[t].status = "completed" \/ library'[Title[t]] = "ready"
  BY DEF t
<1>6. rows'[t].status # "absent"
  BY DEF t
<1> QED
  BY <1>1, <1>2, <1>3, <1>4, <1>5, <1>6, ShelfStep

(* Of a request that wrote back a status.                                  *)
LEMMA ShelfStatus ==
  ASSUME IInv, Shelf, IInv', NEW s \in Slot, reqs[s].op # "idle", Done(s),
         NEW t \in Task, t = reqs[s].task, NEW old \in Row,
         NEW x \in {"canceled", "downloading", "completed"},
         rows' = Flush(t, old, [old EXCEPT !.status = x]),
         x = "completed" => library'[Title[t]] = "ready",
         \A y \in Titles : /\ library[y] # "absent" => library'[y] # "absent"
                           /\ library[y] = "ready" => library'[y] = "ready",
         \A w \in Worker : handed'[w] \subseteq handed[w]
  PROVE  Shelf'
<1>1. rows \in [Task -> Row] /\ x \in Status
  BY DEF IInv, TypeOK, Status, Active
<1>2. /\ rows'[t].status \in {rows[t].status, x}
      /\ \A u \in Task : u # t => rows'[u] = rows[u]
  BY <1>1, WrittenStatus
<1>3. rows[t].status # "absent"
  BY DEF Shelf
<1> QED
  BY <1>2, <1>3, ShelfEnd

-----------------------------------------------------------------------------
LEMMA ShelfCommit ==
  ASSUME IInv, Shelf, IInv', NEW s \in Slot, Commit(s)
  PROVE  Shelf'
<1> DEFINE t == reqs[s].task
           seen == reqs[s].seen
<1>1. ASSUME NEW d \in BOOLEAN, ClaimCommit(s, d) PROVE Shelf'
  <2>1. /\ t \in Task
        /\ \A u \in Task : u # t => rows'[u] = rows[u]
        /\ rows'[t].status = "assigned"
    BY <1>1, ClaimCommitRows
  <2>2. reqs[s].op # "idle" /\ Done(s) /\ library' = library
    BY <1>1 DEF ClaimCommit, InFlight
  <2>3. \A w \in Worker : handed'[w] \subseteq handed[w] \cup {t}
    BY <1>1 DEF ClaimCommit, IInv, TypeOK
  <2> QED
    BY <2>1, <2>2, <2>3, ShelfEnd
<1>2. CASE ManifestCommit(s)
  <2>1. reqs[s].op # "idle" /\ Done(s) /\ UNCHANGED <<library, handed, stopped>>
    BY <1>2 DEF ManifestCommit, InFlight
  <2>2. CASE rows' = rows
    BY <2>1, <2>2, ShelfEnd DEF Shelf
  <2>3. CASE rows' # rows
    <3>1. rows' = Flush(t, seen, [seen EXCEPT !.status = "downloading"])
      BY <1>2, <2>3 DEF ManifestCommit
    <3>2. t \in Task /\ seen \in Row
      BY <2>1, RequestShape DEF IInv
    <3> QED
      BY <2>1, <3>1, <3>2, ShelfStatus
  <2> QED
    BY <2>2, <2>3
<1>3. CASE HeartbeatCommit(s)
  <2>1. t \in Task /\ rows[t] \in Row /\ rows \in [Task -> Row]
    BY <1>3, RequestShape DEF HeartbeatCommit, InFlight, IInv, TypeOK
  <2>2. reqs[s].op # "idle" /\ Done(s) /\ UNCHANGED <<library, handed>>
    BY <1>3 DEF HeartbeatCommit, InFlight
  <2>3. rows'[t].status = rows[t].status /\ \A u \in Task : u # t => rows'[u] = rows[u]
    BY <1>3, <2>1 DEF HeartbeatCommit, Row
  <2> QED
    BY <2>2, <2>3, ShelfEnd DEF Shelf
<1>4. CASE CompleteCommit(s)
  <2>1. /\ reqs[s].op # "idle" /\ Done(s)
        /\ t \in Task /\ seen \in Row /\ rows[t].status # "absent"
    BY <1>4, RequestShape DEF CompleteCommit, InFlight, IInv, Shelf
  <2>2. rows' = Flush(t, seen, [seen EXCEPT !.status = "completed"])
    BY <1>4 DEF CompleteCommit
  <2>3. Title[t] \in Titles /\ library[Title[t]] # "absent"
    BY <2>1 DEF Titles, Shelf, LibraryFollowsTasks
  <2>4. /\ library'[Title[t]] = "ready"
        /\ \A y \in Titles : y # Title[t] => library'[y] = library[y]
    BY <1>4, <2>3 DEF CompleteCommit, IInv, TypeOK
  <2>5. \A w \in Worker : handed'[w] \subseteq handed[w]
    BY <1>4 DEF CompleteCommit, Forget, IInv, TypeOK
  <2>6. \A y \in Titles : /\ library[y] # "absent" => library'[y] # "absent"
                          /\ library[y] = "ready" => library'[y] = "ready"
    BY <2>4
  <2> QED
    BY <2>1, <2>2, <2>4, <2>5, <2>6, ShelfStatus
<1>5. CASE FailCommit(s)
  <2> DEFINE new == AfterFail(seen)
             f == Flush(t, seen, new)
  <2>1. t \in Task /\ seen \in Row /\ rows[t] \in Row /\ rows \in [Task -> Row] /\ reqs[s].op # "idle"
    BY <1>5, RequestShape DEF FailCommit, InFlight, IInv, TypeOK
  <2>2. new \in Row /\ new.status \in {"queued", "failed"}
    BY <2>1 DEF AfterFail, Row, Status
  <2> HIDE DEF new
  <2>3. /\ \A u \in Task : u # t => f[u] = rows[u]
        /\ f[t] = [status   |-> Merge(rows[t].status, seen.status, new.status),
                   worker   |-> Merge(rows[t].worker, seen.worker, new.worker),
                   attempts |-> Merge(rows[t].attempts, seen.attempts, new.attempts),
                   lease    |-> Merge(rows[t].lease, seen.lease, new.lease)]
    BY <2>1, <2>2, FlushRow
  <2>4. rows' = f
    BY <1>5 DEF FailCommit, new
  <2> HIDE DEF f
  <2>5. rows[t].status # "absent" /\ rows'[t].status \in {rows[t].status, "queued", "failed"}
    BY <2>1, <2>2, <2>3, <2>4 DEF Shelf, Merge
  <2>6. Done(s) /\ library' = library /\ \A w \in Worker : handed'[w] \subseteq handed[w]
    BY <1>5 DEF FailCommit, Forget, IInv, TypeOK
  <2> QED
    BY <2>1, <2>3, <2>4, <2>5, <2>6, ShelfEnd
<1>6. CASE CancelCommit(s)
  <2>1. /\ reqs[s].op # "idle" /\ Done(s) /\ UNCHANGED <<library, handed>>
        /\ rows' = Flush(t, seen, [seen EXCEPT !.status = "canceled"])
    BY <1>6 DEF CancelCommit, InFlight
  <2>2. t \in Task /\ seen \in Row
    BY <2>1, RequestShape DEF IInv
  <2> QED
    BY <2>1, <2>2, ShelfStatus
<1> QED
  BY <1>1, <1>2, <1>3, <1>4, <1>5, <1>6 DEF Commit

LEMMA NextShelf == IInv /\ IInv' /\ Shelf /\ [Next]_vars => Shelf'
<1> SUFFICES ASSUME IInv, IInv', Shelf, [Next]_vars PROVE Shelf'
  OBVIOUS
<1>1. ASSUME NEW t \in Task, CreateTask(t) PROVE Shelf'
  <2>1. /\ rows'[t].status = "queued"
        /\ \A u \in Task : u # t => rows'[u] = rows[u]
        /\ Title[t] \in Titles
        /\ library'[Title[t]] = IF library[Title[t]] = "absent" THEN "in_progress" ELSE library[Title[t]]
        /\ \A y \in Titles : y # Title[t] => library'[y] = library[y]
        /\ reqs' = reqs /\ handed' = handed
    BY <1>1 DEF CreateTask, NoRow, IInv, TypeOK, Titles
  <2> QED
    BY <2>1, ShelfStep
<1>2. ASSUME NEW t \in Task, LeaseExpires(t) PROVE Shelf'
  <2>1. /\ \A u \in Task : rows'[u].status = rows[u].status
        /\ reqs' = reqs /\ handed' = handed /\ library' = library
    BY <1>2 DEF LeaseExpires, IInv, TypeOK, Row
  <2> QED
    BY <2>1, ShelfStep
<1>3. ASSUME NEW s \in Slot, Commit(s) PROVE Shelf'
  BY <1>3, ShelfCommit
<1>4. ASSUME NEW s \in Slot, Abort(s) PROVE Shelf'
  <2>1. \A r \in Slot : reqs'[r] = reqs[r] \/ reqs'[r].op = "idle"
    BY <1>4, DoneShape DEF Abort, IInv
  <2> QED
    BY <1>4, <2>1, ShelfStep DEF Abort
<1>5. ASSUME NEW s \in Slot, NEW t \in Task, CancelRead(s, t) PROVE Shelf'
  BY <1>5, ShelfStart DEF CancelRead
<1>6. ASSUME NEW s \in Slot, NEW w \in Worker, NEW t \in Task, ClaimLock(s, w, t) PROVE Shelf'
  BY <1>6, ShelfStart DEF ClaimLock
<1>7. ASSUME NEW s \in Slot, NEW w \in Worker, NEW t \in Task, t \in handed[w] PROVE rows[t].status # "absent"
  BY <1>7 DEF Shelf
<1>8. ASSUME NEW s \in Slot, NEW w \in Worker, NEW t \in Task, HeartbeatRead(s, w, t) PROVE Shelf'
  BY <1>7, <1>8, ShelfStart DEF HeartbeatRead, MaySend
<1>9. ASSUME NEW s \in Slot, NEW w \in Worker, NEW t \in Task, FailRead(s, w, t) PROVE Shelf'
  BY <1>7, <1>9, ShelfStart DEF FailRead, MaySend
<1>10. ASSUME NEW s \in Slot, NEW w \in Worker, NEW t \in Task, NEW paths \in SUBSET Path,
              ManifestRead(s, w, t, paths)
       PROVE  Shelf'
  BY <1>7, <1>10, ShelfStart DEF ManifestRead, MaySend
<1>11. ASSUME NEW s \in Slot, NEW w \in Worker, NEW t \in Task, NEW paths \in SUBSET Path,
              CompleteRead(s, w, t, paths)
       PROVE  Shelf'
  BY <1>7, <1>11, ShelfStart DEF CompleteRead, MaySend
<1>12. ASSUME UNCHANGED <<rows, library, reqs>>, \A w \in Worker : handed'[w] \subseteq handed[w]
       PROVE  Shelf'
  BY <1>12, ShelfStep
<1>13. ASSUME NEW w \in Worker, NEW t \in Task, ToldGone(w, t) PROVE Shelf'
  BY <1>12, <1>13 DEF ToldGone, Forget, IInv, TypeOK
<1>14. ASSUME NEW w \in Worker, WorkerStops(w) PROVE Shelf'
  BY <1>12, <1>14 DEF WorkerStops, IInv, TypeOK
<1>15. ASSUME Reap PROVE Shelf'
  <2>1. \A t \in Task : /\ rows'[t].status \in {rows[t].status, "queued", "failed"}
                        /\ rows'[t].status = "absent" => rows[t].status = "absent"
    BY <1>15, ReapedRow DEF Reap, IInv, TypeOK
  <2>2. reqs' = reqs /\ handed' = handed /\ library' = library
    BY <1>15 DEF Reap
  <2>3. \A t \in Task : /\ rows'[t].status # "absent" => rows[t].status # "absent" \/ library[Title[t]] # "absent"
                        /\ rows'[t].status = "completed" => rows[t].status = "completed"
    BY <1>15, <2>1, ReapedRow DEF Reap, IInv, TypeOK, GivenUp, Reclaimed, Expired, Active, Row
  <2> QED
    BY <2>1, <2>2, <2>3, ShelfStep
<1>16. ASSUME UNCHANGED vars PROVE Shelf'
  BY <1>12, <1>16 DEF vars
<1> QED
  BY <1>1, <1>2, <1>3, <1>4, <1>5, <1>6, <1>8, <1>9, <1>10, <1>11, <1>13, <1>14, <1>15, <1>16
     DEF Next

LEMMA ShelfInductive == Spec => []Shelf
<1>1. Init => Shelf
  BY DEF Init, Shelf, LibraryFollowsTasks, NoRow, Idle
<1> QED
  BY <1>1, NextShelf, Inductive, PTL DEF Spec

(* The lease contract.                                                     *)
Reports == {"manifest", "complete", "fail"}

(* A row is in the hands of a worker with a lease or has neither a worker  *)
(* nor a status that needs one, and is queued only with attempts left.     *)
RowSound(r) ==
  /\ r.worker # None => r.lease # "none"
  /\ r.status \in Active => r.worker # None
  /\ r.status = "queued" => r.attempts < MaxAttempts
  /\ r.attempts <= MaxAttempts

RowsSound == \A t \in Task : RowSound(rows[t])

(* Who was told to download a task has it, and keeps its lease alive.      *)
Holders ==
  \A w \in Worker : \A t \in handed[w] : rows[t].worker = w /\ rows[t].lease # "expired"

(* A report under way comes from the worker that has the task, since the   *)
(* attempt it read, and is the only one on that task.                      *)
ReportsSound ==
  \A s \in Slot : reqs[s].op \in Reports =>
    LET t == reqs[s].task IN
    /\ reqs[s].by \in Worker
    /\ rows[t].worker = reqs[s].by
    /\ rows[t].lease # "expired"
    /\ rows[t].attempts = reqs[s].seen.attempts
    /\ \A r \in Slot : reqs[r].op \in Reports /\ reqs[r].task = t => r = s

Gone == \A w \in stopped : handed[w] = {}

(* Inductive together with IInv.                                           *)
OInv == RowsSound /\ Holders /\ ReportsSound /\ Gone

-----------------------------------------------------------------------------
(* A step that writes one row t.  Requests may end, nobody else gets the   *)
(* task, and the row stays with its worker or nobody is left to report.    *)
LEMMA RowStep ==
  ASSUME IInv, OInv, IInv', NEW t \in Task,
         \A u \in Task : u # t => rows'[u] = rows[u],
         RowSound(rows'[t]),
         \A r \in Slot : reqs'[r] = reqs[r] \/ reqs'[r].op = "idle",
         \A w \in Worker : handed'[w] \ {t} \subseteq handed[w],
         \A w \in Worker : t \in handed'[w] => rows'[t].worker = w /\ rows'[t].lease # "expired",
         stopped' = stopped,
         \A w \in stopped : handed'[w] = {},
         \A r \in Slot : reqs'[r].op \in Reports /\ reqs[r].task = t =>
           /\ rows'[t].worker = rows[t].worker
           /\ rows'[t].attempts = rows[t].attempts
           /\ rows'[t].lease # "expired"
  PROVE  OInv'
<1>1. RowsSound'
  BY DEF OInv, RowsSound
<1>2. Holders'
  <2> SUFFICES ASSUME NEW w \in Worker, NEW u \in handed'[w]
               PROVE  rows'[u].worker = w /\ rows'[u].lease # "expired"
    BY DEF Holders
  <2>1. CASE u = t
    BY <2>1
  <2>2. CASE u # t
    <3>1. u \in handed[w] /\ u \in Task
      BY <2>2 DEF IInv, TypeOK
    <3> QED
      BY <2>2, <3>1 DEF OInv, Holders
  <2> QED
    BY <2>1, <2>2
<1>3. ReportsSound'
  <2> SUFFICES ASSUME NEW r \in Slot, reqs'[r].op \in Reports
               PROVE  /\ reqs'[r].by \in Worker
                      /\ rows'[reqs'[r].task].worker = reqs'[r].by
                      /\ rows'[reqs'[r].task].lease # "expired"
                      /\ rows'[reqs'[r].task].attempts = reqs'[r].seen.attempts
                      /\ \A q \in Slot : reqs'[q].op \in Reports /\ reqs'[q].task = reqs'[r].task => q = r
    BY DEF ReportsSound
  <2>1. \A q \in Slot : reqs'[q].op \in Reports => reqs'[q] = reqs[q]
    BY DEF Reports
  <2>2. reqs'[r] = reqs[r] /\ reqs[r].op \in Reports /\ reqs[r].op # "idle"
    BY <2>1 DEF Reports
  <2>3. reqs[r].task \in Task
    BY <2>2, RequestShape DEF IInv
  <2>4. /\ reqs[r].by \in Worker
        /\ rows[reqs[r].task].worker = reqs[r].by
        /\ rows[reqs[r].task].lease # "expired"
        /\ rows[reqs[r].task].attempts = reqs[r].seen.attempts
        /\ \A q \in Slot : reqs[q].op \in Reports /\ reqs[q].task = reqs[r].task => q = r
    BY <2>2 DEF OInv, ReportsSound
  <2>5. CASE reqs[r].task = t
    BY <2>1, <2>2, <2>4, <2>5
  <2>6. CASE reqs[r].task # t
    BY <2>1, <2>2, <2>3, <2>4, <2>6
  <2> QED
    BY <2>5, <2>6
<1>4. Gone'
  BY DEF Gone
<1> QED
  BY <1>1, <1>2, <1>3, <1>4 DEF OInv

(* The start of a request: a report comes from a worker that was told to   *)
(* download the task and has no other report on it under way.              *)
LEMMA StartStep ==
  ASSUME IInv, OInv, NEW s \in Slot,
         NEW op \in {"claim", "manifest", "heartbeat", "complete", "fail", "cancel"},
         NEW w \in Worker \cup {None}, NEW t \in Task, NEW paths \in SUBSET Path,
         Start(s, op, w, t, paths), UNCHANGED <<rows, handed, stopped>>,
         op \in Reports => w \in Worker /\ t \in handed[w] /\ OneReport(w, t)
  PROVE  OInv'
<1>1. /\ \A r \in Slot : r # s => reqs'[r] = reqs[r]
      /\ reqs'[s] = [op |-> op, by |-> w, task |-> t, seen |-> rows[t], paths |-> paths]
  BY StartShape DEF IInv
<1>2. RowsSound' /\ Holders' /\ Gone'
  BY DEF OInv, RowsSound, Holders, Gone
<1>3. ASSUME op \in Reports, NEW r \in Slot, reqs[r].op \in Reports, reqs[r].task = t
      PROVE  FALSE
  <2>1. rows[t].worker = w /\ w \in Worker
    BY <1>3 DEF OInv, Holders
  <2>2. reqs[r].by = w
    BY <1>3, <2>1 DEF OInv, ReportsSound
  <2>3. reqs[r] # Idle
    BY <1>3 DEF Reports, Idle
  <2>4. InFlight(r, "heartbeat")
    BY <1>3, <2>2, <2>3 DEF OneReport
  <2> QED
    BY <1>3, <2>4 DEF InFlight, Reports
<1>4. ReportsSound'
  <2> SUFFICES ASSUME NEW r \in Slot, reqs'[r].op \in Reports
               PROVE  /\ reqs'[r].by \in Worker
                      /\ rows[reqs'[r].task].worker = reqs'[r].by
                      /\ rows[reqs'[r].task].lease # "expired"
                      /\ rows[reqs'[r].task].attempts = reqs'[r].seen.attempts
                      /\ \A q \in Slot : reqs'[q].op \in Reports /\ reqs'[q].task = reqs'[r].task => q = r
    BY DEF ReportsSound
  <2>1. CASE r = s
    <3>1. op \in Reports /\ w \in Worker /\ t \in handed[w]
      BY <1>1, <2>1
    <3>2. rows[t].worker = w /\ rows[t].lease # "expired"
      BY <3>1 DEF OInv, Holders
    <3> QED
      BY <1>1, <1>3, <2>1, <3>1, <3>2
  <2>2. CASE r # s
    BY <1>1, <1>3, <2>2 DEF OInv, ReportsSound
  <2> QED
    BY <2>1, <2>2
<1> QED
  BY <1>2, <1>4 DEF OInv

(* A step that changes no row and starts no request.                       *)
LEMMA QuietStep ==
  ASSUME OInv, rows' = rows,
         \A r \in Slot : reqs'[r] = reqs[r] \/ reqs'[r].op = "idle",
         \A w \in Worker : handed'[w] \subseteq handed[w],
         Gone'
  PROVE  OInv'
<1>1. RowsSound' /\ Holders'
  BY DEF OInv, RowsSound, Holders
<1>2. \A r \in Slot : reqs'[r].op \in Reports => reqs'[r] = reqs[r]
  BY DEF Reports
<1>3. ReportsSound'
  BY <1>2 DEF OInv, ReportsSound
<1> QED
  BY <1>1, <1>3 DEF OInv

-----------------------------------------------------------------------------
LEMMA CreateStep ==
  ASSUME IInv, OInv, IInv', NEW t \in Task, CreateTask(t)
  PROVE  OInv'
<1>1. /\ \A u \in Task : u # t => rows'[u] = rows[u]
      /\ rows'[t] = [NoRow EXCEPT !.status = "queued"]
      /\ rows[t].worker = None
      /\ reqs' = reqs /\ handed' = handed /\ stopped' = stopped
  BY DEF CreateTask, IInv, TypeOK, AbsentBlank
<1>2. RowSound(rows'[t])
  BY <1>1, QueueAssumption DEF RowSound, NoRow, Active
<1>3. \A w \in Worker : t \notin handed[w]
  BY <1>1, QueueAssumption DEF OInv, Holders
<1>4. \A r \in Slot : reqs[r].op \in Reports => reqs[r].task # t
  BY <1>1, QueueAssumption DEF OInv, ReportsSound
<1> QED
  BY <1>1, <1>2, <1>3, <1>4, RowStep DEF OInv, Gone

(* A claim takes a row that nobody has, and that has attempts left.        *)
LEMMA ClaimStep ==
  ASSUME IInv, OInv, IInv', NEW s \in Slot, NEW delivered \in BOOLEAN, ClaimCommit(s, delivered)
  PROVE  OInv'
<1> DEFINE t == reqs[s].task
<1>1. /\ t \in Task /\ reqs[s].by \in Worker
      /\ rows[t].status = "queued"
      /\ rows[t].worker = None
      /\ \A u \in Task : u # t => rows'[u] = rows[u]
      /\ rows'[t].status = "assigned"
      /\ rows'[t].worker = reqs[s].by
      /\ rows'[t].attempts = rows[t].attempts + 1
      /\ rows'[t].lease = "live"
  BY ClaimCommitRows
<1>2. rows[t].attempts < MaxAttempts /\ rows[t].attempts \in Nat
  BY <1>1 DEF OInv, RowsSound, RowSound, IInv, TypeOK, Row
<1>3. RowSound(rows'[t])
  BY <1>1, <1>2, QueueAssumption DEF RowSound
<1>4. \A r \in Slot : reqs'[r] = reqs[r] \/ reqs'[r].op = "idle"
  BY DoneShape DEF ClaimCommit, IInv
<1>5. /\ \A w \in Worker : handed'[w] = IF w = reqs[s].by /\ delivered /\ reqs[s].by \notin stopped
                                          THEN handed[w] \cup {t} ELSE handed[w]
      /\ stopped' = stopped
  BY <1>1 DEF ClaimCommit, IInv, TypeOK
<1>6. \A w \in Worker : t \notin handed[w]
  BY <1>1, QueueAssumption DEF OInv, Holders
<1>7. \A r \in Slot : reqs'[r].op \in Reports => reqs[r].task # t
  BY <1>1, <1>4, QueueAssumption DEF OInv, ReportsSound, Reports
<1>8. \A w \in stopped : w \in Worker /\ handed'[w] = {}
  BY <1>5 DEF OInv, Gone, IInv, TypeOK
<1>9. \A w \in Worker : handed'[w] \ {t} \subseteq handed[w]
  BY <1>5
<1>10. \A w \in Worker : t \in handed'[w] => rows'[t].worker = w /\ rows'[t].lease # "expired"
  BY <1>1, <1>5, <1>6
<1>11. stopped' = stopped
  BY <1>5
<1> HIDE DEF t
<1> QED
  BY <1>1, <1>3, <1>4, <1>7, <1>8, <1>9, <1>10, <1>11, RowStep

(* The commit of a request that writes the status it has in mind.          *)
LEMMA StatusStep ==
  ASSUME IInv, OInv, IInv', NEW s \in Slot, NEW t \in Task, NEW old \in Row,
         NEW x \in {"canceled", "downloading", "completed"},
         Done(s), rows' = Flush(t, old, [old EXCEPT !.status = x]),
         x = "downloading" => rows[t].worker # None,
         \A w \in Worker : handed'[w] \subseteq handed[w],
         stopped' = stopped
  PROVE  OInv'
<1> DEFINE y == Merge(rows[t].status, old.status, x)
<1>1. rows \in [Task -> Row] /\ x \in Status /\ rows[t] \in Row
  BY DEF IInv, TypeOK, Status, Active
<1>2. rows' = [rows EXCEPT ![t] = [rows[t] EXCEPT !.status = y]]
  BY <1>1, FlushStatus
<1>3. y \in {rows[t].status, x}
  BY DEF Merge
<1> HIDE DEF y
<1>4. /\ \A u \in Task : u # t => rows'[u] = rows[u]
      /\ rows'[t].status = y
      /\ rows'[t].worker = rows[t].worker
      /\ rows'[t].attempts = rows[t].attempts
      /\ rows'[t].lease = rows[t].lease
  BY <1>1, <1>2 DEF Row
<1>5. RowSound(rows'[t])
  BY <1>3, <1>4 DEF OInv, RowsSound, RowSound, Active
<1>6. \A r \in Slot : reqs'[r] = reqs[r] \/ reqs'[r].op = "idle"
  BY DoneShape DEF IInv
<1>7. \A w \in Worker : t \in handed'[w] => rows'[t].worker = w /\ rows'[t].lease # "expired"
  BY <1>4 DEF OInv, Holders
<1>8. \A w \in stopped : handed'[w] = {}
  BY DEF OInv, Gone, IInv, TypeOK
<1>9. \A r \in Slot : reqs'[r].op \in Reports /\ reqs[r].task = t => rows'[t].lease # "expired"
  BY <1>4, <1>6 DEF OInv, ReportsSound, Reports
<1> QED
  BY <1>4, <1>5, <1>6, <1>7, <1>8, <1>9, RowStep

(* A fail either frees the row, after the only report on it, or leaves it  *)
(* to its worker as failed.                                                *)
LEMMA FailStep ==
  ASSUME IInv, OInv, IInv', NEW s \in Slot, FailCommit(s)
  PROVE  OInv'
<1> DEFINE t == reqs[s].task
           seen == reqs[s].seen
           new == AfterFail(seen)
           f == Flush(t, seen, new)
<1>1. t \in Task /\ seen \in Row /\ rows[t] \in Row /\ rows \in [Task -> Row]
  BY RequestShape DEF FailCommit, InFlight, IInv, TypeOK
<1>2. /\ reqs[s].op = "fail"
      /\ reqs[s].by \in Worker
      /\ seen.worker = reqs[s].by
      /\ seen.status # "queued"
      /\ rows[t].worker = reqs[s].by
      /\ rows[t].lease # "expired"
      /\ rows[t].attempts = seen.attempts
      /\ \A r \in Slot : reqs[r].op \in Reports /\ reqs[r].task = t => r = s
  BY DEF FailCommit, InFlight, IInv, FailSound, OInv, ReportsSound, Reports
<1>3. new \in Row
  BY <1>1 DEF AfterFail, Row, Status
<1>4. rows' = f
  BY DEF FailCommit
<1> HIDE DEF new
<1>5. /\ \A u \in Task : u # t => f[u] = rows[u]
      /\ f[t] = [status   |-> Merge(rows[t].status, seen.status, new.status),
                 worker   |-> Merge(rows[t].worker, seen.worker, new.worker),
                 attempts |-> Merge(rows[t].attempts, seen.attempts, new.attempts),
                 lease    |-> Merge(rows[t].lease, seen.lease, new.lease)]
  BY <1>1, <1>3, FlushRow
<1> HIDE DEF f
<1>6. RowSound(rows'[t])
  <2>1. RowSound(rows[t])
    BY <1>1 DEF OInv, RowsSound
  <2>2. CASE seen.attempts < MaxAttempts
    <3>1. new.status = "queued" /\ new.worker = None /\ new.attempts = seen.attempts
      BY <1>1, <2>2 DEF new, AfterFail, Row
    <3>2. f[t].status = "queued" /\ f[t].worker = None /\ f[t].attempts = rows[t].attempts
      BY <1>2, <1>5, <3>1, QueueAssumption DEF Merge
    <3> QED
      BY <1>2, <1>4, <2>1, <2>2, <3>2 DEF RowSound, Active
  <2>3. CASE ~(seen.attempts < MaxAttempts)
    <3>1. /\ new.status = "failed" /\ new.worker = seen.worker
          /\ new.attempts = seen.attempts /\ new.lease = seen.lease
      BY <1>1, <2>3 DEF new, AfterFail, Row
    <3>2. /\ f[t].status \in {"failed", rows[t].status} /\ f[t].worker = rows[t].worker
          /\ f[t].attempts = rows[t].attempts /\ f[t].lease = rows[t].lease
      BY <1>5, <3>1 DEF Merge
    <3> QED
      BY <1>4, <2>1, <3>2 DEF RowSound, Active
  <2> QED
    BY <2>2, <2>3
<1>7. \A r \in Slot : reqs'[r] = reqs[r] \/ reqs'[r].op = "idle"
  BY DoneShape DEF FailCommit, IInv
<1>8. \A r \in Slot : reqs'[r].op \in Reports => reqs[r].task # t
  BY <1>2, <1>7, DoneShape DEF FailCommit, IInv, Reports
<1>9. /\ \A w \in Worker : handed'[w] \subseteq handed[w]
      /\ \A w \in Worker : t \notin handed'[w]
      /\ stopped' = stopped
  BY <1>2 DEF FailCommit, Forget, IInv, TypeOK, OInv, Holders
<1>10. \A w \in stopped : handed'[w] = {}
  BY <1>9 DEF OInv, Gone, IInv, TypeOK
<1> QED
  BY <1>1, <1>4, <1>5, <1>6, <1>7, <1>8, <1>9, <1>10, RowStep

LEMMA HeartbeatStep ==
  ASSUME IInv, OInv, IInv', NEW s \in Slot, HeartbeatCommit(s)
  PROVE  OInv'
<1> DEFINE t == reqs[s].task
<1>1. t \in Task /\ rows[t] \in Row /\ rows \in [Task -> Row]
  BY RequestShape DEF HeartbeatCommit, InFlight, IInv, TypeOK
<1>2. /\ \A u \in Task : u # t => rows'[u] = rows[u]
      /\ rows'[t].status = rows[t].status
      /\ rows'[t].worker = rows[t].worker
      /\ rows'[t].attempts = rows[t].attempts
      /\ rows'[t].lease = "live"
      /\ handed' = handed /\ stopped' = stopped
  BY <1>1 DEF HeartbeatCommit, Row
<1>3. RowSound(rows'[t])
  BY <1>1, <1>2 DEF OInv, RowsSound, RowSound
<1>4. \A r \in Slot : reqs'[r] = reqs[r] \/ reqs'[r].op = "idle"
  BY DoneShape DEF HeartbeatCommit, IInv
<1>5. \A w \in Worker : t \in handed[w] => rows[t].worker = w
  BY DEF OInv, Holders
<1>6. \A w \in stopped : handed'[w] = {}
  BY <1>2 DEF OInv, Gone
<1> HIDE DEF t
<1> QED
  BY <1>1, <1>2, <1>3, <1>4, <1>5, <1>6, RowStep

LEMMA CommitStep ==
  ASSUME IInv, OInv, IInv', NEW s \in Slot, Commit(s)
  PROVE  OInv'
<1> DEFINE t == reqs[s].task
           seen == reqs[s].seen
<1>1. ASSUME NEW delivered \in BOOLEAN, ClaimCommit(s, delivered) PROVE OInv'
  BY <1>1, ClaimStep
<1>2. CASE ManifestCommit(s)
  <2>1. t \in Task /\ seen \in Row
    BY <1>2, RequestShape DEF ManifestCommit, InFlight, IInv
  <2>2. rows[t].worker # None
    BY <1>2, QueueAssumption DEF ManifestCommit, InFlight, OInv, ReportsSound, Reports
  <2>3. /\ handed' = handed /\ stopped' = stopped /\ Done(s)
        /\ rows' = Flush(t, seen, [seen EXCEPT !.status = "downloading"]) \/ rows' = rows
    BY <1>2 DEF ManifestCommit
  <2>4. CASE rows' = rows
    <3>1. \A r \in Slot : reqs'[r] = reqs[r] \/ reqs'[r].op = "idle"
      BY <2>3, DoneShape DEF IInv
    <3>2. Gone'
      BY <2>3 DEF OInv, Gone
    <3> QED
      BY <2>3, <2>4, <3>1, <3>2, QuietStep
  <2>5. CASE rows' = Flush(t, seen, [seen EXCEPT !.status = "downloading"])
    BY <2>1, <2>2, <2>3, <2>5, StatusStep
  <2> QED
    BY <2>3, <2>4, <2>5
<1>3. CASE HeartbeatCommit(s)
  BY <1>3, HeartbeatStep
<1>4. CASE CompleteCommit(s)
  <2>1. t \in Task /\ seen \in Row
    BY <1>4, RequestShape DEF CompleteCommit, InFlight, IInv
  <2>2. \A w \in Worker : handed'[w] \subseteq handed[w]
    BY <1>4 DEF CompleteCommit, Forget, IInv, TypeOK
  <2>3. /\ stopped' = stopped /\ Done(s)
        /\ rows' = Flush(t, seen, [seen EXCEPT !.status = "completed"])
    BY <1>4 DEF CompleteCommit
  <2> QED
    BY <2>1, <2>2, <2>3, StatusStep
<1>5. CASE FailCommit(s)
  BY <1>5, FailStep
<1>6. CASE CancelCommit(s)
  <2>1. t \in Task /\ seen \in Row
    BY <1>6, RequestShape DEF CancelCommit, InFlight, IInv
  <2>2. /\ handed' = handed /\ stopped' = stopped /\ Done(s)
        /\ rows' = Flush(t, seen, [seen EXCEPT !.status = "canceled"])
    BY <1>6 DEF CancelCommit
  <2> QED
    BY <2>1, <2>2, StatusStep
<1> QED
  BY <1>1, <1>2, <1>3, <1>4, <1>5, <1>6 DEF Commit

(* The lease runs out only of a task nobody downloads or reports on.       *)
LEMMA ExpiryStep ==
  ASSUME IInv, OInv, IInv', NEW t \in Task, LeaseExpires(t), Unattended(t)
  PROVE  OInv'
<1>1. rows[t] \in Row /\ rows \in [Task -> Row]
  BY DEF IInv, TypeOK
<1>2. /\ \A u \in Task : u # t => rows'[u] = rows[u]
      /\ rows'[t].status = rows[t].status
      /\ rows'[t].worker = rows[t].worker
      /\ rows'[t].attempts = rows[t].attempts
      /\ rows'[t].lease = "expired"
      /\ reqs' = reqs /\ handed' = handed /\ stopped' = stopped
  BY <1>1 DEF LeaseExpires, Row
<1>3. RowSound(rows'[t])
  BY <1>1, <1>2 DEF OInv, RowsSound, RowSound
<1>5. \A w \in Worker : t \notin handed[w]
  BY DEF Unattended, OInv, Holders, Gone
<1>6. ASSUME NEW r \in Slot, reqs[r].op \in Reports PROVE reqs[r].task # t
  <2>1. reqs[r] # Idle
    BY <1>6 DEF Reports, Idle
  <2> QED
    BY <1>6, <2>1 DEF Unattended, OInv, ReportsSound
<1>7. \A w \in stopped : handed'[w] = {}
  BY <1>2 DEF OInv, Gone
<1> QED
  BY <1>2, <1>3, <1>5, <1>6, <1>7, RowStep

(* What a pass of the reaper makes of a sound row: the rows it takes back  *)
(* are those whose lease ran out, and it gives up those that used up their *)
(* attempts at once.                                                       *)
LEMMA ReapedSound ==
  ASSUME NEW r \in Row, RowSound(r)
  PROVE  /\ RowSound(GivenUp(Reclaimed(r)))
         /\ GivenUp(Reclaimed(r)).attempts = r.attempts
         /\ r.worker # None /\ r.lease # "expired" =>
              /\ GivenUp(Reclaimed(r)).worker = r.worker
              /\ GivenUp(Reclaimed(r)).lease = r.lease
<1>1. CASE Expired(r)
  <2> DEFINE x == [r EXCEPT !.status = "queued", !.worker = None, !.lease = "none"]
  <2>1. Reclaimed(r) = x
    BY <1>1 DEF Reclaimed
  <2>2. /\ x.status = "queued" /\ x.worker = None /\ x.lease = "none" /\ x.attempts = r.attempts
        /\ x \in Row
    BY DEF Row, Status
  <2>3. r.attempts <= MaxAttempts /\ r.attempts \in Nat
    BY DEF RowSound, Row
  <2> HIDE DEF x
  <2>4. RowSound(GivenUp(x)) /\ GivenUp(x).attempts = r.attempts
    <3>1. CASE x.attempts >= MaxAttempts
      <4>1. GivenUp(x) = [x EXCEPT !.status = "failed"]
        BY <2>2, <3>1 DEF GivenUp
      <4> QED
        BY <2>2, <2>3, <4>1 DEF RowSound, Row, Active
    <3>2. CASE ~(x.attempts >= MaxAttempts)
      <4>1. GivenUp(x) = x
        BY <3>2 DEF GivenUp
      <4> QED
        BY <2>2, <2>3, <3>2, <4>1, QueueAssumption DEF RowSound, Active
    <3> QED
      BY <3>1, <3>2
  <2> QED
    BY <1>1, <2>1, <2>4 DEF Expired
<1>2. CASE ~Expired(r)
  <2>1. Reclaimed(r) = r
    BY <1>2 DEF Reclaimed
  <2>2. GivenUp(r) = r
    BY QueueAssumption DEF RowSound, GivenUp, Row
  <2> QED
    BY <2>1, <2>2
<1> QED
  BY <1>1, <1>2

LEMMA ReapStep ==
  ASSUME IInv, OInv, IInv', Reap
  PROVE  OInv'
<1> DEFINE new(t) == GivenUp(Reclaimed(rows[t]))
<1>1. \A t \in Task : rows'[t] = new(t)
  BY DEF Reap
<1>2. /\ reqs' = reqs /\ handed' = handed /\ stopped' = stopped
      /\ handed \in [Worker -> SUBSET Task]
  BY DEF Reap, IInv, TypeOK
<1>3. \A t \in Task :
        /\ RowSound(new(t))
        /\ new(t).attempts = rows[t].attempts
        /\ rows[t].worker # None /\ rows[t].lease # "expired" =>
             new(t).worker = rows[t].worker /\ new(t).lease = rows[t].lease
  BY ReapedSound DEF OInv, RowsSound, IInv, TypeOK
<1> HIDE DEF new
<1>4. RowsSound' /\ Gone'
  BY <1>1, <1>2, <1>3 DEF RowsSound, OInv, Gone
<1>5. Holders'
  BY <1>1, <1>2, <1>3, QueueAssumption DEF OInv, Holders
<1>6. ReportsSound'
  <2>1. \A s \in Slot : reqs[s].op \in Reports => reqs[s].task \in Task
    BY RequestShape DEF IInv, Reports
  <2> QED
    BY <1>1, <1>2, <1>3, <2>1, QueueAssumption DEF OInv, ReportsSound
<1> QED
  BY <1>4, <1>5, <1>6 DEF OInv

-----------------------------------------------------------------------------
LEMMA InitOInv == Init => OInv
<1> SUFFICES ASSUME Init PROVE OInv
  OBVIOUS
<1>1. RowsSound
  BY QueueAssumption DEF Init, RowsSound, RowSound, NoRow, Active
<1>2. Holders /\ ReportsSound /\ Gone
  BY DEF Init, Holders, ReportsSound, Gone, Idle, Reports
<1> QED
  BY <1>1, <1>2 DEF OInv

LEMMA NextOInv ==
  ASSUME Orderly
  PROVE  IInv /\ IInv' /\ OInv /\ [Next]_vars => OInv'
<1> SUFFICES ASSUME IInv, IInv', OInv, [Next]_vars PROVE OInv'
  OBVIOUS
<1>1. ASSUME NEW t \in Task, CreateTask(t) PROVE OInv'
  BY <1>1, CreateStep
<1>2. ASSUME NEW t \in Task, LeaseExpires(t) PROVE OInv'
  BY <1>2, ExpiryStep DEF LeaseExpires
<1>3. ASSUME NEW s \in Slot, Commit(s) PROVE OInv'
  BY <1>3, CommitStep
<1>4. ASSUME NEW s \in Slot, Abort(s) PROVE OInv'
  <2>1. \A r \in Slot : reqs'[r] = reqs[r] \/ reqs'[r].op = "idle"
    BY <1>4, DoneShape DEF Abort, IInv
  <2> QED
    BY <1>4, <2>1, QuietStep DEF Abort, OInv, Gone
<1>5. ASSUME NEW s \in Slot, NEW t \in Task, CancelRead(s, t) PROVE OInv'
  BY <1>5, StartStep DEF CancelRead, Reports
<1>6. ASSUME NEW s \in Slot, NEW w \in Worker, NEW t \in Task, ClaimLock(s, w, t) PROVE OInv'
  BY <1>6, StartStep DEF ClaimLock, Reports
<1>7. ASSUME NEW s \in Slot, NEW w \in Worker, NEW t \in Task, HeartbeatRead(s, w, t) PROVE OInv'
  BY <1>7, StartStep DEF HeartbeatRead, Reports
<1>8. ASSUME NEW s \in Slot, NEW w \in Worker, NEW t \in Task, FailRead(s, w, t) PROVE OInv'
  BY <1>8, StartStep DEF FailRead, MaySend
<1>9. ASSUME NEW s \in Slot, NEW w \in Worker, NEW t \in Task, NEW paths \in SUBSET Path,
             ManifestRead(s, w, t, paths)
      PROVE  OInv'
  BY <1>9, StartStep DEF ManifestRead, MaySend
<1>10. ASSUME NEW s \in Slot, NEW w \in Worker, NEW t \in Task, NEW paths \in SUBSET Path,
              CompleteRead(s, w, t, paths)
       PROVE  OInv'
  BY <1>10, StartStep DEF CompleteRead, MaySend
<1>11. ASSUME NEW w \in Worker, NEW t \in Task, ToldGone(w, t) PROVE OInv'
  BY <1>11, QuietStep DEF ToldGone, Forget, OInv, Gone, IInv, TypeOK
<1>12. ASSUME NEW w \in Worker, WorkerStops(w) PROVE OInv'
  BY <1>12, QuietStep DEF WorkerStops, OInv, Gone, IInv, TypeOK
<1>13. ASSUME Reap PROVE OInv'
  BY <1>13, ReapStep
<1>14. ASSUME UNCHANGED vars PROVE OInv'
  BY <1>14, QuietStep DEF vars, OInv, Gone
<1> QED
  BY <1>1, <1>2, <1>3, <1>4, <1>5, <1>6, <1>7, <1>8, <1>9, <1>10, <1>11, <1>12, <1>13, <1>14
     DEF Next

LEMMA OrderlyInductive ==
  ASSUME Orderly
  PROVE  Spec => []OInv
<1>1. IInv /\ IInv' /\ OInv /\ [Next]_vars => OInv'
  BY NextOInv
<1> QED
  BY <1>1, InitOInv, Inductive, PTL DEF Spec

(* Two workers never download the same task: the worker that was handed it *)
(* is the one its row names.                                               *)
THEOREM OneDownloaderHolds ==
  ASSUME Orderly
  PROVE  Spec => []OneDownloader
<1>1. OInv => OneDownloader
  BY DEF OInv, Holders, OneDownloader
<1> QED
  BY <1>1, OrderlyInductive, PTL

(* A task in progress has a worker and a lease, so the reaper finds it when*)
(* the worker dies.                                                        *)
THEOREM NoneStranded ==
  ASSUME Orderly
  PROVE  Spec => []NoStranded
<1>1. OInv => NoStranded
  BY DEF OInv, RowsSound, RowSound, NoStranded
<1> QED
  BY <1>1, OrderlyInductive, PTL

(* No task is claimed more often than max_attempts.                        *)
THEOREM AttemptsWithinMax ==
  ASSUME Orderly
  PROVE  Spec => []AttemptsBounded
<1>1. OInv => AttemptsBounded
  BY DEF OInv, RowsSound, RowSound, AttemptsBounded
<1> QED
  BY <1>1, OrderlyInductive, PTL
=============================================================================
