----------------------------- MODULE TaskQuota -----------------------------
(***************************************************************************)
(* The bytes of the download queue: tasks.reserved_bytes, the sizes of     *)
(* task_files and the quota check of POST /api/tasks, on top of the rows   *)
(* of TaskQueue.  The check adds up committed rows in two SELECTs, and the *)
(* task is inserted some awaits later, so anything may commit in between.  *)
(***************************************************************************)
EXTENDS TaskQueue, FiniteSetsExt

CONSTANTS Creator,     \* POST /api/tasks requests served at the same time
          Size,        \* Size[t]: size_bytes of the release of task t
          FileSize,    \* the sizes a worker may report for a file
          Limit        \* the effective quota of every user

ASSUME QuotaAssumption ==
  /\ IsFiniteSet(Path)
  /\ Size \in [Task -> Nat]
  /\ FileSize \subseteq Nat
  /\ None \notin Nat
  /\ Limit \in Nat

VARIABLES reserved,      \* tasks.reserved_bytes
          sizes,         \* task_files.size_bytes, 0 where there is no row
          seenReserved,  \* the reserved_bytes each request read
          said,          \* the size each request reports for a file, or None
          creates,       \* how far each POST /api/tasks has come
          touched        \* history: the tasks some cancel was committed on

bvars == <<reserved, sizes, seenReserved, said>>
qvars == <<bvars, creates, touched>>

UserOf(t) == Title[t][1]
TasksOf(u) == {t \in Task : UserOf(t) = u}
Users == {UserOf(t) : t \in Task}

(* The bytes of some files, by their sizes.                                *)
Total(size, paths) == MapThenSumSet(LAMBDA p : size[p], paths)

(* Mutated form of Uploaded: files that are still pending count, too.      *)
UploadedOrPending(t) == Total(sizes[t], Present(t))

Uploaded(t) == Total(sizes[t], {p \in Path : files[t][p] = "uploaded"})

Counted(t) == IF rows[t].status \in {"queued"} \cup Active THEN reserved[t] ELSE 0

(* get_used_bytes and get_reserved_bytes.                                  *)
UsedBytes(u) == MapThenSumSet(Uploaded, TasksOf(u))
ReservedBytes(u) == MapThenSumSet(Counted, TasksOf(u))

Resting == [step |-> "resting"]

(* The body of a request that reports no sizes.                            *)
Silent == [p \in Path |-> None]

-----------------------------------------------------------------------------
QInit ==
  /\ Init
  /\ reserved = [t \in Task |-> 0]
  /\ sizes = [t \in Task |-> [p \in Path |-> 0]]
  /\ seenReserved = [s \in Slot |-> 0]
  /\ said = [s \in Slot |-> Silent]
  /\ creates = [c \in Creator |-> Resting]
  /\ touched = {}

Proceed(c, state) == creates' = [creates EXCEPT ![c] = state]

(* create_task, up to the SELECT of the used bytes.                        *)
CreateReadUsed(c, t) ==
  /\ creates[c] = Resting
  /\ rows[t].status = "absent"
  /\ \A d \in Creator : creates[d] # Resting => creates[d].task # t
  /\ Proceed(c, [step |-> "used", task |-> t, used |-> UsedBytes(UserOf(t))])
  /\ UNCHANGED <<vars, bvars, touched>>

(* The SELECT of the reserved bytes and the verdict.                       *)
CreateCheck(c) ==
  LET t == creates[c].task IN
  /\ creates[c].step = "used"
  /\ IF creates[c].used + ReservedBytes(UserOf(t)) + Size[t] <= Limit
       THEN Proceed(c, [step |-> "checked", task |-> t])
       ELSE Proceed(c, Resting)
  /\ UNCHANGED <<vars, bvars, touched>>

(* The task is flushed and the library item looked up.                     *)
CreateLookup(c) ==
  LET t == creates[c].task IN
  /\ creates[c].step = "checked"
  /\ Proceed(c, [step |-> "flushed", task |-> t, missing |-> library[Title[t]] = "absent"])
  /\ UNCHANGED <<vars, bvars, touched>>

(* The commit.  A library item that appeared since the lookup breaks       *)
(* uq_library_items_user_media, and the task is rolled back with it.       *)
CreateCommit(c) ==
  LET t == creates[c].task IN
  /\ creates[c].step = "flushed"
  /\ IF creates[c].missing /\ library[Title[t]] # "absent"
       THEN UNCHANGED <<vars, reserved>>
       ELSE CreateTask(t) /\ reserved' = [reserved EXCEPT ![t] = Size[t]]
  /\ Proceed(c, Resting)
  /\ UNCHANGED <<sizes, seenReserved, said, touched>>

CreateAbort(c) ==
  /\ creates[c] # Resting
  /\ Proceed(c, Resting)
  /\ UNCHANGED <<vars, bvars, touched>>

(* The reads of the worker requests and of cancel also read the bytes.  An *)
(* orderly worker names all the files of the torrent in its manifest.  The *)
(* files of a manifest and of a complete come with a size, or without one. *)
QRead(s, t) ==
  /\ \/ /\ \/ CancelRead(s, t)
           \/ \E w \in Worker : ClaimLock(s, w, t) \/ HeartbeatRead(s, w, t) \/ FailRead(s, w, t)
        /\ said' = said
     \/ \E w \in Worker, paths \in SUBSET Path, body \in [Path -> FileSize \cup {None}] :
          /\ \/ (Orderly => paths = Path) /\ ManifestRead(s, w, t, paths)
             \/ CompleteRead(s, w, t, paths)
          /\ \A p \in Path \ paths : body[p] = None
          /\ said' = [said EXCEPT ![s] = body]
  /\ seenReserved' = [seenReserved EXCEPT ![s] = reserved[t]]
  /\ UNCHANGED <<reserved, sizes, creates, touched>>

(* Of reserved_bytes, too, a commit writes only a value that changed.      *)
Rewrite(s, new) ==
  reserved' = [reserved EXCEPT ![reqs[s].task] = Merge(@, seenReserved[s], new)]

ReadDone(s) ==
  /\ seenReserved' = [seenReserved EXCEPT ![s] = 0]
  /\ said' = [said EXCEPT ![s] = Silent]

(* The size_bytes that a manifest gives a file: 0 if none was reported.    *)
Announced(s) == [p \in Path |-> IF said[s][p] = None THEN 0 ELSE said[s][p]]

(* Mutated form of QManifestCommit: whatever the files add up to.          *)
QManifestCommitTotal(s) ==
  LET t == reqs[s].task  paths == reqs[s].paths IN
  /\ ManifestCommit(s)
  /\ IF paths \cap Present(t) = {}
       THEN /\ sizes' = [sizes EXCEPT ![t] =
                 [p \in Path |-> IF p \in paths THEN Announced(s)[p] ELSE @[p]]]
            /\ Rewrite(s, Total(Announced(s), paths))
       ELSE UNCHANGED <<sizes, reserved>>
  /\ ReadDone(s)
  /\ UNCHANGED <<creates, touched>>

(* worker_manifest: min(task.reserved_bytes, total_size).                  *)
QManifestCommit(s) ==
  LET t == reqs[s].task  paths == reqs[s].paths  total == Total(Announced(s), paths) IN
  /\ ManifestCommit(s)
  /\ IF paths \cap Present(t) = {}
       THEN /\ sizes' = [sizes EXCEPT ![t] =
                 [p \in Path |-> IF p \in paths THEN Announced(s)[p] ELSE @[p]]]
            /\ Rewrite(s, IF total < seenReserved[s] THEN total ELSE seenReserved[s])
       ELSE UNCHANGED <<sizes, reserved>>
  /\ ReadDone(s)
  /\ UNCHANGED <<creates, touched>>

(* The reservation is gone, and each file of the body has the size that is *)
(* reported now, whatever the manifest said; none reported leaves it be.   *)
QCompleteCommit(s) ==
  LET t == reqs[s].task IN
  /\ CompleteCommit(s)
  /\ sizes' = [sizes EXCEPT ![t] = [p \in Path |->
       IF p \in reqs[s].paths \cap Present(t) /\ said[s][p] # None THEN said[s][p] ELSE @[p]]]
  /\ Rewrite(s, 0)
  /\ ReadDone(s)
  /\ UNCHANGED <<creates, touched>>

QFailCommit(s) ==
  /\ FailCommit(s)
  /\ IF AfterFail(reqs[s].seen).status = "failed" THEN Rewrite(s, 0) ELSE reserved' = reserved
  /\ ReadDone(s)
  /\ UNCHANGED <<sizes, creates, touched>>

QCancelCommit(s) ==
  /\ CancelCommit(s)
  /\ Rewrite(s, 0)
  /\ ReadDone(s)
  /\ touched' = touched \cup {reqs[s].task}
  /\ UNCHANGED <<sizes, creates>>

(* Claims, heartbeats and aborted requests leave the bytes alone.          *)
QOtherEnd(s) ==
  /\ HeartbeatCommit(s) \/ Abort(s) \/ \E delivered \in BOOLEAN : ClaimCommit(s, delivered)
  /\ ReadDone(s)
  /\ UNCHANGED <<reserved, sizes, creates, touched>>

(* Mutated form of QReap: the size of the release is taken off again.      *)
QReapSubtracting ==
  /\ Reap
  /\ reserved' = [t \in Task |->
       IF GivenUp(Reclaimed(rows[t])) # Reclaimed(rows[t]) THEN reserved[t] - Size[t] ELSE reserved[t]]
  /\ UNCHANGED <<sizes, seenReserved, said, creates, touched>>

(* The reaper frees the bytes of the tasks it gives up.                    *)
QReap ==
  /\ Reap
  /\ reserved' = [t \in Task |->
       IF GivenUp(Reclaimed(rows[t])) # Reclaimed(rows[t]) THEN 0 ELSE reserved[t]]
  /\ UNCHANGED <<sizes, seenReserved, said, creates, touched>>

QQuiet ==
  /\ \/ \E t \in Task : LeaseExpires(t)
     \/ \E w \in Worker, t \in Task : ToldGone(w, t)
     \/ \E w \in Worker : WorkerStops(w)
  /\ UNCHANGED qvars

QNext ==
  \/ \E c \in Creator, t \in Task : CreateReadUsed(c, t)
  \/ \E c \in Creator : CreateCheck(c) \/ CreateLookup(c) \/ CreateCommit(c) \/ CreateAbort(c)
  \/ \E s \in Slot, t \in Task : QRead(s, t)
  \/ \E s \in Slot : \/ QManifestCommit(s)
                     \/ QCompleteCommit(s)
                     \/ QFailCommit(s)
                     \/ QCancelCommit(s)
                     \/ QOtherEnd(s)
  \/ QReap
  \/ QQuiet

QSpec == QInit /\ [][QNext]_<<vars, qvars>>

-----------------------------------------------------------------------------
(* What a task weighs in its user's quota; a torrent whose files are no    *)
(* larger than its release was said to be, as far as the files are known;  *)
(* and a complete that reports a file larger than the manifest did.        *)
Footprint(t) == Uploaded(t) + Counted(t)

AsAnnounced(t) == Total(sizes[t], Path) <= Size[t]

Grew(t) == \E p \in Present(t) : sizes'[t][p] > sizes[t][p]

(* The bytes and the requests have the shape the code gives them; no byte  *)
(* count goes below zero.                                                  *)
QTypeOK ==
  /\ TypeOK
  /\ reserved \in [Task -> Nat]
  /\ sizes \in [Task -> [Path -> Nat]]
  /\ seenReserved \in [Slot -> Nat]
  /\ said \in [Slot -> [Path -> FileSize \cup {None}]]
  /\ \A c \in Creator : creates[c] = Resting \/ creates[c].task \in Task
  /\ touched \subseteq Task

(* However late a manifest, a fail or a cancel writes back what it read, a *)
(* task never reserves more than its release (worker.py, tasks.py).        *)
ReservedAtMostSize == \A t \in Task : reserved[t] <= Size[t]

(* With orderly workers: once created, a task that nobody cancels never    *)
(* weighs more than before, through retries, crashes and late commits.     *)
(* Only two reports break this: files that are larger than the release, or *)
(* a complete that gives a file more bytes than the manifest did.          *)
FootprintShrinks ==
  [][\A t \in Task : rows[t].status # "absent" /\ t \notin touched' /\ AsAnnounced(t) /\ ~Grew(t)
       => Footprint(t)' <= Footprint(t)]_<<vars, qvars>>

(* check_quota: "Return True if user has enough quota".  No user ever uses *)
(* and reserves more than the quota.                                       *)
WithinQuota == \A u \in Users : UsedBytes(u) + ReservedBytes(u) <= Limit
=============================================================================
