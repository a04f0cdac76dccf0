# Verification of the Seans backend

TLA+ models, TLC runs and TLAPS proofs for the backend under `src/app`: a
FastAPI service in front of PostgreSQL that lets users queue torrents for
download by remote workers, counts what they store against a quota, and runs
watch parties over WebSockets.

## The system

| Component | State | Operations | Talks to |
|---|---|---|---|
| Download queue (`routers/worker.py`, `services/task_queue.py`) | rows of `tasks`, `task_files`, `library_items`, `workers` | claim, manifest, heartbeat, complete, fail | workers over HTTP; the tables |
| Test worker (`scripts/fake_worker.py`) | where a process is in its cycle | register, claim, manifest, heartbeats, PUTs, complete; ends at any failure | the queue over HTTP; S3 |
| Lease reaper (`jobs/reaper.py`) | none of its own | every 60 s: expired rows back to the queue, exhausted ones failed | the `tasks` table |
| Task API (`routers/tasks.py`) | the same rows | create, list, cancel | quota, queue, library |
| Quota (`services/quota.py`) | `tasks.reserved_bytes`, sizes of uploaded `task_files` | check before create; every handler that ends a task | task API, workers |
| Library (`routers/library.py`, `services/s3.py`) | `library_items`, `s3_key` of `task_files`, the objects of the bucket | created with a task, ready on complete; slots for uploads; listing, presigned URLs | workers, S3 |
| Watch rooms (`routers/ws.py`, `services/rooms.py`, `routers/rooms.py`) | in memory: `_rooms[code]` with host, members, playback | join, state, sync_request, leave, broadcast, host promotion | clients over WebSocket |
| *arr catalogue (`routers/arr.py`, `services/arr.py`, `services/arr_cache.py`) | in memory: one TTL cache | get, refresh | Sonarr, Radarr |
| Accounts (`routers/auth.py`, `services/auth.py`) | `users`, `invite_keys` | register, login, create key | |
| Administration, plans (`routers/admin.py`, `services/plans.py`) | plan, expiry, quota and flags of users | patch user | quota |
| Media catalogue (`routers/media.py`, `services/kinopoisk.py`, `tmdb.py`, `indexer.py`, `quality.py`) | `media_items`, `torrent_releases` | search with upsert, releases with a 6 h cache | Kinopoisk, TMDB, JacRed |
| Watch history (`routers/history.py`) | `watch_history`, one row per user and file | upsert from the player, list to continue | library |
| Reviews, rate limit | one row per user and item; a window per key | upsert; check and append | |

Processes and how they overlap: one uvicorn process runs every HTTP handler,
every WebSocket handler and the reaper as coroutines of one event loop; a
coroutine gives way where it awaits. Each HTTP request has a database session of
its own (`db.py`, `get_db`), and PostgreSQL runs the sessions under READ
COMMITTED. Workers are other processes that may be killed at any moment, and
register anew when they start. Nothing but the database survives a restart of
the backend: rooms and caches are gone.

What is hard, and what each component has to get right:

* **Queue.** Only `claim_task` locks the row it reads. Every other handler
  reads, checks, and writes at its commit the columns it changed, whatever the
  row holds by then. Correct means: no two workers take one task, a task in
  progress can be brought back by its lease, attempts are bounded, a task is
  given up only when they are used up, and every task ends.
* **Quota.** The check adds up committed rows in two SELECTs and the task is
  inserted later. Correct means: what a task weighs never grows between its
  creation and its end, and users stay within the limit.
* **Test worker.** Nothing but the order of its own requests makes the script
  report on one thing at a time. Correct means: it keeps the lease contract beside
  other workers, although it dies of every answer it does not expect.
* **Library and history.** Keys are made from the user, the title and the last
  component of a path; uploads, completes and players meet in the bucket. Correct
  means: a URL leads to an object of its user, title and name, and what is left out
  of the list to continue has been seen.
* **Rooms.** `broadcast` awaits a send inside its loop over the member dict;
  handlers keep the `RoomState` they got at their join; the member is keyed by
  the user. Correct means: the host is in the room, everybody knows who it is,
  and all play the same.
* **Cache.** A miss awaits the upstream before it writes, with a key and a TTL for
  each of the five routes. Correct means: a hit has the data of the resource asked
  for and is no older than its TTL.
* **Accounts.** Registrations and patches read, await and write at their commit
  what differs from the row they read. Correct means: a used key names its one
  account, the quota in effect belongs to the plan in effect, and the right to
  administer comes from others.
* **Media catalogue.** A search commits each item, awaits TMDB and commits again;
  a list of releases awaits up to two indexers between the SELECT of the cached
  rows and the upserts. Correct means: a TMDB id is never lost, and what is shown
  as fresh was read within the window.

## Modules

| Module | Models |
|---|---|
| `TaskOwnership` | abstract: who holds a task, how often it was granted, which tasks are given up |
| `TaskQueue` | rows and requests of the download queue, the reaper, workers that crash; implements `TaskOwnership` |
| `TaskQuota` | extends `TaskQueue` with `reserved_bytes` and the steps of `create_task`; composes each handler with what it does to the bytes |
| `FakeWorker` | extends `TaskQueue` with a fleet: processes of the script, step by step, beside workers known by the lease contract; implements `TaskQueue` with `Orderly` TRUE |
| `Library` | extends `FakeWorker` with keys, objects, upload slots, playable files and the watch history |
| `WatchRoom` | one room code: RoomState objects, handlers, broadcasts send by send, what each client was told |
| `ArrCache` | the TTL cache with the five routes in front of it, and the requests that overlap |
| `Accounts` | accounts, invite keys, plans with their expiry; registrations and patches that overlap |
| `Catalogue` | TMDB ids of media items, releases with their age; searches and lists of releases that overlap |
| `TaskQueueProofs`, `QuotaProofs`, `FakeWorkerProofs`, `LibraryProofs`, `RoomProofs`, `ArrCacheProofs`, `AccountsProofs`, `CatalogueProofs` | theorems and their proofs |
| `MCTaskQueue`, `MCTaskQuota`, `MCLibrary`, `MCWatchRoom`, `MCArrCache`, `MCAccounts`, `MCCatalogue` | constants and symmetry for TLC |

`TaskQuota` and `FakeWorker` each compose the queue with another component, and
`Library` composes three: the queue, the fleet and what users see of both.

### TaskQueue

`rows[t]` is the row of task t with the four columns the protocol works on. The
lease is `none` (NULL), `live` or `expired`, since the code only ever compares
`lease_expires_at` with the clock; `LeaseExpires` is the clock passing it.
Tasks are numbered in the order of `created_at` (no code sets `priority`).
`files` are the rows of `task_files`, `library` the library items per title, that
is per user and media item.

A request is served in two steps. `...Read` is the SELECT with the checks and
early returns that follow it; the row as read is kept in `reqs[s]`. `...Commit`
is the flush: SQLAlchemy writes the columns whose value differs from the one
loaded (`Merge`, `Flush`) and leaves the others as they are by then. The commit
of a heartbeat and a claim always writes the lease, because the new time differs
from any loaded before. `claim_task` holds the row lock from `ClaimLock` to
`ClaimCommit`: no other commit touches the row in between (`~ClaimLocked`), and
another claim skips it. A claim may also skip a row another transaction happens
to have locked (`MayBeLocked`). `ManifestCommit` rolls back when a path is there
already. `complete` looks its files up one await after another; the model does
it at the commit, since a row of `task_files` never goes away. `Abort` ends a
request without a commit. `ClaimCommit(s, FALSE)` is a claim whose answer never
reaches the worker.

Workers are outside the repository's code; what they may send follows from the
protocol the handlers serve and from `app/start_doc_spec.md`. A worker sends
about tasks it was told to download (`handed`), and forgets one when it has
reported on it or was answered 409 (`ToldGone`). With `Orderly` FALSE nothing
else holds: its requests overlap and come late. With `Orderly` TRUE it keeps its
side of the contract: one report about a task at a time (heartbeats run beside
it), and its lease does not run out while it is running, since it heartbeats
every minute with a lease of ten. A killed worker comes back under a new
identity, so `stopped` only grows, and one identity is always left.

### TaskQuota

Each worker action and `CancelCommit` of `TaskQueue` is conjoined with what the
same handler does to `reserved_bytes` (`QManifestCommit` and so on), again only
if the value differs from the one read. `sizes` are the `size_bytes` of the files,
`said` what a request under way reports for each, out of `FileSize`, or nothing: a
manifest then writes 0, and a complete leaves the size alone. Else `complete` writes
what it reports over what the manifest did (`QCompleteCommit`).
`create_task` takes four steps: the
SELECT of the used bytes, the SELECT of the reserved ones with the verdict, the
flush with the lookup of the library item, and the commit, which loses the task
when the library item has come to be meanwhile. `touched` is a history variable:
the tasks a cancel was committed on.

### FakeWorker

`script[w]` is where the process with identity w is in the cycle of
`fake_worker.py`: at an operation, or waiting for its answer; the heartbeat it is
at (`Beats` of them, 3 in the script) and the upload slots it has yet to fill. A
request of `TaskQueue` is sent by such a process only from its place in the cycle
(`Sends`), and the commit moves the process on if it succeeds and the answer
arrives (`Answer`). All else ends the process: it raises on every status that is
not a success, and on the null that a claim gets from an empty queue with status
200, where the script looks for 204. So `Dies` may come at any time, and the next
process comes back under another identity. The other workers keep `OneReport` as in
`TaskQueue`. The lease of a process that runs does not run out: its cycle lasts
seconds, the lease ten minutes (`Backend`, whose `LeaseExpires` asks for
`Unattended`). That is all of the contract that is given to the script; the module is
used with `Orderly` FALSE, and that the script has one report under way at a time
follows from its own order of requests (`KeepsContract`, proved and not run).

### Library

`keys` is `s3_key` of each file, `objects` the file whose contents the bucket has
under a key, `slots` the upload slots a contract worker was given and whether it
put its file there, `told` the key a complete under way reports for each file, or
none. A file of a manifest gets the key made from user, title and the last component
of its path (`S3Key`). The script puts and goes on whatever the bucket says
(`LFillSlot`), and reports the key `""`. A contract worker may report any key: that of
its slot, or none, only of a file it has put there, and any other it likes
(`Elsewhere`, which may hold keys of other files, too). `complete` stores what it is
told with the files that have a row (`LComplete`). `Playable` is the condition of
`GET /api/files/{id}/url`; presigned URLs do not expire in the model. `PutHistory`
comes from any user on any file that has a row, as the handler asks for no more; an
entry is of a user and a file. Positions and durations are milliseconds, the columns
hundredths of a second (`Stored`), and the verdict of 95 % is on the report.

### WatchRoom

`rooms` are the RoomState objects ever created for a code; `current` is the one
`_rooms` holds. A handler's `room` is the object it got when it joined. A member
dict is a sequence with holes, so that an iterator's position stays meaningful,
and a broadcast in progress remembers the object, the position and the size it
started with: like CPython's iterator it raises when the size has changed.
(Sizes that change and change back are not noticed, as in CPython. That a dict
may be compacted while it grows is not modelled.) With `OneTab` TRUE a user connects again only
after the old handler has left the room. Of playback only playing is kept;
member positions are written and never read. `steady` is a history variable: it
falls when somebody joins, leaves or shares while a handler that promoted a host on
its way out has not told everyone yet (`Heralds`), and is raised by the next promotion
that begins without such a handler, by the end of the room and by a restart. It says
for which states the announcements are promised. Everything else may overlap: joins,
shares and leaves amid the broadcasts of others, and broadcasts that break.

### ArrCache

A resource is one of the two lists, or a series, its episodes or a movie with an
id; `CacheKey` is its key, `TTL` how long it is kept, `Service` who is asked. `Get`
is a miss or a refresh (which deletes the key first; both happen without an
await in between), `Answered` the upstream's answer, `Store` the write, with the
expiry computed from the time the request came. Without settings for the service the
answer is 503, after the delete. `of` and `readAt` of an entry are history: whose
data it holds and when they were read.

### Accounts

Requests are served in a read and a commit, as in `TaskQueue`. `users[e]` is the
row of the account with email e; `keys[k]` is `used_by` of an invite key. Of
`plan_expires_at` the model keeps whether it is NULL, ahead or past, and
`PlanExpires` is the clock passing it; since two dates ahead may be equal or not,
`PatchCommit` has both outcomes of comparing them (`sameDate`). A body of
`patch_user` is a record whose fields are None where JSON has null. The email
check of `register`, the check of the key and the insert are three statements; the
first two have nothing between them that a commit could change to matter and are
one step, and the unique email shows in `RegisterCommit`. `overridden` is a history
variable: the accounts a quota was set on by hand. `Authorise` is the read of
`require_admin`: the session keeps the row of the one who asks, so that a patch of
oneself goes by that row and not by the one in the table (`Seen`). The first account, which the
code cannot make, is an administrator.

### Catalogue

`tmdb[i]` is `tmdb_id` of the media item with kp_id i. A search is a set of items
still to be upserted; `Upsert` commits one and, if it has no id, goes on to
`Resolve`, which is TMDB's answer and the second commit. `releases[i][h]` has
`fetched_at` and, as history, the hour the indexer was read. `fetched_at` is the
start of the transaction, which is the first SELECT of the request, so `since` is
taken in `GetReleases`. The upserts of one list are one step: their row locks are
held to the commit, and a deadlock victim is an `Abort`.

## Runs

Every passing run covers its whole state space.

| Run | Instance | Shows |
|---|---|---|
| `queue_overlap` | 1 task, 2 workers, 2 requests at a time, 2 attempts, any worker behaviour | `OwnershipConsistent`, `ClaimAtomic`, `FailedExhausted`, `AttemptsNearlyBounded`, `NoStealing`; refinement of `TaskOwnership` |
| `queue_orderly` | 1 task, 2 workers, 2 requests, 2 attempts, orderly and fair workers | `OneDownloader`, `NoStranded`, `AttemptsBounded`, `EveryTaskEnds` |
| `quota_orderly` | 2 tasks of one user and title, a file of 3 for releases of 4 and 2, reported with its size or without, 2 creates, 2 requests, 1 attempt | `ReservedAtMostSize`, `LibraryFollowsTasks`, `FootprintShrinks` |
| `library` | 2 tasks of two users for one media item, 1 file name, a process of the script with 1 heartbeat and a contract worker, 2 requests, 1 attempt, 1 key the backend did not choose, 1 report of a player | `PlayableFiles`, `HistoryHonest`, `SettledKeys` |
| `room` | 3 users, 4 connections, one of a user at a time, sends that suspend | `HostPresent`, `Registered`, `HostKeepsRoom`, `HostAnnounced`, `InSync` |
| `cache_overlap` | 3 resources, one service not configured, 2 requests, TTLs 1 and 2, clock to 4 | `FreshWithinTTL` |
| `accounts` | 2 emails, 2 keys, 2 requests, 2 plans, 3 bodies | `KeysTellUsers`, `PlanQuotaAgree`, `AdminFromOthers` |
| `catalogue` | 2 items, one with a known id, 2 ids, 2 releases, 2 requests, window 1, clock to 2 | `ResolvedStays`, `KnownKept`, `FreshWithinWindow` |

Each run also checks the type invariant of its module (`queue_orderly` and the
violated runs leave it to the run beside them).

The bounds. Two requests are the least that overlap, and every late write of the
queue needs one request that read and one that commits meanwhile; with two
attempts a task can be retried once and exhausted. The two tasks
of `quota_orderly` let a claim skip one row for another and share a library item. `MaxAttempts` is 3 in the
schema; 2 has every transition of it, and the theorems hold for any. Four
connections let the owner come back while two guests hand the room on. `MaxTime`
is twice the longer TTL, so an entry expires and is replaced; the episodes are kept
longer than their series, and a mix-up of keys or TTLs shows. In `library` one
worker of each kind, two users and one file name are the least for a key of one
user to be taken for another's, and one key in `Elsewhere` stands for all that are
not the backend's. One user reports on a file of the other (`Watched`), just below
95 % but shown as 95 once it is rounded, where verdict and list are closest to
parting; `HistoryIsHonest` covers all other reports. In `quota_orderly` a size
that is missing in the manifest and reported by complete is a file that grows, and the
reverse one that is counted from the start. One heartbeat stands for three. The
bodies of `accounts` are one that takes all away,
one that gives a plan for a while with all rights, and one that sets a quota only. Two emails, keys and
plans are the least for which registrations and patches conflict; a second release
lets one fresh row hide one that is not. Workers,
requests and creates are interchangeable, hence the symmetry; the run with a
liveness property uses none. Deadlock is not checked: with all tasks ended, all connections closed
or the clock at its bound the models stop.

Fairness, in `queue_orderly` only: the reaper loops (weak); a request ends, by
commit or abort (weak); the clock reaches a lease nobody extends (weak); a
running worker claims and reports on what it has (strong, since a heartbeat or
another request may hold a slot now and then, and the worker loops with a stall
timeout); of the commits of claims, and of completes and fails, the database does
not refuse every one (strong). No fairness makes a user do anything.

### Disagreements

Four runs are there to be violated; each checks what a comment or a document of
the repository says.

| Run | What the code does |
|---|---|
| `stranded_task` | `worker_manifest` checks neither owner nor lease. After the reaper took a task back, a late manifest sets it to `downloading` with no worker and no lease; no claim and no reaper looks at it again. |
| `retried_manifest` | A second attempt sends the same paths again; `uq_task_files_task_path` refuses them and manifest answers 500. |
| `quota_two_creates` | Two creates that overlap both pass `check_quota`. |
| `room_two_tabs` | The first connection of a user to close removes the user, although the other one is open; the host is replaced while still listening. |

Without a run of their own: a fetch of the *arr cache that began before a refresh
stores its older data over what the refresh stored; two registrations that read
one unused key both succeed, and the key names the later; two overlapping patches
may leave the plan of one with the expiry of the other, and two administrators may
demote each other (`AdminFromOthers` says that only a patch of another, itself
demoted meanwhile, takes the last right); two files of one user, title and name
share an object and the last upload wins; the script reports the key `""`, which
`complete` stores, so that what it uploaded cannot be played; `complete` stores any
other key and any size just the same, so that a URL may lead to no object or to that
of another file, and a task may weigh more than its manifest said; the script looks
for status 204 where an empty queue answers 200; a fail that read a task before
it was reaped and claimed anew takes it from the new worker (so
`TaskOwnership!Settle` allows a release at any time); a cancel that read an
assigned row may write `canceled` over `downloading`; a task canceled while
assigned is completed all the same by its worker, and weighs in again; a promotion
whose broadcast breaks, because somebody joined or left between it and its news, is
not announced to all, and the news of an earlier promotion may come after that of a
later one; which is why `HostAnnounced` asks for `steady`.

### What the passing properties do not say

`OneDownloader`, `NoStranded` and `AttemptsBounded` need orderly workers: the
code alone does not provide them. `FootprintShrinks` leaves out tasks that were
canceled, files larger than their release, and a complete that reports a file larger
than its manifest did; what a task weighs is taken in one instant, while the check
reads it in two SELECTs. `HostAnnounced` and `InSync` do not speak of rooms in which
somebody joined, left or shared between the last promotion and its news. A room the
owner has not come back to after a restart has a host who is not there, and no property
asks for another. `PlayableFiles` says where a URL leads only if its key is the one the
backend chose, and does not say that the object is the very file: two files of one
user, title and name share it. `SettledKeys` is about workers that report a task once,
as the contract has it; a second complete of one task would store its keys again.
`HistoryHonest` speaks of durations of a second or more, and leaves a point of
a percent to rounding.

## Proofs

Checked by TLAPS for every value of the constants. What is assumed are the named
assumptions of the modules (`QueueAssumption`, `QuotaAssumption`,
`FleetAssumption`, `LibraryAssumption`, `KeyAssumption`, `RoomAssumption`,
`CacheAssumption`, `AccountsAssumption`, `CatalogueAssumption`), which TLC evaluates in the runs, and, where a theorem says
so, a premise of its own:

| Premise | Theorems | What it stands for |
|---|---|---|
| `Orderly` | `OneDownloaderHolds`, `NoneStranded`, `AttemptsWithinMax`, `NeverHeavier` | workers that keep the lease contract, which the code asks of them and does not enforce |
| `OneTab` | `HandlersRegistered`, `HostsAnnounced`, `PlaybackInSync`, `HostsKeepRoom` | a user comes back after the old connection has left |
| `IsFiniteSet(Slot)` | `AttemptsNearlyWithinMax` | the backend serves finitely many requests at a time |

`KeyAssumption` says that NULL is not a key and that the backend never chooses the empty
one, `QuotaAssumption` that a torrent has finitely many files and that sizes are naturals. No theorem of a fleet or of the library needs `Orderly`: what
the contract workers may send is in `Requests`, and the script has to show it.

`TaskQueueProofs` proves `TypeOK`, `OwnershipConsistent`, `ClaimAtomic`,
`FailedExhausted`, `NoStealing` and the refinement of `TaskOwnership`, none of
them assuming `Orderly`. The inductive invariant `IInv` adds to the first four:

* `AbsentBlank`: a row that does not exist yet has no worker and no attempts;
* `ClaimSound`: a claim under way read a queued row that nobody had, the row is
  still queued with the attempts that were read, and no other claim is on it. This
  is what the row lock gives, and why every commit is guarded by `~ClaimLocked`;
* `FailSound`: the row a fail read was not queued and had the sender as its worker,
  and it has at least as many attempts now. With the merge of the flush this is
  what keeps a late fail from leaving `queued` with a worker, or `failed` with
  attempts to spare.

It needs strengthening because a late commit depends on what was read long ago:
`OwnershipConsistent` alone does not know how the row a request remembers relates
to the row now. Attempts never fall, which carries `FailSound` across every
action. The refinement maps the holder to `rows[t].worker`; each commit is a
`Grant`, a `Settle` or a stutter, and `NoStealing` follows from the same lemmas.

`AttemptsNearlyBounded` is by counting (`Spare`): once a task has used up its
attempts, only fails that read it before can bring it back (`Stale`), each of them
at most once, and no new one can appear; the claim that used up the last attempt
held a slot that none of them has. Hence attempts, stale fails and the queued row
together stay below the maximum plus the number of slots.

With `Orderly`, `TaskQueueProofs` proves `OneDownloader`, `NoStranded` and
`AttemptsBounded`. `OInv` says, on top of `IInv`, that a row with a worker has a
lease and a row in progress has a worker (`RowsSound`); that who was told to download
a task has it and its lease has not run out (`Holders`); that a report under way comes
from the worker that has the task, since the attempt it read, and is the only one on
it (`ReportsSound`); and that who is gone holds nothing (`Gone`). The contract is used
twice: a second report cannot begin, and a lease does not expire under a running
worker, so that no report is ever late.

`QuotaProofs` first shows that `TaskQuota` implements `TaskQueue`
(`QuotaImplementsQueue`), each step of it being a step of the queue or none; all
that is proved of the queue then holds of it. `LibraryFollows` needs that whoever
reports on a task reports on one that exists (`Shelf`), and that a create without a
library item to make commits only if there is one. `NeverOverReserved` rests on
`ReservedSound`: what a request read was within the size of the release, so a late
write is, too. That sums of sizes are naturals, that they grow with the set and that
they split are lemmas of their own (`TotalNat`, `TotalMonotone`, `TotalRemove`): the
sum is a recursive function over sets of files, unfolded by well-founded induction
over their subsets (`SubsetInduction`).

`NeverHeavier` proves `FootprintShrinks`. What a task weighs is what it reserves while
it is counted and the sizes of the files it has uploaded. That sizes are naturals, and 0
where there is no file, is `SizesSound`. `BInv` says, on top of `OInv`, of every task no
cancel was committed on (`Bears`): it is not canceled; until it is completed nothing of
it counts as uploaded; as long as it is queued or active it reserves the whole release
while not all its files are known, and at least the sum of its files if they add up to no
more than the release (`Covered`); a task handed to a worker is active; and a report
under way on it read it active, and names all its files if it is a manifest. So the row
a report writes back is not stale, a manifest can only bring the reservation down to the
sum of the sizes it reports, and complete turns what was reserved into used bytes that
add up to no more, provided that it reports no file larger than it was (`Grew`).

`FakeWorkerProofs` proves `KeepsContract` (`ScriptKeepsContract`): a process that awaits
nothing has no request in flight, and one that awaits an answer has one (`Quiet`). So its
next request is the only one, although nothing in `FakeWorker` demands it. No run checks
it: it is about the order of the script's own steps, and the proof covers every fleet.

`LibraryProofs` shows that the library implements the fleet and the fleet the queue,
and that the fleet keeps `OInv` without `Orderly` (`FleetOInv`): hence
`FleetOneDownloader`, `FleetNoneStranded` and `FleetAttemptsWithinMax`, and
`LibraryKeepsContract`. Of the library itself it proves `LTypeOK`, `PlayableFiles`,
`SettledKeys` and `HistoryHonest`, whatever keys completes report. `LInv` adds that the
title of an uploaded file is ready (`FilesSound`); that a slot
that is filled has put an object under the key of its file, and that a file that is
uploaded with the key of its manifest, or that a complete under way leaves with that key
or gives it (`Vouches`), has an object under it (`ObjectsSound`): objects are replaced by
others of the same user, title and name and never removed, so a late complete still
finds one; and that each entry of the history comes from one report (`HistorySound`).
`KeysSettle` needs `SInv`: of a task with a file that is uploaded (`Over`) nobody has
anything to report any more, and nothing is under way (`Closed`). It holds because who
completes has the task, and with one report at a time nobody else does (`OInv`).
`HistoryHonest` is then arithmetic on that report: rounding moves position and duration
by five thousandths of a second, which is less than a point of a percent from a duration
of one second on.

`RoomProofs` proves `TypeOK` and `HostPresent` for any number of connections of a
user, and `Registered`, `HostKeepsRoom`, `HostAnnounced` and `InSync` for one at a
time. `WInv` says that the list of keys of each room agrees with its sockets
(`Agrees`), without which the promotion of the first member could name someone who
left. `Registered` needs that handlers inside have a room at all (`Present`).
`HostKeepsRoom` follows from it: who is replaced as the host is the user of the
handler that ends, and no other connection is registered for that user.

`HostAnnounced` and `InSync` rest on two more invariants. `CInv` holds always: a
broadcast of a `state` says how the room plays and its handler is the host's (`Shares`);
were the playback to change or the host to go meanwhile, it would be by that handler
itself. `VInv` holds as long as the last promotion was let alone (`steady`). If no handler
has news of the host, then all know the host, and each knows the playback or still comes
in the broadcast of a `state` (`Calm`). That broadcast may break, as somebody joins or
leaves; but then the host's handler ends, and its promotion tells everyone both. If
a handler has such news, it is the only one, nobody shares, and who does not know yet
comes later in its broadcast, which nobody disturbs, or `member_left` is still going out
and the promotion follows (`Sound`). When a broadcast is over nobody comes later in it, so
all know, or the promotion begins. A promotion nobody could be told of does not count:
the room is empty then.

`ArrCacheProofs` proves `FreshWithinTTL`: a request takes the time before it reads
the upstream (`AgeBound`), so no expiry lies more than TTL after the reading, and an
entry is under the key of its own resource.

`AccountsProofs` proves all properties of `Accounts`. For `PlanQuotaAgree` the
invariant says that accounts without a quota by hand, and what requests remember
of them, have the quota of their plan. Two patches that overlap mix columns, but
plan and quota always change together, because plans have different quotas
(`UpdatedRow`); for an expired plan quota and plan are both the free one's. For `AdminFromOthers` it says that a
patch of oneself goes by a row on which one is an administrator, so that all it
could do to this right is to take it, which the code forbids.

`CatalogueProofs` proves `KnownKept`, `FreshWithinWindow` and `ResolvedStays`. The
inductive invariant adds what a request remembers (`RequestSound`): TMDB is asked
only about an item that came without an id, which keeps a late answer from
replacing a given one, and a fetch began before the indexer was read, which with
`FetchedBeforeRead` bounds the age of what is shown as fresh. No action removes a
row, so what a request remembers stays true until it commits.

Only model-checked: `EveryTaskEnds`. It is liveness under fairness, and its argument
is about when actions are enabled; both are out of the prover's reach. All the other
properties of the passing runs are proved.

## Not modelled

* **Reviews.** One upsert per user and item and a list; nothing else reads or
  writes them, and the database runs each as one statement.
* **Rate limit.** A list of times per key, filtered, checked and appended without
  an await in between. It guards the search only, and `Catalogue` lets a search come
  at any time, which includes every moment the limit would let through.
* **Release titles** (`services/quality.py`). Regular expressions over titles; no
  decision of the queue, the quota or the catalogue depends on what they find.
* **Payloads.** The mapping of Kinopoisk, TMDB, Sonarr, Radarr and JacRed answers to
  columns: fields copied and renamed, with no state.
* **Hashing and tokens.** They compute; what follows from who asks is modelled.
* **The shell.** Wiring, settings, migrations, the page and the routes for
  development, the second script (`upload_mentalist.py`, one upload by hand).
* **Slow clients of a room, in time.** That a broadcast ends depends on every client
  reading: a client that does not read stalls it without a timeout, and there is no
  fairness of the code under which it ends. With clients that read at last, the
  state space of `room` is beyond what the temporal check covers in useful time.
* **Plans and bytes together.** A quota that falls below what is used leaves the
  user over the limit, by design; `Accounts` has the limit in effect, `TaskQuota` the
  bytes under a limit that stays.

Left out of modelled parts: progress, speed and error texts; contents of files;
presigned URLs that expire. A reaper pass is one step, although it is two statements
in one transaction: a row that expires between them is as one that expires after the
pass. Row locks are held by a handler between its flush and its commit without
another await on other rows, so they are not modelled as waiting, apart from those
of claims; two fetches of releases that lock rows in opposite orders end in the
database refusing one, an `Abort` of `Catalogue`.

## Plan

1. Done: all modules above, their runs and proofs.
2. Next, where it pays: the limit in effect of `Accounts` as the limit of
   `TaskQuota`, in one module; two rooms whose codes collide.
3. An abstract store that only promises freshness, implemented by `ArrCache` and by
   the releases of `Catalogue`.
