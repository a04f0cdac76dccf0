--------------------------- MODULE LibraryProofs ---------------------------
(***************************************************************************)
(* From an upload to the screen, for a fleet of any size: the library of   *)
(* files implements the fleet, which implements the queue, so what is      *)
(* proved of those holds here, too; whoever is given a URL of the key that *)
(* the backend chose finds an object there; an uploaded file keeps its key;*)
(* and the history is honest about what was seen.                          *)
(***************************************************************************)
EXTENDS Library, TaskQueueProofs, FakeWorkerProofs

LEMMA FleetStepIsStep == [FNext]_fvars => [Next]_vars
<1>1. Backend => Next
  BY DEF Backend, Next, Commit
<1>2. ASSUME NEW s \in Slot, NEW w \in Worker, NEW t \in Task, Requests(s, w, t) PROVE Next
  BY <1>2 DEF Requests, Next
<1>3. ASSUME NEW s \in Slot, NEW delivered \in BOOLEAN, Replies(s, delivered) PROVE Next
  BY <1>3 DEF Replies, Next, Commit
<1>4. ASSUME NEW w \in Worker, Dies(w) PROVE Next
  BY <1>4 DEF Dies, Next
<1>5. ASSUME NEW w \in Script, Register(w) \/ \E p \in Path : FillSlot(w, p) PROVE UNCHANGED vars
  BY <1>5 DEF Register, FillSlot
<1> QED
  BY <1>1, <1>2, <1>3, <1>4, <1>5 DEF FNext, fvars

(* The fleet works on the download queue: whatever is proved of TaskQueue  *)
(* holds of it.                                                            *)
THEOREM FleetImplementsQueue == FSpec => Spec
<1>1. FInit => Init
  BY DEF FInit
<1> QED
  BY <1>1, FleetStepIsStep, PTL DEF FSpec, Spec

LEMMA LibraryStepIsStep == [LNext]_<<fvars, lvars>> => [FNext]_fvars
<1>1. ASSUME NEW s \in Slot, NEW w \in Worker, NEW t \in Task, LRequests(s, w, t) PROVE FNext
  BY <1>1 DEF LRequests, FNext
<1>2. ASSUME NEW s \in Slot, NEW delivered \in BOOLEAN,
             LManifest(s, delivered) \/ LComplete(s, delivered) \/ LReply(s, delivered)
      PROVE  FNext
  BY <1>2 DEF LManifest, LComplete, LReply, FNext
<1>3. LBackend => FNext
  BY DEF LBackend, FNext
<1>4. ASSUME NEW w \in Worker, NEW f \in FileOf, Put(w, f) PROVE UNCHANGED fvars
  BY <1>4 DEF Put
<1>5. ASSUME NEW w \in Script, NEW p \in Path, NEW stored \in BOOLEAN, LFillSlot(w, p, stored) PROVE FNext
  BY <1>5 DEF LFillSlot, FNext
<1>6. ASSUME NEW u, NEW f, NEW r \in Report, PutHistory(u, f, r) PROVE UNCHANGED fvars
  BY <1>6 DEF PutHistory
<1> QED
  BY <1>1, <1>2, <1>3, <1>4, <1>5, <1>6 DEF LNext

(* The files and objects change nothing for the fleet.                     *)
THEOREM LibraryImplementsFleet == LSpec => FSpec
<1>1. LInit => FInit
  BY DEF LInit
<1> QED
  BY <1>1, LibraryStepIsStep, PTL DEF LSpec, FSpec

(* So the processes of the script and the workers beside them keep the     *)
(* lease contract in the library, too.                                     *)
THEOREM LibraryKeepsContract == LSpec => KeepsContract
<1> QED
  BY LibraryImplementsFleet, ScriptKeepsContract, PTL

-----------------------------------------------------------------------------
(* What the lease contract buys holds of the fleet, which keeps it without *)
(* being told to: its reports come from workers with no other under way.   *)
LEMMA FleetOInv == IInv /\ IInv' /\ OInv /\ FInv /\ [FNext]_fvars => OInv'
<1> SUFFICES ASSUME IInv, IInv', OInv, FInv, [FNext]_fvars PROVE OInv'
  OBVIOUS
<1>1. CASE Backend
  <2>1. ASSUME NEW t \in Task, CreateTask(t) \/ (Unattended(t) /\ LeaseExpires(t)) PROVE OInv'
    BY <2>1, CreateStep, ExpiryStep
  <2>2. ASSUME NEW s \in Slot, CancelCommit(s) PROVE OInv'
    BY <2>2, CommitStep DEF Commit
  <2>3. ASSUME NEW s \in Slot, Abort(s) PROVE OInv'
    <3>1. \A r \in Slot : reqs'[r] = reqs[r] \/ reqs'[r].op = "idle"
      BY <2>3, DoneShape DEF Abort, IInv
    <3> QED
      BY <2>3, <3>1, QuietStep DEF Abort, OInv, Gone
  <2>4. ASSUME NEW s \in Slot, NEW t \in Task, CancelRead(s, t) PROVE OInv'
    BY <2>4, StartStep DEF CancelRead, Reports
  <2>5. ASSUME NEW w \in Worker, NEW t \in Task, ToldGone(w, t) PROVE OInv'
    BY <2>5, QuietStep DEF ToldGone, Forget, OInv, Gone, IInv, TypeOK
  <2> QED
    BY <1>1, <2>1, <2>2, <2>3, <2>4, <2>5, ReapStep DEF Backend
<1>2. ASSUME NEW s \in Slot, NEW w \in Worker, NEW t \in Task, Requests(s, w, t) PROVE OInv'
  <2>1. ASSUME NEW op, w \in Script, Sends(w, op), w \notin stopped PROVE OneReport(w, t)
    BY <2>1, QuietProcess DEF Sends, FInv, Doing
  <2>2. ASSUME ClaimLock(s, w, t) PROVE OInv'
    BY <2>2, StartStep DEF ClaimLock, Reports
  <2>3. ASSUME HeartbeatRead(s, w, t) PROVE OInv'
    BY <2>3, StartStep DEF HeartbeatRead, Reports
  <2>4. ASSUME NEW paths \in SUBSET Path, ManifestRead(s, w, t, paths), Sends(w, "manifest"),
               w \notin Script => OneReport(w, t)
        PROVE  OInv'
    <3>1. OneReport(w, t)
      BY <2>1, <2>4 DEF ManifestRead, MaySend
    <3> QED
      BY <2>4, <3>1, StartStep DEF ManifestRead, MaySend
  <2>5. ASSUME NEW paths \in SUBSET Path, CompleteRead(s, w, t, paths), Sends(w, "complete"),
               w \notin Script => OneReport(w, t)
        PROVE  OInv'
    <3>1. OneReport(w, t)
      BY <2>1, <2>5 DEF CompleteRead, MaySend
    <3> QED
      BY <2>5, <3>1, StartStep DEF CompleteRead, MaySend
  <2>6. ASSUME OneReport(w, t), FailRead(s, w, t) PROVE OInv'
    BY <2>6, StartStep DEF FailRead, MaySend
  <2> QED
    BY <1>2, <2>2, <2>3, <2>4, <2>5, <2>6 DEF Requests
<1>3. ASSUME NEW s \in Slot, NEW delivered \in BOOLEAN, Replies(s, delivered) PROVE OInv'
  BY <1>3, CommitStep DEF Replies, Commit
<1>4. ASSUME NEW w \in Worker, Dies(w) PROVE OInv'
  BY <1>4, QuietStep DEF Dies, WorkerStops, OInv, Gone, IInv, TypeOK
<1>5. ASSUME UNCHANGED vars PROVE OInv'
  BY <1>5, QuietStep DEF vars, OInv, Gone
<1>6. ASSUME NEW w \in Script, Register(w) \/ \E p \in Path : FillSlot(w, p) PROVE OInv'
  BY <1>5, <1>6 DEF Register, FillSlot
<1> QED
  BY <1>1, <1>2, <1>3, <1>4, <1>5, <1>6 DEF FNext, fvars

LEMMA FleetInductive == FSpec => []OInv
<1>1. FSpec => []IInv
  BY FleetImplementsQueue, Inductive, PTL
<1>2. FInit => FInv /\ OInv
  BY InitKeeps, InitOInv DEF FInit
<1>3. IInv /\ IInv' /\ OInv /\ FInv /\ [FNext]_fvars => OInv' /\ FInv'
  BY FleetOInv, StepKeeps
<1> QED
  BY <1>1, <1>2, <1>3, PTL DEF FSpec

(* No two workers of the fleet download the same task.                     *)
THEOREM FleetOneDownloader == FSpec => []OneDownloader
<1>1. OInv => OneDownloader
  BY DEF OInv, Holders, OneDownloader
<1> QED
  BY <1>1, FleetInductive, PTL

(* A worker of the fleet that dies leaves no task the reaper cannot find.  *)
THEOREM FleetNoneStranded == FSpec => []NoStranded
<1>1. OInv => NoStranded
  BY DEF OInv, RowsSound, RowSound, NoStranded
<1> QED
  BY <1>1, FleetInductive, PTL

(* The fleet does not claim a task more often than max_attempts.           *)
THEOREM FleetAttemptsWithinMax == FSpec => []AttemptsBounded
<1>1. OInv => AttemptsBounded
  BY DEF OInv, RowsSound, RowSound, AttemptsBounded
<1> QED
  BY <1>1, FleetInductive, PTL

-----------------------------------------------------------------------------
(* Files: the title of an uploaded file is shown as ready.                 *)
FilesSound ==
  \A t \in Task, p \in Path : files[t][p] = "uploaded" => library[Title[t]] = "ready"

(* What a key leads to, once there is something.                           *)
Held(k) == \E o \in FileOf : objects[k] = o /\ S3Key(o) = k

(* A complete under way leaves the file <<t, p>> with the key it has from  *)
(* its manifest, or gives it back.                                         *)
Vouches(s, t, p) ==
  /\ InFlight(s, "complete")
  /\ reqs[s].task = t /\ p \in reqs[s].paths
  /\ told[s][p] \in {None, S3Key(<<t, p>>)}

(* Objects: a slot is filled by a PUT under the key of its file; who lets  *)
(* a file have that key has put it there; and so an uploaded file that has *)
(* the key of its manifest is there.                                       *)
ObjectsSound ==
  /\ \A w \in Worker, f \in FileOf : slots[w][f] = "filled" => Held(S3Key(f))
  /\ \A s \in Slot, t \in Task, p \in Path : Vouches(s, t, p) => Held(S3Key(<<t, p>>))
  /\ \A t \in Task, p \in Path :
       files[t][p] = "uploaded" /\ keys[<<t, p>>] = S3Key(<<t, p>>) => Held(S3Key(<<t, p>>))

Entry(r) == [position |-> Stored(r.position), duration |-> Stored(r.duration),
             completed |-> Completed(r)]

(* The history has entries that a player's reports made.                   *)
HistorySound ==
  /\ DOMAIN history = Watched
  /\ \A x \in Watched : history[x] = None \/ \E r \in Report : history[x] = Entry(r)

(* Inductive together with IInv and Shelf.                                 *)
LInv == LTypeOK /\ FilesSound /\ ObjectsSound /\ HistorySound

Queue == IInv /\ Shelf

-----------------------------------------------------------------------------
LEMMA KeyOf ==
  ASSUME NEW t \in Task, NEW p \in Path
  PROVE  /\ <<t, p>> \in FileOf /\ <<t, p>>[1] = t /\ <<t, p>>[2] = p
         /\ S3Key(<<t, p>>) \in S3Keys /\ S3Key(<<t, p>>) \in Key
         /\ S3Key(<<t, p>>) # None /\ EmptyKey # None /\ S3Key(<<t, p>>) # EmptyKey
<1>1. <<t, p>> \in FileOf
  BY DEF FileOf
<1>2. S3Key(<<t, p>>) \in S3Keys
  BY <1>1 DEF S3Keys
<1> QED
  BY <1>1, <1>2, KeyAssumption DEF Key

(* An object stays, or another of the same name takes its place.           *)
LEMMA PutHolds ==
  ASSUME LTypeOK, NEW f \in FileOf, objects' = [objects EXCEPT ![S3Key(f)] = f]
  PROVE  /\ objects' \in [S3Keys -> FileOf \cup {None}]
         /\ Held(S3Key(f))'
         /\ \A k \in S3Keys : Held(k) => Held(k)'
<1>1. S3Key(f) \in S3Keys
  BY DEF S3Keys
<1>2. objects \in [S3Keys -> FileOf \cup {None}]
  BY DEF LTypeOK
<1>3. objects'[S3Key(f)] = f /\ \A k \in S3Keys : k # S3Key(f) => objects'[k] = objects[k]
  BY <1>1, <1>2
<1>4. Held(S3Key(f))'
  BY <1>3 DEF Held
<1>5. \A k \in S3Keys : k # S3Key(f) /\ Held(k) => Held(k)'
  BY <1>3 DEF Held
<1> QED
  BY <1>1, <1>2, <1>4, <1>5

(* What leaves of slots and bodies: some slots are dropped, the bodies of  *)
(* requests still under way stay.                                          *)
Kept ==
  /\ slots' \in [Worker -> [FileOf -> {"none", "open", "filled"}]]
  /\ \A w \in Worker, f \in FileOf : slots'[w][f] = "filled" => slots[w][f] = "filled"
  /\ told' \in [Slot -> [Path -> Key \cup {None}]]
  /\ \A s \in Slot : InFlight(s, "complete")' => told'[s] = told[s]

LEMMA SlotsDropped ==
  ASSUME LInv, DropSlots
  PROVE  /\ slots' \in [Worker -> [FileOf -> {"none", "open", "filled"}]]
         /\ \A w \in Worker, f \in FileOf : slots'[w][f] = "filled" => slots[w][f] = "filled"
BY DEF LInv, LTypeOK, DropSlots

LEMMA BodiesDropped ==
  ASSUME LInv, DropBodies
  PROVE  /\ told' \in [Slot -> [Path -> Key \cup {None}]]
         /\ \A s \in Slot : InFlight(s, "complete")' => told'[s] = told[s]
<1>1. Silent \in [Path -> Key \cup {None}]
  BY DEF Silent
<1> QED
  BY <1>1 DEF LInv, LTypeOK, DropBodies, Idle, InFlight

(* A step that leaves the files alone and starts no complete.              *)
LEMMA FilesStay ==
  ASSUME Queue, LInv, Queue', UNCHANGED <<files, keys, objects, history>>,
         \A x \in Titles : library[x] = "ready" => library'[x] = "ready",
         \A s \in Slot : InFlight(s, "complete")' => reqs'[s] = reqs[s],
         Kept
  PROVE  LInv'
<1>1. LTypeOK'
  BY DEF LInv, LTypeOK, Kept
<1>2. \A t \in Task : Title[t] \in Titles
  BY DEF Titles
<1>3. FilesSound'
  BY <1>2 DEF LInv, FilesSound
<1>4. \A k : Held(k)' <=> Held(k)
  BY DEF Held
<1>5. \A s \in Slot, t \in Task, p \in Path : Vouches(s, t, p)' => Vouches(s, t, p)
  BY DEF Vouches, InFlight, Kept
<1>6. ObjectsSound'
  BY <1>4, <1>5 DEF LInv, ObjectsSound, Kept
<1>7. HistorySound'
  BY DEF LInv, HistorySound
<1> QED
  BY <1>1, <1>3, <1>6, <1>7 DEF LInv

-----------------------------------------------------------------------------
(* A worker that lets a file have the key of its manifest has put it there.*)
LEMMA RequestsStep ==
  ASSUME Queue, LInv, Queue', NEW s \in Slot, NEW w \in Worker, NEW t \in Task, LRequests(s, w, t)
  PROVE  LInv'
<1>1. PICK op \in {"claim", "manifest", "heartbeat", "complete", "fail"}, paths \in SUBSET Path :
        Start(s, op, w, t, paths)
  <2>1. {} \in SUBSET Path
    OBVIOUS
  <2>2. ASSUME ClaimLock(s, w, t) \/ HeartbeatRead(s, w, t) \/ FailRead(s, w, t)
        PROVE  \E op \in {"claim", "heartbeat", "fail"} : Start(s, op, w, t, {})
    BY <2>2 DEF ClaimLock, HeartbeatRead, FailRead
  <2>3. ASSUME NEW paths \in SUBSET Path, ManifestRead(s, w, t, paths)
        PROVE  Start(s, "manifest", w, t, paths)
    BY <2>3 DEF ManifestRead
  <2>4. ASSUME NEW paths \in SUBSET Path, CompleteRead(s, w, t, paths)
        PROVE  Start(s, "complete", w, t, paths)
    BY <2>4 DEF CompleteRead
  <2> HIDE DEF Start
  <2> QED
    BY <2>1, <2>2, <2>3, <2>4 DEF LRequests, Requests
<1>2. UNCHANGED <<files, library, keys, objects, slots, history>>
  BY DEF LRequests, Requests, ClaimLock, HeartbeatRead, FailRead, ManifestRead, CompleteRead, lvars
<1>3. /\ \A r \in Slot : r # s => reqs'[r] = reqs[r]
      /\ reqs'[s] = [op |-> op, by |-> w, task |-> t, seen |-> rows[t], paths |-> paths]
  BY <1>1, StartShape DEF Queue, IInv
<1>4. /\ told' \in [Slot -> [Path -> Key \cup {None}]]
      /\ \A r \in Slot : r # s => told'[r] = told[r]
      /\ \A p \in paths : op = "complete" /\ told'[s][p] \in {None, S3Key(<<t, p>>)}
                            => slots[w][<<t, p>>] = "filled"
  <2>1. told \in [Slot -> [Path -> Key \cup {None}]]
    BY DEF LInv, LTypeOK
  <2>2. CASE op = "complete"
    <3>1. PICK body \in [paths -> Key \cup {None}] :
            /\ \A p \in paths :
                 /\ w \in Script => body[p] = EmptyKey
                 /\ w \notin Script /\ body[p] \in {None, S3Key(<<t, p>>)} => slots[w][<<t, p>>] = "filled"
            /\ told' = [told EXCEPT ![s] = [p \in Path |-> IF p \in DOMAIN body THEN body[p] ELSE None]]
      BY <1>3, <2>2 DEF LRequests
    <3>2. told'[s] = [p \in Path |-> IF p \in paths THEN body[p] ELSE None]
      BY <2>1, <3>1
    <3>3. told'[s] \in [Path -> Key \cup {None}]
      BY <3>2
    <3>4. /\ told' \in [Slot -> [Path -> Key \cup {None}]]
          /\ \A r \in Slot : r # s => told'[r] = told[r]
      BY <2>1, <3>1, <3>3
    <3>5. ASSUME NEW p \in paths, told'[s][p] \in {None, S3Key(<<t, p>>)}
          PROVE  slots[w][<<t, p>>] = "filled"
      <4>1. told'[s][p] = body[p] /\ EmptyKey \notin {None, S3Key(<<t, p>>)}
        BY <3>2, KeyOf
      <4> QED
        BY <3>1, <3>5, <4>1
    <3> QED
      BY <3>4, <3>5
  <2>3. CASE op # "complete"
    BY <1>3, <2>1, <2>3 DEF LRequests
  <2> QED
    BY <2>2, <2>3
<1>5. ASSUME NEW r \in Slot, NEW u \in Task, NEW p \in Path, Vouches(r, u, p)'
      PROVE  Held(S3Key(<<u, p>>))
  <2>1. CASE r = s
    <3>1. u = t /\ p \in paths /\ slots[w][<<t, p>>] = "filled" /\ <<t, p>> \in FileOf
      BY <1>3, <1>4, <1>5, <2>1, KeyOf DEF Vouches, InFlight
    <3> QED
      BY <3>1 DEF LInv, ObjectsSound
  <2>2. CASE r # s
    BY <1>3, <1>4, <1>5, <2>2 DEF Vouches, InFlight, LInv, ObjectsSound
  <2> QED
    BY <2>1, <2>2
<1>6. LTypeOK' /\ HistorySound' /\ FilesSound'
  BY <1>2, <1>4 DEF LInv, LTypeOK, HistorySound, FilesSound
<1>7. \A k : Held(k)' <=> Held(k)
  BY <1>2 DEF Held
<1>8. ObjectsSound'
  BY <1>2, <1>5, <1>7 DEF LInv, ObjectsSound
<1> QED
  BY <1>6, <1>8 DEF LInv

(* A manifest that is accepted gives keys to files that had none.          *)
LEMMA ManifestStep ==
  ASSUME Queue, LInv, Queue', NEW s \in Slot, NEW delivered \in BOOLEAN, LManifest(s, delivered)
  PROVE  LInv'
<1>1. reqs[s].op = "manifest" /\ reqs[s].op # "idle" /\ ManifestCommit(s)
  BY DEF LManifest, InFlight, Replies, ClaimCommit, HeartbeatCommit, CompleteCommit, FailCommit
<1> SUFFICES ASSUME NEW t \in Task, t = reqs[s].task PROVE LInv'
  BY <1>1, RequestShape DEF Queue, IInv
<1> DEFINE paths == reqs[s].paths
           w == reqs[s].by
<1>2. /\ \A r \in Slot : InFlight(r, "complete")' => reqs'[r] = reqs[r]
      /\ UNCHANGED <<library, objects, history>>
      /\ \A k : Held(k)' <=> Held(k)
  BY <1>1, DoneShape DEF ManifestCommit, InFlight, Queue, IInv, LManifest, Held
<1>3. /\ told' \in [Slot -> [Path -> Key \cup {None}]]
      /\ \A r \in Slot : InFlight(r, "complete")' => told'[r] = told[r]
  BY BodiesDropped DEF LManifest
<1>4. CASE paths \cap Present(t) # {}
  <2>1. UNCHANGED <<files, keys, slots>>
    BY <1>1, <1>4 DEF ManifestCommit, LManifest
  <2>2. Kept
    BY <1>3, <2>1 DEF Kept, LInv, LTypeOK
  <2> QED
    BY <1>2, <2>1, <2>2, FilesStay
<1>5. CASE paths \cap Present(t) = {}
  <2>1. /\ \A u \in Task : u # t => files'[u] = files[u]
        /\ \A p \in Path : files'[t][p] = IF p \in paths THEN "pending" ELSE files[t][p]
        /\ \A p \in paths : p \in Path /\ files[t][p] = "absent"
    <3>1. files' = [files EXCEPT ![t] = [p \in Path |-> IF p \in paths THEN "pending" ELSE files[t][p]]]
      BY <1>1, <1>5 DEF ManifestCommit
    <3>2. files \in [Task -> [Path -> {"absent", "pending", "uploaded"}]]
      BY DEF Queue, IInv, TypeOK
    <3>3. paths \subseteq Path
      BY <1>1, RequestShape DEF Queue, IInv
    <3> QED
      BY <1>5, <3>1, <3>2, <3>3 DEF Present
  <2>2. /\ keys' = [f \in FileOf |-> IF f \in {t} \X paths THEN S3Key(f) ELSE keys[f]]
        /\ \/ slots' = slots
           \/ slots' = [slots EXCEPT ![w] = [f \in FileOf |->
                        IF f[1] = t /\ keys'[f] # None THEN "open" ELSE slots[w][f]]]
    BY <1>5 DEF LManifest, Named
  <2> HIDE DEF paths
  <2>3. ASSUME NEW u \in Task, NEW p \in Path
        PROVE  keys'[<<u, p>>] = IF u = t /\ p \in paths THEN S3Key(<<u, p>>) ELSE keys[<<u, p>>]
    BY <2>2, KeyOf
  <2>4. /\ slots' \in [Worker -> [FileOf -> {"none", "open", "filled"}]]
        /\ \A v \in Worker, f \in FileOf : slots'[v][f] = "filled" => slots[v][f] = "filled"
    <3> DEFINE opened == [f \in FileOf |-> IF f[1] = t /\ keys'[f] # None THEN "open" ELSE slots[w][f]]
    <3>1. slots \in [Worker -> [FileOf -> {"none", "open", "filled"}]]
      BY DEF LInv, LTypeOK
    <3>2. w \in Worker =>
          /\ opened \in [FileOf -> {"none", "open", "filled"}]
          /\ \A f \in FileOf : opened[f] = "filled" => slots[w][f] = "filled"
      BY <3>1
    <3>3. slots' = slots \/ slots' = [slots EXCEPT ![w] = opened]
      BY <2>2
    <3> HIDE DEF opened, w
    <3> QED
      BY <3>1, <3>2, <3>3
  <2>5. LTypeOK'
    <3>1. ASSUME NEW f \in FileOf
          PROVE  /\ keys'[f] \in Key \cup {None}
                 /\ keys'[f] = None <=> files'[f[1]][f[2]] = "absent"
                 /\ keys[f] # None => keys'[f] # None
      <4>1. PICK u \in Task, p \in Path : f = <<u, p>>
        BY DEF FileOf
      <4>2. /\ keys[f] \in Key \cup {None}
            /\ keys[f] = None <=> files[u][p] = "absent"
        BY <4>1, KeyOf DEF LInv, LTypeOK
      <4>3. S3Key(f) # None /\ S3Key(f) \in Key /\ f[1] = u /\ f[2] = p
        BY <4>1, KeyOf
      <4> QED
        BY <1>2, <2>1, <2>3, <4>1, <4>2, <4>3
    <3>2. keys' \in [FileOf -> Key \cup {None}]
      BY <2>2, <3>1
    <3>3. \A x \in Watched : history'[x] # None => keys'[x[2]] # None
      BY <1>2, <3>1, LibraryAssumption DEF LInv, LTypeOK
    <3> QED
      BY <1>2, <1>3, <2>4, <3>1, <3>2, <3>3 DEF LInv, LTypeOK
  <2>6. FilesSound'
    BY <1>2, <2>1 DEF LInv, FilesSound
  <2>7. \A r \in Slot, u \in Task, p \in Path : Vouches(r, u, p)' => Vouches(r, u, p)
    BY <1>2, <1>3 DEF Vouches, InFlight
  <2>8. ObjectsSound'
    BY <1>2, <2>1, <2>3, <2>4, <2>7 DEF LInv, ObjectsSound
  <2>9. HistorySound'
    BY <1>2 DEF LInv, HistorySound
  <2> QED
    BY <2>5, <2>6, <2>8, <2>9 DEF LInv
<1> QED
  BY <1>4, <1>5

(* A complete shows the title as ready; a key it reports is stored.        *)
LEMMA CompleteStep ==
  ASSUME Queue, LInv, Queue', NEW s \in Slot, NEW delivered \in BOOLEAN, LComplete(s, delivered)
  PROVE  LInv'
<1>1. reqs[s].op = "complete" /\ reqs[s].op # "idle" /\ CompleteCommit(s)
  BY DEF LComplete, InFlight, Replies, ClaimCommit, HeartbeatCommit, ManifestCommit, FailCommit
<1> SUFFICES ASSUME NEW t \in Task, t = reqs[s].task PROVE LInv'
  BY <1>1, RequestShape DEF Queue, IInv
<1> DEFINE paths == reqs[s].paths \cap Present(t)
<1>2. /\ \A r \in Slot : InFlight(r, "complete")' => reqs'[r] = reqs[r]
      /\ UNCHANGED <<objects, history>>
      /\ \A k : Held(k)' <=> Held(k)
  BY <1>1, DoneShape DEF CompleteCommit, InFlight, Queue, IInv, LComplete, Held
<1>3. /\ \A u \in Task : u # t => files'[u] = files[u]
      /\ \A p \in Path : files'[t][p] = IF p \in paths THEN "uploaded" ELSE files[t][p]
      /\ \A p \in paths : p \in Path /\ files[t][p] # "absent" /\ p \in reqs[s].paths
  <2>1. files' = [files EXCEPT ![t] = [p \in Path |-> IF p \in paths THEN "uploaded" ELSE files[t][p]]]
    BY <1>1 DEF CompleteCommit
  <2>2. files \in [Task -> [Path -> {"absent", "pending", "uploaded"}]]
    BY DEF Queue, IInv, TypeOK
  <2>3. \A p \in paths : p \in Path /\ files[t][p] # "absent" /\ p \in reqs[s].paths
    BY DEF Present
  <2> QED
    BY <2>1, <2>2, <2>3
<1>4. /\ library'[Title[t]] = "ready"
      /\ \A x \in Titles : library[x] = "ready" => library'[x] = "ready"
  <2>1. library' = [library EXCEPT ![Title[t]] = IF @ = "absent" THEN @ ELSE "ready"]
    BY <1>1 DEF CompleteCommit
  <2>2. Title[t] \in Titles /\ library \in [Titles -> {"absent", "in_progress", "ready"}]
    BY DEF Titles, Queue, IInv, TypeOK
  <2>3. library[Title[t]] # "absent"
    BY <1>1 DEF Queue, Shelf, LibraryFollowsTasks
  <2> QED
    BY <2>1, <2>2, <2>3
<1>5. ASSUME NEW u \in Task, NEW p \in Path
      PROVE  keys'[<<u, p>>] = IF u = t /\ p \in paths /\ told[s][p] # None
                                 THEN told[s][p] ELSE keys[<<u, p>>]
  BY KeyOf DEF LComplete, Named, Present
<1>6. Kept
  BY SlotsDropped, BodiesDropped DEF LComplete, Kept
<1>7. ASSUME NEW p \in paths, told[s][p] \in {None, S3Key(<<t, p>>)} PROVE Held(S3Key(<<t, p>>))
  <2>1. p \in Path /\ p \in reqs[s].paths
    BY <1>3
  <2>2. Vouches(s, t, p)
    BY <1>1, <1>7, <2>1 DEF Vouches, InFlight
  <2> QED
    BY <2>1, <2>2 DEF LInv, ObjectsSound
<1>8. told \in [Slot -> [Path -> Key \cup {None}]]
  BY DEF LInv, LTypeOK
<1> HIDE DEF paths
<1>9. LTypeOK'
  <2>1. ASSUME NEW f \in FileOf
        PROVE  /\ keys'[f] \in Key \cup {None}
               /\ keys'[f] = None <=> files'[f[1]][f[2]] = "absent"
               /\ keys[f] # None => keys'[f] # None
    <3>1. PICK u \in Task, p \in Path : f = <<u, p>>
      BY DEF FileOf
    <3>2. /\ keys[f] \in Key \cup {None}
          /\ keys[f] = None <=> files[u][p] = "absent"
      BY <3>1, KeyOf DEF LInv, LTypeOK
    <3>3. f[1] = u /\ f[2] = p /\ told[s][p] \in Key \cup {None}
      BY <1>8, <3>1, KeyOf
    <3> QED
      BY <1>3, <1>5, <3>1, <3>2, <3>3
  <2>2. keys' \in [FileOf -> Key \cup {None}]
    BY <2>1 DEF LComplete
  <2>3. \A x \in Watched : history'[x] # None => keys'[x[2]] # None
    BY <1>2, <2>1, LibraryAssumption DEF LInv, LTypeOK
  <2> QED
    BY <1>2, <1>6, <2>1, <2>2, <2>3 DEF LInv, LTypeOK, Kept
<1>10. FilesSound'
  <2>1. \A u \in Task : Title[u] \in Titles
    BY DEF Titles
  <2> QED
    BY <1>3, <1>4, <2>1 DEF LInv, FilesSound
<1>11. ObjectsSound'
  <2>1. \A r \in Slot, u \in Task, p \in Path : Vouches(r, u, p)' => Vouches(r, u, p)
    BY <1>2, <1>6 DEF Vouches, InFlight, Kept
  <2>2. ASSUME NEW u \in Task, NEW p \in Path,
               files'[u][p] = "uploaded", keys'[<<u, p>>] = S3Key(<<u, p>>)
        PROVE  Held(S3Key(<<u, p>>))
    <3>1. CASE u = t /\ p \in paths
      BY <1>5, <1>7, <2>2, <3>1
    <3>2. CASE ~(u = t /\ p \in paths)
      <4>1. files[u][p] = "uploaded" /\ keys[<<u, p>>] = S3Key(<<u, p>>)
        BY <1>3, <1>5, <2>2, <3>2
      <4> QED
        BY <4>1 DEF LInv, ObjectsSound
    <3> QED
      BY <3>1, <3>2
  <2> QED
    BY <1>2, <1>6, <2>1, <2>2 DEF LInv, ObjectsSound, Kept
<1>12. HistorySound'
  BY <1>2 DEF LInv, HistorySound
<1> QED
  BY <1>9, <1>10, <1>11, <1>12 DEF LInv

(* The other requests, and all that goes on beside them.                   *)
LEMMA BackendStep ==
  ASSUME Queue, LInv, Queue',
         LBackend \/ \E s \in Slot, delivered \in BOOLEAN : LReply(s, delivered)
  PROVE  LInv'
<1>1. UNCHANGED <<keys, objects, history>> /\ Kept
  BY SlotsDropped, BodiesDropped DEF LBackend, LReply, Kept
<1>2. \/ \E t \in Task : CreateTask(t)
      \/ \E s \in Slot, t \in Task : CancelRead(s, t)
      \/ UNCHANGED <<files, library, reqs>>
      \/ UNCHANGED <<files, library>> /\ \E s \in Slot : Done(s)
  <2>1. ASSUME NEW s \in Slot, NEW delivered \in BOOLEAN, LReply(s, delivered)
        PROVE  UNCHANGED <<files, library>> /\ Done(s)
    BY <2>1 DEF LReply, Replies, ClaimCommit, ManifestCommit, HeartbeatCommit, CompleteCommit,
                FailCommit, InFlight
  <2>2. ASSUME NEW w \in Worker, Dies(w) \/ (w \in Script /\ Register(w)) \/ (\E t \in Task : ToldGone(w, t))
        PROVE  UNCHANGED <<files, library, reqs>>
    BY <2>2 DEF Dies, WorkerStops, Register, ToldGone, vars
  <2>3. ASSUME NEW t \in Task, LeaseExpires(t) PROVE UNCHANGED <<files, library, reqs>>
    BY <2>3 DEF LeaseExpires
  <2>4. Reap => UNCHANGED <<files, library, reqs>>
    BY DEF Reap
  <2>5. ASSUME NEW s \in Slot, CancelCommit(s) \/ Abort(s)
        PROVE  UNCHANGED <<files, library>> /\ Done(s)
    BY <2>5 DEF CancelCommit, Abort
  <2>6. Script \subseteq Worker
    BY FleetAssumption
  <2> QED
    BY <2>1, <2>2, <2>3, <2>4, <2>5, <2>6 DEF LBackend, Backend
<1>3. files' = files /\ \A x \in Titles : library[x] = "ready" => library'[x] = "ready"
  BY <1>2 DEF CreateTask, CancelRead, Queue, IInv, TypeOK
<1>4. \A s \in Slot : InFlight(s, "complete")' => reqs'[s] = reqs[s]
  <2>1. ASSUME NEW s \in Slot, NEW t \in Task, CancelRead(s, t)
        PROVE  \A r \in Slot : InFlight(r, "complete")' => reqs'[r] = reqs[r]
    <3>1. Start(s, "cancel", None, t, {}) /\ {} \in SUBSET Path /\ None \in Worker \cup {None}
      BY <2>1 DEF CancelRead
    <3>2. /\ \A r \in Slot : r # s => reqs'[r] = reqs[r]
          /\ reqs'[s] = [op |-> "cancel", by |-> None, task |-> t, seen |-> rows[t], paths |-> {}]
      BY <3>1, StartShape DEF Queue, IInv
    <3> QED
      BY <3>2 DEF InFlight
  <2>2. ASSUME NEW s \in Slot, Done(s)
        PROVE  \A r \in Slot : InFlight(r, "complete")' => reqs'[r] = reqs[r]
    BY <2>2, DoneShape DEF Queue, IInv, InFlight
  <2>3. ASSUME reqs' = reqs
        PROVE  \A r \in Slot : InFlight(r, "complete")' => reqs'[r] = reqs[r]
    BY <2>3
  <2>4. (\E t \in Task : CreateTask(t)) => reqs' = reqs
    BY DEF CreateTask
  <2> QED
    BY <1>2, <2>1, <2>2, <2>3, <2>4
<1> QED
  BY <1>1, <1>3, <1>4, FilesStay

(* Uploads add objects.                                                    *)
LEMMA PutStep ==
  ASSUME Queue, LInv, NEW f \in FileOf, UNCHANGED <<vars, keys, told, history>>,
         objects' = [objects EXCEPT ![S3Key(f)] = f],
         \/ slots' = slots
         \/ \E w \in Worker : slots' = [slots EXCEPT ![w][f] = "filled"]
  PROVE  LInv'
<1>1. /\ objects' \in [S3Keys -> FileOf \cup {None}]
      /\ Held(S3Key(f))'
      /\ \A k \in S3Keys : Held(k) => Held(k)'
  BY PutHolds DEF LInv
<1>2. /\ slots' \in [Worker -> [FileOf -> {"none", "open", "filled"}]]
      /\ \A v \in Worker, g \in FileOf : slots'[v][g] = "filled" => slots[v][g] = "filled" \/ g = f
  <2>1. slots \in [Worker -> [FileOf -> {"none", "open", "filled"}]]
    BY DEF LInv, LTypeOK
  <2>2. ASSUME NEW w \in Worker, slots' = [slots EXCEPT ![w][f] = "filled"]
        PROVE  /\ slots' \in [Worker -> [FileOf -> {"none", "open", "filled"}]]
               /\ \A v \in Worker, g \in FileOf : slots'[v][g] = "filled" => slots[v][g] = "filled" \/ g = f
    BY <2>1, <2>2
  <2> QED
    BY <2>1, <2>2
<1>3. UNCHANGED <<files, library, reqs>>
  BY DEF vars
<1>4. LTypeOK' /\ FilesSound' /\ HistorySound'
  BY <1>1, <1>2, <1>3 DEF LInv, LTypeOK, FilesSound, HistorySound
<1>5. \A g \in FileOf : S3Key(g) \in S3Keys
  BY DEF S3Keys
<1>6. \A s \in Slot, t \in Task, p \in Path : Vouches(s, t, p)' <=> Vouches(s, t, p)
  BY <1>3 DEF Vouches, InFlight
<1>7. ObjectsSound'
  BY <1>1, <1>2, <1>3, <1>5, <1>6, KeyOf DEF LInv, ObjectsSound
<1> QED
  BY <1>4, <1>7 DEF LInv

LEMMA HistoryStep ==
  ASSUME Queue, LInv, NEW x \in Watched, NEW r \in Report, PutHistory(x[1], x[2], r)
  PROVE  LInv'
<1>1. UNCHANGED <<files, library, reqs, keys, objects, slots, told>>
  BY DEF PutHistory, fvars, vars
<1>2. x[2] \in FileOf /\ keys[x[2]] # None
  BY LibraryAssumption DEF PutHistory, LInv, LTypeOK
<1>3. /\ history'[x] = Entry(r)
      /\ DOMAIN history' = Watched
      /\ \A y \in Watched : y # x => history'[y] = history[y]
  <2>1. x = <<x[1], x[2]>>
    BY LibraryAssumption
  <2> QED
    BY <2>1 DEF PutHistory, LInv, HistorySound, Entry
<1>4. HistorySound'
  BY <1>3 DEF LInv, HistorySound
<1>5. LTypeOK'
  BY <1>1, <1>2, <1>3 DEF LInv, LTypeOK
<1>6. FilesSound' /\ ObjectsSound'
  BY <1>1 DEF LInv, FilesSound, ObjectsSound, Vouches, InFlight, Held
<1> QED
  BY <1>4, <1>5, <1>6 DEF LInv

LEMMA NextLInv == Queue /\ Queue' /\ LInv /\ [LNext]_<<fvars, lvars>> => LInv'
<1> SUFFICES ASSUME Queue, Queue', LInv, [LNext]_<<fvars, lvars>> PROVE LInv'
  OBVIOUS
<1>1. ASSUME UNCHANGED <<vars, lvars>> PROVE LInv'
  <2>1. LTypeOK' /\ FilesSound' /\ HistorySound'
    BY <1>1 DEF vars, lvars, LInv, LTypeOK, FilesSound, HistorySound
  <2>2. ObjectsSound'
    BY <1>1 DEF vars, lvars, LInv, ObjectsSound, Vouches, InFlight, Held
  <2> QED
    BY <2>1, <2>2 DEF LInv
<1>2. ASSUME NEW w \in Worker, NEW f \in FileOf, Put(w, f) PROVE LInv'
  BY <1>2, PutStep DEF Put, fvars
<1>3. ASSUME NEW w \in Script, NEW p \in Path, NEW stored \in BOOLEAN, LFillSlot(w, p, stored) PROVE LInv'
  <2>1. UNCHANGED <<vars, keys, slots, told, history>>
    BY <1>3 DEF LFillSlot, FillSlot
  <2>2. PICK t \in handed[w] :
          objects' = IF stored THEN [objects EXCEPT ![S3Key(<<t, p>>)] = <<t, p>>] ELSE objects
    BY <1>3 DEF LFillSlot
  <2>3. t \in Task
    BY FleetAssumption DEF Queue, IInv, TypeOK
  <2>4. CASE stored
    BY <2>1, <2>2, <2>3, <2>4, KeyOf, PutStep
  <2>5. CASE ~stored
    BY <1>1, <2>1, <2>2, <2>5 DEF lvars
  <2> QED
    BY <2>4, <2>5
<1>4. ASSUME NEW x \in Watched, NEW r \in Report, PutHistory(x[1], x[2], r) PROVE LInv'
  BY <1>4, HistoryStep
<1>5. CASE UNCHANGED <<fvars, lvars>>
  BY <1>1, <1>5 DEF fvars
<1> QED
  BY <1>2, <1>3, <1>4, <1>5, RequestsStep, ManifestStep, CompleteStep, BackendStep DEF LNext

LEMMA LibraryInductive == LSpec => [](Queue /\ LInv)
<1>1. LInit => LInv
  <2> SUFFICES ASSUME LInit PROVE LInv
    OBVIOUS
  <2>1. LTypeOK
    BY LibraryAssumption DEF LInit, FInit, Init, LTypeOK, FileOf, Silent
  <2>2. FilesSound /\ ObjectsSound /\ HistorySound
    BY DEF LInit, FInit, Init, FilesSound, ObjectsSound, Vouches, HistorySound, Idle, InFlight
  <2> QED
    BY <2>1, <2>2 DEF LInv
<1>2. IInv /\ Shelf => Queue
  BY DEF Queue
<1> QED
  BY <1>1, <1>2, NextLInv, LibraryImplementsFleet, FleetImplementsQueue, ShelfInductive, Inductive, PTL
     DEF LSpec

-----------------------------------------------------------------------------
(* The tables, the bucket and the slots keep their shape, whatever keys    *)
(* are reported; a file has a key if and only if a manifest named it.      *)
THEOREM LibraryTypeCorrect == LSpec => []LTypeOK
<1>1. LInv => LTypeOK
  BY DEF LInv
<1> QED
  BY <1>1, LibraryInductive, PTL

(* Whatever keys workers report: a file to play is shown as ready, and one *)
(* that has the key of its manifest leads to an object that is there, and  *)
(* that was uploaded for the same user, title and file name.               *)
THEOREM PlayableFilesPlay == LSpec => []PlayableFiles
<1>1. Queue /\ LInv => PlayableFiles
  <2> SUFFICES ASSUME LInv, NEW f \in FileOf, Playable(f)
               PROVE  /\ library[Title[f[1]]] = "ready"
                      /\ keys[f] = S3Key(f) =>
                           \E o \in FileOf : /\ objects[keys[f]] = o
                                             /\ Title[o[1]] = Title[f[1]] /\ Name[o[2]] = Name[f[2]]
    BY DEF PlayableFiles
  <2>1. PICK t \in Task, p \in Path : f = <<t, p>>
    BY DEF FileOf
  <2>2. f[1] = t /\ f[2] = p
    BY <2>1
  <2>3. files[t][p] = "uploaded"
    BY <2>2 DEF Playable, Listed
  <2>4. ASSUME keys[f] = S3Key(f)
        PROVE  \E o \in FileOf : /\ objects[keys[f]] = o
                                 /\ Title[o[1]] = Title[f[1]] /\ Name[o[2]] = Name[f[2]]
    <3>1. Held(S3Key(f))
      BY <2>1, <2>3, <2>4 DEF LInv, ObjectsSound
    <3>2. PICK o \in FileOf : objects[S3Key(f)] = o /\ S3Key(o) = S3Key(f)
      BY <3>1 DEF Held
    <3>3. Title[o[1]] = Title[f[1]] /\ Name[o[2]] = Name[f[2]]
      BY <3>2 DEF S3Key
    <3> QED
      BY <2>4, <3>2, <3>3
  <2>5. library[Title[f[1]]] = "ready"
    BY <2>2, <2>3 DEF LInv, FilesSound
  <2> QED
    BY <2>4, <2>5
<1> QED
  BY <1>1, LibraryInductive, PTL

-----------------------------------------------------------------------------
(* What keeps a key: a task with an uploaded file is over, nobody was told *)
(* to download it any more, and no report or claim on it is under way.     *)
Over(t) == rows[t].status = "completed" \/ \E p \in Path : files[t][p] = "uploaded"

Closed(t) ==
  /\ rows[t].status \in {"completed", "canceled"}
  /\ \A w \in Worker : t \notin handed[w]
  /\ \A s \in Slot : reqs[s].op \in Reports \cup {"claim"} => reqs[s].task # t

SInv ==
  /\ \A t \in Task : Over(t) => Closed(t)
  /\ \A s \in Slot : InFlight(s, "complete") => reqs[s].seen.status # "completed"

(* A step that writes one task and starts no request.                      *)
LEMMA OneTaskSettles ==
  ASSUME SInv, NEW t \in Task,
         \A u \in Task : u # t => rows'[u].status = rows[u].status /\ files'[u] = files[u],
         \A r \in Slot : reqs'[r] = reqs[r] \/ reqs'[r].op = "idle",
         \A w \in Worker : handed'[w] \ {t} \subseteq handed[w],
         Over(t)' => Closed(t)'
  PROVE  SInv'
<1>1. ASSUME NEW u \in Task, u # t, Over(u)' PROVE Closed(u)'
  BY <1>1 DEF SInv, Over, Closed, Reports
<1>2. \A s \in Slot : InFlight(s, "complete")' => reqs'[s].seen.status # "completed"
  BY DEF SInv, InFlight
<1> QED
  BY <1>1, <1>2 DEF SInv

(* A step that writes neither a status nor a file.                         *)
LEMMA NothingSettles ==
  ASSUME SInv, files' = files,
         \A u \in Task : rows'[u].status = rows[u].status,
         \A r \in Slot : reqs'[r] = reqs[r] \/ reqs'[r].op = "idle",
         \A w \in Worker : handed'[w] \subseteq handed[w]
  PROVE  SInv'
BY DEF SInv, Over, Closed, Reports, InFlight

(* A request starts: on a task that is not over, or a cancel, or a         *)
(* heartbeat.                                                              *)
LEMMA StartSettles ==
  ASSUME IInv, SInv, UNCHANGED <<rows, files, handed>>,
         NEW s \in Slot, NEW op \in {"claim", "manifest", "heartbeat", "complete", "fail", "cancel"},
         NEW w \in Worker \cup {None}, NEW t \in Task, NEW paths \in SUBSET Path,
         Start(s, op, w, t, paths),
         op \in Reports \cup {"claim"} => ~Over(t)
  PROVE  SInv'
<1>1. /\ \A r \in Slot : r # s => reqs'[r] = reqs[r]
      /\ reqs'[s] = [op |-> op, by |-> w, task |-> t, seen |-> rows[t], paths |-> paths]
  BY StartShape DEF IInv
<1> QED
  BY <1>1 DEF SInv, Over, Closed, Reports, InFlight

(* A status that the request changed is what the row has now.              *)
LEMMA StatusFlushed ==
  ASSUME rows \in [Task -> Row], NEW t \in Task, NEW old \in Row, NEW x \in Status, x # old.status,
         rows' = Flush(t, old, [old EXCEPT !.status = x])
  PROVE  rows'[t].status = x
<1>1. rows' = [rows EXCEPT ![t] = [rows[t] EXCEPT !.status = Merge(@, old.status, x)]]
  BY FlushStatus
<1>2. Merge(rows[t].status, old.status, x) = x
  BY DEF Merge
<1> QED
  BY <1>1, <1>2 DEF Row

LEMMA CommitSettlesKeys ==
  ASSUME IInv, OInv, SInv, NEW s \in Slot, Commit(s)
  PROVE  SInv'
<1>1. reqs[s].op # "idle" /\ Done(s)
  BY DEF Commit, ClaimCommit, ManifestCommit, HeartbeatCommit, CompleteCommit, FailCommit, CancelCommit, InFlight
<1> DEFINE seen == reqs[s].seen
<1> SUFFICES ASSUME NEW t \in Task, t = reqs[s].task PROVE SInv'
  BY <1>1, RequestShape DEF IInv
<1>2. /\ \A r \in Slot : r # s => reqs'[r] = reqs[r]
      /\ reqs'[s].op = "idle"
      /\ seen \in Row /\ rows \in [Task -> Row] /\ files \in [Task -> [Path -> {"absent", "pending", "uploaded"}]]
  BY <1>1, DoneShape, RequestShape DEF IInv, TypeOK
<1>3. ASSUME reqs[s].op \in Reports \cup {"claim"} PROVE ~Over(t)
  BY <1>3 DEF SInv, Closed
<1>4. ASSUME NEW delivered \in BOOLEAN, ClaimCommit(s, delivered) PROVE SInv'
  <2>1. /\ \A u \in Task : u # t => rows'[u] = rows[u]
        /\ rows'[t].status = "assigned" /\ files' = files
    BY <1>4, ClaimCommitRows DEF ClaimCommit
  <2>2. \A w \in Worker : handed'[w] \ {t} \subseteq handed[w]
    BY <1>4 DEF ClaimCommit, IInv, TypeOK
  <2>3. ~Over(t)'
    BY <1>3, <1>4, <2>1 DEF ClaimCommit, InFlight, Over
  <2> QED
    BY <1>2, <2>1, <2>2, <2>3, OneTaskSettles
<1>5. CASE ManifestCommit(s)
  <2>1. ~Over(t) /\ handed' = handed
    BY <1>3, <1>5 DEF ManifestCommit, InFlight, Reports
  <2>2. /\ \A u \in Task : u # t => rows'[u] = rows[u] /\ files'[u] = files[u]
        /\ rows'[t].status # "completed"
        /\ \A p \in Path : files'[t][p] # "uploaded"
    <3>1. CASE UNCHANGED <<rows, files>>
      BY <2>1, <3>1 DEF Over
    <3>2. CASE /\ rows' = Flush(t, seen, [seen EXCEPT !.status = "downloading"])
               /\ files' = [files EXCEPT ![t] =
                    [p \in Path |-> IF p \in reqs[s].paths THEN "pending" ELSE files[t][p]]]
      <4>1. rows'[t].status \in {rows[t].status, "downloading"} /\ \A u \in Task : u # t => rows'[u] = rows[u]
        BY <1>2, <3>2, WrittenStatus DEF Status, Active
      <4> QED
        BY <1>2, <2>1, <3>2, <4>1 DEF Over
    <3> QED
      BY <1>5, <3>1, <3>2 DEF ManifestCommit
  <2>3. ~Over(t)'
    BY <2>2 DEF Over
  <2> QED
    BY <1>2, <2>1, <2>2, <2>3, OneTaskSettles
<1>6. CASE HeartbeatCommit(s)
  <2>1. files' = files /\ handed' = handed /\ \A u \in Task : rows'[u].status = rows[u].status
    BY <1>2, <1>6 DEF HeartbeatCommit, Row
  <2> QED
    BY <1>2, <2>1, NothingSettles
<1>7. CASE CompleteCommit(s)
  <2>1. InFlight(s, "complete") /\ seen.status # "completed" /\ rows[t].worker = reqs[s].by
    BY <1>7 DEF CompleteCommit, SInv, InFlight, OInv, ReportsSound, Reports
  <2>2. rows'[t].status = "completed" /\ \A u \in Task : u # t => rows'[u] = rows[u]
    <3>1. "completed" \in Status
      BY DEF Status
    <3>2. rows' = Flush(t, seen, [seen EXCEPT !.status = "completed"])
      BY <1>7 DEF CompleteCommit
    <3> QED
      BY <1>2, <2>1, <3>1, <3>2, StatusFlushed, WrittenStatus
  <2>3. \A u \in Task : u # t => files'[u] = files[u]
    BY <1>7 DEF CompleteCommit, IInv, TypeOK
  <2>4. /\ \A w \in Worker : handed'[w] \subseteq handed[w]
        /\ \A w \in Worker : t \notin handed'[w]
    BY <1>7, <2>1 DEF CompleteCommit, Forget, IInv, TypeOK, OInv, Holders
  <2>5. ASSUME NEW r \in Slot, reqs'[r].op \in Reports \cup {"claim"} PROVE reqs'[r].task # t
    <3>1. r # s /\ reqs'[r] = reqs[r]
      BY <1>2, <2>5 DEF Reports
    <3> QED
      BY <1>7, <2>1, <2>5, <3>1 DEF CompleteCommit, ClaimLocked, InFlight, OInv, ReportsSound, Reports
  <2>6. Closed(t)'
    BY <2>2, <2>4, <2>5 DEF Closed
  <2> QED
    BY <1>2, <2>2, <2>3, <2>4, <2>6, OneTaskSettles
<1>8. CASE FailCommit(s)
  <2>1. ~Over(t) /\ files' = files
    BY <1>3, <1>8 DEF FailCommit, InFlight, Reports
  <2>2. \A w \in Worker : handed'[w] \ {t} \subseteq handed[w]
    BY <1>8 DEF FailCommit, Forget, IInv, TypeOK
  <2>3. rows'[t].status # "completed" /\ \A u \in Task : u # t => rows'[u] = rows[u]
    <3> DEFINE new == AfterFail(seen)
    <3>1. new \in Row /\ new.status \in {"queued", "failed"}
      BY <1>2 DEF AfterFail, Row, Status
    <3>2. rows' = Flush(t, seen, new)
      BY <1>8 DEF FailCommit
    <3> HIDE DEF new
    <3>3. /\ \A u \in Task : u # t => rows'[u] = rows[u]
          /\ rows'[t].status = Merge(rows[t].status, seen.status, new.status)
      <4>1. /\ \A u \in Task : u # t => rows'[u] = rows[u]
            /\ rows'[t] = [status   |-> Merge(rows[t].status, seen.status, new.status),
                           worker   |-> Merge(rows[t].worker, seen.worker, new.worker),
                           attempts |-> Merge(rows[t].attempts, seen.attempts, new.attempts),
                           lease    |-> Merge(rows[t].lease, seen.lease, new.lease)]
        BY <1>2, <3>1, <3>2, FlushRow
      <4> QED
        BY <4>1
    <3> QED
      BY <2>1, <3>1, <3>3 DEF Merge, Over
  <2>4. ~Over(t)'
    BY <2>1, <2>3 DEF Over
  <2> QED
    BY <1>2, <2>1, <2>2, <2>3, <2>4, OneTaskSettles
<1>9. CASE CancelCommit(s)
  <2>1. files' = files /\ handed' = handed
    BY <1>9 DEF CancelCommit
  <2>2. rows'[t].status \in {rows[t].status, "canceled"} /\ \A u \in Task : u # t => rows'[u] = rows[u]
    <3>1. "canceled" \in Status /\ rows' = Flush(t, seen, [seen EXCEPT !.status = "canceled"])
      BY <1>9 DEF CancelCommit, Status
    <3> QED
      BY <1>2, <3>1, WrittenStatus
  <2>3. Over(t)' => Closed(t)'
    BY <1>2, <2>1, <2>2 DEF SInv, Over, Closed, Reports
  <2> QED
    BY <1>2, <2>1, <2>2, <2>3, OneTaskSettles
<1> QED
  BY <1>4, <1>5, <1>6, <1>7, <1>8, <1>9 DEF Commit

LEMMA NextSInv == IInv /\ OInv /\ SInv /\ [Next]_vars => SInv'
<1> SUFFICES ASSUME IInv, OInv, SInv, [Next]_vars PROVE SInv'
  OBVIOUS
<1>1. \A w \in Worker : \A t \in handed[w] : t \in Task /\ ~Over(t)
  BY DEF IInv, TypeOK, SInv, Closed
<1>2. \A t \in Task : rows[t].status \in {"absent", "queued", "assigned"} => ~Over(t)
  BY DEF SInv, Closed
<1>3. ASSUME NEW t \in Task, CreateTask(t) PROVE SInv'
  <2>1. ~Over(t) /\ UNCHANGED <<files, reqs, handed>>
    BY <1>2, <1>3 DEF CreateTask
  <2>2. rows'[t].status = "queued" /\ \A u \in Task : u # t => rows'[u] = rows[u]
    BY <1>3 DEF CreateTask, NoRow, IInv, TypeOK
  <2>3. ~Over(t)'
    BY <2>1, <2>2 DEF Over
  <2> QED
    BY <2>1, <2>2, <2>3, OneTaskSettles
<1>4. ASSUME NEW t \in Task, LeaseExpires(t) PROVE SInv'
  <2>1. UNCHANGED <<files, reqs, handed>> /\ \A u \in Task : rows'[u].status = rows[u].status
    BY <1>4 DEF LeaseExpires, IInv, TypeOK, Row
  <2> QED
    BY <2>1, NothingSettles
<1>5. ASSUME NEW s \in Slot, Abort(s) PROVE SInv'
  <2>1. \A r \in Slot : reqs'[r] = reqs[r] \/ reqs'[r].op = "idle"
    BY <1>5, DoneShape DEF Abort, IInv
  <2> QED
    BY <1>5, <2>1, NothingSettles DEF Abort
<1>6. ASSUME NEW s \in Slot, NEW t \in Task, CancelRead(s, t) PROVE SInv'
  BY <1>6, StartSettles DEF CancelRead, Reports
<1>7. ASSUME NEW s \in Slot, NEW w \in Worker, NEW t \in Task, ClaimLock(s, w, t) PROVE SInv'
  BY <1>2, <1>7, StartSettles DEF ClaimLock
<1>8. ASSUME NEW s \in Slot, NEW w \in Worker, NEW t \in Task,
             HeartbeatRead(s, w, t) \/ FailRead(s, w, t)
      PROVE  SInv'
  BY <1>1, <1>8, StartSettles DEF HeartbeatRead, FailRead, MaySend
<1>9. ASSUME NEW s \in Slot, NEW w \in Worker, NEW t \in Task, NEW paths \in SUBSET Path,
             ManifestRead(s, w, t, paths) \/ CompleteRead(s, w, t, paths)
      PROVE  SInv'
  BY <1>1, <1>9, StartSettles DEF ManifestRead, CompleteRead, MaySend
<1>10. ASSUME NEW w \in Worker, WorkerStops(w) \/ \E t \in Task : ToldGone(w, t) PROVE SInv'
  <2>1. UNCHANGED <<rows, files, reqs>> /\ \A v \in Worker : handed'[v] \subseteq handed[v]
    BY <1>10 DEF ToldGone, Forget, WorkerStops, IInv, TypeOK
  <2> QED
    BY <2>1, NothingSettles
<1>11. CASE Reap
  <2>1. UNCHANGED <<files, reqs, handed>>
    BY <1>11 DEF Reap
  <2>2. ASSUME NEW t \in Task
        PROVE  /\ rows'[t].status \in {rows[t].status, "queued", "failed"}
               /\ rows[t].status \in {"completed", "canceled"} => rows'[t] = rows[t]
    <3>1. rows[t] \in Row /\ rows'[t] = GivenUp(Reclaimed(rows[t]))
      BY <1>11 DEF Reap, IInv, TypeOK
    <3> QED
      BY <3>1, ReapedRow DEF GivenUp, Reclaimed, Expired, Active
  <2>3. \A t \in Task : Over(t)' => Over(t)
    BY <2>1, <2>2 DEF Over
  <2> QED
    BY <2>1, <2>2, <2>3 DEF SInv, Closed, InFlight
<1>12. CASE UNCHANGED vars
  BY <1>12, NothingSettles DEF vars
<1> QED
  BY <1>3, <1>4, <1>5, <1>6, <1>7, <1>8, <1>9, <1>10, <1>11, <1>12, CommitSettlesKeys DEF Next

LEMMA SettledInductive == LSpec => [](IInv /\ OInv /\ SInv)
<1>1. LInit => SInv
  BY DEF LInit, FInit, Init, SInv, Over, Closed, NoRow, Idle, InFlight, Reports
<1>2. FSpec => [][Next]_vars
  BY FleetImplementsQueue, PTL DEF Spec
<1> QED
  BY <1>1, <1>2, NextSInv, LibraryImplementsFleet, FleetImplementsQueue, Inductive, FleetInductive, PTL
     DEF LSpec

(* Under the lease contract a file that was uploaded keeps its key, in a   *)
(* fleet of any size and whatever keys are reported: the URL a user was    *)
(* given goes on to lead where it did.                                     *)
THEOREM KeysSettle == LSpec => SettledKeys
<1>1. ASSUME IInv, SInv, LInv, LNext, NEW f \in FileOf, files[f[1]][f[2]] = "uploaded"
      PROVE  keys'[f] = keys[f]
  <2>1. PICK t \in Task, p \in Path : f = <<t, p>> /\ f[1] = t /\ f[2] = p
    BY DEF FileOf
  <2>2. Over(t) /\ Closed(t)
    BY <1>1, <2>1 DEF Over, SInv
  <2>3. ASSUME NEW s \in Slot, NEW delivered \in BOOLEAN, LManifest(s, delivered) \/ LComplete(s, delivered)
        PROVE  keys'[f] = keys[f]
    <3>1. reqs[s].task # t
      BY <2>2, <2>3 DEF LManifest, LComplete, InFlight, Closed, Reports
    <3>2. f \notin Named(s)
      BY <2>1, <3>1 DEF Named
    <3> QED
      BY <2>3, <3>2 DEF LManifest, LComplete
  <2> QED
    BY <1>1, <2>3 DEF LNext, LRequests, LReply, LBackend, Put, LFillSlot, PutHistory
<1>2. IInv /\ SInv /\ LInv /\ [LNext]_<<fvars, lvars>> =>
        \A f \in FileOf : files[f[1]][f[2]] = "uploaded" => keys'[f] = keys[f]
  BY <1>1 DEF lvars
<1>3. IInv /\ SInv /\ LInv /\ [LNext]_<<fvars, lvars>> =>
        [\A f \in FileOf : files[f[1]][f[2]] = "uploaded" => keys'[f] = keys[f]]_<<fvars, lvars>>
  BY <1>2
<1> QED
  BY <1>3, SettledInductive, LibraryInductive, PTL DEF LSpec, SettledKeys

-----------------------------------------------------------------------------
(* Hundredths of a second, rounded.                                        *)
LEMMA StoredBounds ==
  ASSUME NEW n \in Nat
  PROVE  Stored(n) \in Nat /\ 10 * Stored(n) <= n + 5 /\ n <= 10 * Stored(n) + 4
BY DEF Stored

(* The whole part of a quotient, against a bound.                          *)
LEMMA QuotientBounds ==
  ASSUME NEW a \in Nat, NEW d \in Nat \ {0}, NEW k \in Nat
  PROVE  /\ a \div d \in Nat
         /\ k * d <= a => k <= a \div d
         /\ a < (k + 1) * d => a \div d <= k
<1> DEFINE q == a \div d
<1>1. q \in Nat /\ q * d <= a /\ a < (q + 1) * d
  OBVIOUS
<1> HIDE DEF q
<1>2. ASSUME NEW x \in Nat, NEW y \in Nat, x < y PROVE (x + 1) * d <= y * d
  <2>1. PICK z \in Nat : y = x + 1 + z
    BY <1>2
  <2>2. y * d = (x + 1) * d + z * d /\ z * d \in Nat /\ (x + 1) * d \in Nat
    BY <2>1
  <2> QED
    BY <2>2
<1>3. k * d <= a => k <= q
  <2> SUFFICES ASSUME k * d <= a, q < k PROVE FALSE
    BY <1>1
  <2>1. (q + 1) * d <= k * d
    BY <1>1, <1>2
  <2> QED
    BY <1>1, <2>1
<1>4. a < (k + 1) * d => q <= k
  <2> SUFFICES ASSUME a < (k + 1) * d, k < q PROVE FALSE
    BY <1>1
  <2>1. (k + 1) * d <= q * d
    BY <1>1, <1>2
  <2> QED
    BY <1>1, <2>1
<1> QED
  BY <1>1, <1>3, <1>4 DEF q

(* What is left out of the list to continue has been seen to 94 percent at *)
(* least, and what is listed to 95 at most, for every report.              *)
THEOREM HistoryIsHonest == LSpec => []HistoryHonest
<1>1. LInv => HistoryHonest
  <2> SUFFICES ASSUME LInv, NEW f \in Watched, history[f] # None, history[f].duration >= 100
               PROVE  IF history[f].completed THEN Percent(history[f]) >= 94
                                              ELSE Percent(history[f]) <= 95
    BY DEF HistoryHonest
  <2>1. PICK r \in Report : history[f] = Entry(r)
    BY DEF LInv, HistorySound
  <2> DEFINE p == r.position
             d == r.duration
             P == Stored(p)
             D == Stored(d)
  <2>2. p \in Nat /\ d \in Nat
    BY LibraryAssumption
  <2>3. history[f].position = P /\ history[f].duration = D /\ history[f].completed = Completed(r)
    BY <2>1 DEF Entry
  <2>4. /\ P \in Nat /\ 10 * P <= p + 5 /\ p <= 10 * P + 4
        /\ D \in Nat /\ 10 * D <= d + 5 /\ d <= 10 * D + 4
    BY <2>2, StoredBounds
  <2>5. Completed(r) <=> d > 0 /\ 20 * p >= 19 * d
    BY DEF Completed
  <2> HIDE DEF p, d, P, D
  <2>6. D >= 100 /\ Percent(history[f]) = (100 * P) \div D
    BY <2>3, <2>4 DEF Percent
  <2>7. /\ (100 * P) \div D \in Nat
        /\ 94 * D <= 100 * P => 94 <= (100 * P) \div D
        /\ 100 * P < 96 * D => (100 * P) \div D <= 95
    <3>1. 100 * P \in Nat /\ D \in Nat \ {0} /\ 94 \in Nat /\ 95 \in Nat /\ 95 + 1 = 96
      BY <2>4, <2>6
    <3>2. (100 * P) \div D \in Nat /\ (94 * D <= 100 * P => 94 <= (100 * P) \div D)
      BY <3>1, QuotientBounds
    <3>3. 100 * P < (95 + 1) * D => (100 * P) \div D <= 95
      BY <3>1, QuotientBounds
    <3> QED
      BY <3>1, <3>2, <3>3
  <2>8. CASE Completed(r)
    BY <2>2, <2>3, <2>4, <2>5, <2>6, <2>7, <2>8
  <2>9. CASE ~Completed(r)
    BY <2>2, <2>3, <2>4, <2>5, <2>6, <2>7, <2>9
  <2> QED
    BY <2>8, <2>9
<1> QED
  BY <1>1, LibraryInductive, PTL
=============================================================================
