------------------------------ MODULE Library ------------------------------
(***************************************************************************)
(* From an upload to the screen: the S3 keys of task_files, the objects    *)
(* that workers put under them, the files a user may play and the history  *)
(* of what was watched, on top of the fleet of FakeWorker.                 *)
(***************************************************************************)
EXTENDS FakeWorker

CONSTANTS Name,       \* Name[p]: the last component of path p
          Elsewhere,  \* other keys that a worker may report, of any form
          Watched,    \* bound: who watches what, pairs of a user and a file
          Report      \* bodies of PUT /api/history, in milliseconds

FileOf == Task \X Path

ASSUME LibraryAssumption ==
  /\ DOMAIN Name = Path
  /\ \A x \in Watched : x = <<x[1], x[2]>> /\ x[2] \in FileOf
  /\ Report \subseteq [position : Nat, duration : Nat]

VARIABLES keys,      \* task_files.s3_key, or None
          objects,   \* the file whose contents the bucket has under a key, or None
          slots,     \* the upload slots a contract worker has: open, filled, or none
          told,      \* the key each request reports for a path, or None
          history    \* watch_history: the entry of each user and file, or None

lvars == <<keys, objects, slots, told, history>>

(* Mutated form of S3Key: the user is left out.                            *)
S3KeyOfMedia(f) == <<Title[f[1]][2], Name[f[2]]>>

(* users/{user_id}/{media_item_id}/{last component of the path}.           *)
S3Key(f) == <<Title[f[1]], Name[f[2]]>>

S3Keys == {S3Key(f) : f \in FileOf}

(* The empty string.                                                       *)
EmptyKey == <<>>

Key == {EmptyKey} \cup S3Keys \cup Elsewhere

(* NULL is no key.                                                         *)
ASSUME KeyAssumption == None \notin Key /\ EmptyKey \notin S3Keys

(* The body of a request that reports no keys.                             *)
Silent == [p \in Path |-> None]

LInit ==
  /\ FInit
  /\ keys = [f \in FileOf |-> None]
  /\ objects = [k \in S3Keys |-> None]
  /\ slots = [w \in Worker |-> [f \in FileOf |-> "none"]]
  /\ told = [s \in Slot |-> Silent]
  /\ history = [x \in Watched |-> None]

(* The files of the body of the request in slot s.                         *)
Named(s) == {reqs[s].task} \X reqs[s].paths

(* A worker that drops a task drops its slots; a request that ends leaves  *)
(* nothing behind.                                                         *)
DropSlots == slots' = [w \in Worker |-> [f \in FileOf |->
  IF f[1] \in handed'[w] THEN slots[w][f] ELSE "none"]]

DropBodies == told' = [s \in Slot |-> IF reqs'[s] = Idle THEN Silent ELSE told[s]]

-----------------------------------------------------------------------------
(* complete reports a key with each file, any string, or none: "" for the  *)
(* script.  A contract worker that reports the key of its slot, or leaves  *)
(* it at that, has put the file there.                                     *)
LRequests(s, w, t) ==
  /\ Requests(s, w, t)
  /\ IF reqs'[s].op = "complete"
       THEN \E body \in [reqs'[s].paths -> Key \cup {None}] :
              /\ \A p \in reqs'[s].paths :
                   /\ w \notin Script => body[p] \in {None, S3Key(<<t, p>>)} \cup Elsewhere
                   /\ w \in Script => body[p] = EmptyKey
                   /\ w \notin Script /\ body[p] \in {None, S3Key(<<t, p>>)}
                        => slots[w][<<t, p>>] = "filled"
              /\ told' = [told EXCEPT ![s] = [p \in Path |-> IF p \in DOMAIN body THEN body[p] ELSE None]]
       ELSE told' = told
  /\ UNCHANGED <<keys, objects, slots, history>>

(* The manifest gives its files their keys.  The answer has a slot for all *)
(* files of the task, those of earlier manifests included.                 *)
LManifest(s, delivered) ==
  LET w == reqs[s].by  t == reqs[s].task
      accepted == reqs[s].paths \cap Present(t) = {} IN
  /\ InFlight(s, "manifest")
  /\ Replies(s, delivered)
  /\ keys' = IF accepted THEN [f \in FileOf |-> IF f \in Named(s) THEN S3Key(f) ELSE keys[f]]
                         ELSE keys
  /\ slots' = IF accepted /\ delivered /\ w \notin Script /\ t \in handed[w]
                THEN [slots EXCEPT ![w] = [f \in FileOf |->
                        IF f[1] = t /\ keys'[f] # None THEN "open" ELSE @[f]]]
                ELSE slots
  /\ DropBodies
  /\ UNCHANGED <<objects, history>>

(* Mutated forms of LComplete: of all files, not only those that have a    *)
(* row; of the files of all tasks with the name.                           *)
LCompleteAll(s, delivered) ==
  /\ InFlight(s, "complete")
  /\ Replies(s, delivered)
  /\ keys' = [f \in FileOf |-> IF told[s][f[2]] # None THEN told[s][f[2]] ELSE keys[f]]
  /\ DropSlots /\ DropBodies
  /\ UNCHANGED <<objects, history>>

LCompleteByPath(s, delivered) ==
  /\ InFlight(s, "complete")
  /\ Replies(s, delivered)
  /\ keys' = [f \in FileOf |-> IF files[f[1]][f[2]] # "absent" /\ told[s][f[2]] # None
                                THEN told[s][f[2]] ELSE keys[f]]
  /\ DropSlots /\ DropBodies
  /\ UNCHANGED <<objects, history>>

(* complete stores whatever key is reported with a file.                   *)
LComplete(s, delivered) ==
  /\ InFlight(s, "complete")
  /\ Replies(s, delivered)
  /\ keys' = [f \in FileOf |->
       IF f \in Named(s) /\ files[f[1]][f[2]] # "absent" /\ told[s][f[2]] # None
         THEN told[s][f[2]] ELSE keys[f]]
  /\ DropSlots /\ DropBodies
  /\ UNCHANGED <<objects, history>>

(* What the others answer gives and takes no keys.                         *)
LReply(s, delivered) ==
  /\ reqs[s].op \notin {"manifest", "complete"}
  /\ Replies(s, delivered)
  /\ DropSlots /\ DropBodies
  /\ UNCHANGED <<keys, objects, history>>

LBackend ==
  /\ \/ Backend /\ UNCHANGED script
     \/ \E w \in Worker : Dies(w)
     \/ \E w \in Script : Register(w)
  /\ DropSlots /\ DropBodies
  /\ UNCHANGED <<keys, objects, history>>

(* A contract worker puts a file it downloaded to the URL of its slot.     *)
Put(w, f) ==
  /\ slots[w][f] = "open"
  /\ slots' = [slots EXCEPT ![w][f] = "filled"]
  /\ objects' = [objects EXCEPT ![S3Key(f)] = f]
  /\ UNCHANGED <<fvars, keys, told, history>>

(* So does the script, but it goes on when the PUT is refused.             *)
LFillSlot(w, p, stored) ==
  /\ FillSlot(w, p)
  /\ \E t \in handed[w] :
       objects' = IF stored THEN [objects EXCEPT ![S3Key(<<t, p>>)] = <<t, p>>] ELSE objects
  /\ UNCHANGED <<keys, slots, told, history>>

-----------------------------------------------------------------------------
(* GET /api/library: the files listed with a title.                        *)
Listed(x) == {f \in FileOf : Title[f[1]] = x /\ files[f[1]][f[2]] = "uploaded"}

(* GET /api/files/{id}/url: when a URL is given out, and not a 404.        *)
Playable(f) == f \in Listed(Title[f[1]]) /\ keys[f] \notin {None, EmptyKey}

(* Mutated form of Stored: the columns hold whole seconds.                 *)
StoredInSeconds(ms) == 100 * ((ms + 500) \div 1000)

(* The columns are NUMERIC(10, 2): hundredths of a second.                 *)
Stored(ms) == (ms + 5) \div 10

(* 95 % of the duration, as reported.                                      *)
Completed(r) == r.duration > 0 /\ 20 * r.position >= 19 * r.duration

(* PUT /api/history, from any user on any file that has a row, which is    *)
(* all the foreign key asks: one statement inserts the entry of that user  *)
(* and file or updates it.                                                 *)
PutHistory(u, f, r) ==
  /\ files[f[1]][f[2]] # "absent"
  /\ history' = [history EXCEPT ![<<u, f>>] = [position |-> Stored(r.position),
       duration |-> Stored(r.duration), completed |-> Completed(r)]]
  /\ UNCHANGED <<fvars, keys, objects, slots, told>>

LNext ==
  \/ \E s \in Slot, w \in Worker, t \in Task : LRequests(s, w, t)
  \/ \E s \in Slot, delivered \in BOOLEAN :
       LManifest(s, delivered) \/ LComplete(s, delivered) \/ LReply(s, delivered)
  \/ LBackend
  \/ \E w \in Worker, f \in FileOf : Put(w, f)
  \/ \E w \in Script, p \in Path, stored \in BOOLEAN : LFillSlot(w, p, stored)
  \/ \E x \in Watched, r \in Report : PutHistory(x[1], x[2], r)

LSpec == LInit /\ [][LNext]_<<fvars, lvars>>

-----------------------------------------------------------------------------
(* GET /api/history: the percentage shown with an entry.                   *)
Percent(e) == IF e.duration > 0 THEN (100 * e.position) \div e.duration ELSE 0

(* The tables, the bucket and the slots have the shape the code gives      *)
(* them; a file has a key if and only if a manifest named it.              *)
LTypeOK ==
  /\ objects \in [S3Keys -> FileOf \cup {None}]
  /\ slots \in [Worker -> [FileOf -> {"none", "open", "filled"}]]
  /\ told \in [Slot -> [Path -> Key \cup {None}]]
  /\ keys \in [FileOf -> Key \cup {None}]
  /\ \A f \in FileOf : keys[f] = None <=> files[f[1]][f[2]] = "absent"
  /\ \A x \in Watched : history[x] # None => keys[x[2]] # None

(* A file the user can play is shown with a title that is ready; and if    *)
(* its key is the one the backend chose, there is an object under it that  *)
(* was uploaded for the same user, title and file name.  Manifests, puts   *)
(* and completes of other tasks and attempts come between (worker_manifest,*)
(* worker_complete, get_library, get_file_url).                            *)
PlayableFiles ==
  \A f \in FileOf : Playable(f) =>
    /\ library[Title[f[1]]] = "ready"
    /\ keys[f] = S3Key(f) =>
         \E o \in FileOf : /\ objects[keys[f]] = o
                           /\ Title[o[1]] = Title[f[1]] /\ Name[o[2]] = Name[f[2]]

(* A file that was uploaded keeps its key, whatever requests on this and   *)
(* on other tasks are still under way: the URL a user was given goes on to *)
(* lead where it did (worker_complete, get_file_url).                      *)
SettledKeys ==
  [][\A f \in FileOf : files[f[1]][f[2]] = "uploaded" => keys'[f] = keys[f]]_<<fvars, lvars>>

(* Of a film of a second or more, what is left out of the list to continue *)
(* has been seen to 94 percent at least, and what is listed to 95 at most, *)
(* though the verdict is on the report and the list on the rounded columns.*)
HistoryHonest ==
  \A x \in Watched : history[x] # None /\ history[x].duration >= 100 =>
    IF history[x].completed THEN Percent(history[x]) >= 94 ELSE Percent(history[x]) <= 95
=============================================================================
