----------------------------- MODULE FakeWorker -----------------------------
(***************************************************************************)
(* A fleet of workers on the download queue: processes of the script       *)
(* fake_worker.py, step by step, beside workers that are known only by the *)
(* lease contract.  The script awaits every answer and raises on all that  *)
(* is not a success, so that any failure is the end of the process.        *)
(***************************************************************************)
EXTENDS TaskQueue

CONSTANTS Script,   \* the identities that processes of the script register
          File,     \* the path of the one file the script reports
          Beats     \* the heartbeats of a cycle

ASSUME FleetAssumption ==
  /\ Script \subseteq Worker
  /\ File \in Path
  /\ Beats \in Nat

VARIABLE script     \* what each process of the script does next, or awaits

fvars == <<vars, script>>

(* Before an operation the process is "at" it; while it awaits the answer  *)
(* it is "waiting" for it.  "todo" are the upload slots still to fill.     *)
Process == [at : {"register", "claim", "manifest", "heartbeat", "upload", "complete"},
            waiting : BOOLEAN, beat : 0 .. Beats, todo : SUBSET Path]

At(op) == [at |-> op, waiting |-> FALSE, beat |-> 0, todo |-> {}]

FInit == Init /\ script = [w \in Script |-> At("register")]

Step(w, next) == script' = [script EXCEPT ![w] = next]

(* A worker sends a request, which a process of the script awaits.         *)
Sends(w, op) ==
  IF w \in Script
    THEN /\ script[w].at = op /\ ~script[w].waiting
         /\ Step(w, [script[w] EXCEPT !.waiting = TRUE])
    ELSE UNCHANGED script

(* What follows the success of a request.                                  *)
Following(p, present) ==
  CASE p.at = "claim" -> At("manifest")
    [] p.at = "manifest" -> [At(IF Beats = 0 THEN "upload" ELSE "heartbeat") EXCEPT !.todo = present]
    [] p.at = "heartbeat" -> [p EXCEPT !.at = IF p.beat + 1 < Beats THEN @ ELSE "upload",
                                       !.waiting = FALSE, !.beat = p.beat + 1]
    [] p.at = "complete" -> At("claim")

(* The answer to the request of slot s, if it was a success and arrives.   *)
(* A manifest is answered with a slot for every file of the task.          *)
Answer(s, success, delivered) ==
  LET w == reqs[s].by  t == reqs[s].task IN
  script' = IF w \in Script \ stopped /\ success /\ delivered
              THEN [script EXCEPT ![w] = Following(@, {p \in Path : files'[t][p] # "absent"})]
              ELSE script

-----------------------------------------------------------------------------
(* POST /api/worker/register: one commit, and a token of its own.          *)
Register(w) ==
  /\ w \notin stopped
  /\ script[w] = At("register")
  /\ Step(w, At("claim"))
  /\ UNCHANGED vars

(* The requests of workers.  What the script reports is fixed, and it does *)
(* not know fail; the others keep to the contract.                         *)
Requests(s, w, t) ==
  \/ ClaimLock(s, w, t) /\ Sends(w, "claim")
  \/ HeartbeatRead(s, w, t) /\ Sends(w, "heartbeat")
  \/ /\ w \notin Script => OneReport(w, t)
     /\ \E paths \in SUBSET Path :
          /\ w \in Script => paths = {File}
          /\ \/ ManifestRead(s, w, t, paths) /\ Sends(w, "manifest")
             \/ CompleteRead(s, w, t, paths) /\ Sends(w, "complete")
  \/ w \notin Script /\ OneReport(w, t) /\ FailRead(s, w, t) /\ UNCHANGED script

(* Their commits; the answer may be lost.                                  *)
Replies(s, delivered) ==
  \/ ClaimCommit(s, delivered) /\ Answer(s, TRUE, delivered)
  \/ ManifestCommit(s) /\ Answer(s, reqs[s].paths \cap Present(reqs[s].task) = {}, delivered)
  \/ HeartbeatCommit(s) /\ Answer(s, TRUE, delivered)
  \/ CompleteCommit(s) /\ Answer(s, TRUE, delivered)
  \/ FailCommit(s) /\ UNCHANGED script

(* The script fills an upload slot; it only prints what the PUT returned.  *)
FillSlot(w, p) ==
  /\ w \notin stopped
  /\ script[w].at = "upload" /\ p \in script[w].todo
  /\ Step(w, LET todo == script[w].todo \ {p} IN
             IF todo = {} THEN At("complete") ELSE [script[w] EXCEPT !.todo = todo])
  /\ UNCHANGED vars

(* A process ends: killed, or by an answer that is not a success, by an    *)
(* answer that is late or lost, or by the null that answers a claim on an  *)
(* empty queue with status 200, where the script looks for status 204.     *)
Dies(w) ==
  /\ WorkerStops(w)
  /\ script' = IF w \in Script THEN [script EXCEPT ![w] = At("register")] ELSE script

(* The cycle of the script lasts seconds and the lease ten minutes.        *)
Backend ==
  \/ \E t \in Task : CreateTask(t) \/ (Unattended(t) /\ LeaseExpires(t))
  \/ \E s \in Slot : CancelCommit(s) \/ Abort(s)
  \/ \E s \in Slot, t \in Task : CancelRead(s, t)
  \/ \E w \in Worker \ Script, t \in Task : ToldGone(w, t)
  \/ Reap

FNext ==
  \/ Backend /\ UNCHANGED script
  \/ \E s \in Slot, w \in Worker, t \in Task : Requests(s, w, t)
  \/ \E s \in Slot, delivered \in BOOLEAN : Replies(s, delivered)
  \/ \E w \in Script : Register(w) \/ \E p \in Path : FillSlot(w, p)
  \/ \E w \in Worker : Dies(w)

FSpec == FInit /\ [][FNext]_fvars

-----------------------------------------------------------------------------
(* The script keeps the lease contract of TaskQueue, although nothing but  *)
(* its own order of requests makes it: beside workers that keep it, the    *)
(* queue never finds more than one report of a process under way.          *)
Contract == INSTANCE TaskQueue WITH Orderly <- TRUE

KeepsContract == Contract!Spec
=============================================================================
