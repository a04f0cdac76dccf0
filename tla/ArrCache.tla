------------------------------ MODULE ArrCache ------------------------------
(***************************************************************************)
(* The *arr routes and the process-local TTL cache in front of Sonarr and  *)
(* Radarr.  Between a miss and the write of the fetched value the handler  *)
(* awaits the upstream, so other handlers may miss, refresh and write, and *)
(* the process may restart with an empty cache.                            *)
(***************************************************************************)
EXTENDS Naturals

CONSTANTS Call,        \* requests served at the same time
          Id,          \* ids of series and movies
          Asked,       \* bound: the resources that requests ask for
          Configured,  \* the services with a URL and an API key
          ListTTL,     \* ARR_CACHE_TTL_SECONDS
          EpisodeTTL,  \* ARR_EPISODE_CACHE_TTL_SECONDS
          MaxTime,     \* bound: the clock stops here
          None

(* What the routes give out: two lists, and a detail for every id.         *)
Resource == [kind : {"series_list", "movies_list"}, id : {None}]
              \cup [kind : {"series", "episodes", "movie"}, id : Id]

ASSUME CacheAssumption ==
  /\ ListTTL \in Nat /\ EpisodeTTL \in Nat /\ MaxTime \in Nat
  /\ Asked \subseteq Resource
  /\ Configured \subseteq {"sonarr", "radarr"}
  /\ None \notin [until : Nat, of : Resource, readAt : Nat]

VARIABLES clock,     \* time.monotonic()
          store,     \* _store: for each key its entry, or None
          calls      \* the requests

vars == <<clock, store, calls>>

(* Mutated form of CacheKey: the episodes share the key of their series.   *)
CacheKeyShared(r) == IF r.kind = "episodes" THEN [r EXCEPT !.kind = "series"] ELSE r

(* The key of a resource, one for each: arr:series:list, arr:series:{id},  *)
(* arr:series:{id}:episodes, arr:movies:list, arr:movies:{id}.             *)
CacheKey(r) == r

TTL(r) == IF r.kind = "episodes" THEN EpisodeTTL ELSE ListTTL

Service(r) == IF r.kind \in {"movies_list", "movie"} THEN "radarr" ELSE "sonarr"

(* An entry: until when it is good, whose data it holds and when the data  *)
(* was read.                                                               *)
Entry == [until : Nat, of : Resource, readAt : Nat]

(* A request that waits for the upstream, and one with its answer.         *)
Idle == [at |-> "idle"]
Asking == [at : {"asking"}, for : Resource, since : Nat]
Storing == [at : {"storing"}, for : Resource, since : Nat, readAt : Nat]

Empty == [k \in Resource |-> None]

Init ==
  /\ clock = 0
  /\ store = Empty
  /\ calls = [c \in Call |-> Idle]

Hit(r) == store[CacheKey(r)] # None /\ store[CacheKey(r)].until > clock

(* A GET that misses, or that comes with refresh=true and deletes the key, *)
(* takes the time and asks the upstream.  A hit changes nothing.  Without  *)
(* settings for the service a refresh deletes the key and answers 503.     *)
Get(c, r, refresh) ==
  /\ calls[c] = Idle
  /\ refresh \/ ~Hit(r)
  /\ store' = IF refresh THEN [store EXCEPT ![CacheKey(r)] = None] ELSE store
  /\ calls' = IF Service(r) \in Configured
                THEN [calls EXCEPT ![c] = [at |-> "asking", for |-> r, since |-> clock]]
                ELSE calls
  /\ UNCHANGED clock

Answered(c) ==
  /\ calls[c].at = "asking"
  /\ calls' = [calls EXCEPT ![c] =
       [at |-> "storing", for |-> @.for, since |-> @.since, readAt |-> clock]]
  /\ UNCHANGED <<clock, store>>

(* Mutated form of Fails: the failure is cached for a while.               *)
FailsCached(c) ==
  /\ calls[c].at = "asking"
  /\ store' = [store EXCEPT ![CacheKey(calls[c].for)] =
       [until |-> clock + 1, of |-> calls[c].for, readAt |-> None]]
  /\ calls' = [calls EXCEPT ![c] = Idle]
  /\ UNCHANGED clock

(* Timeout, 404 or an error: the exception leaves the cache as it is.      *)
Fails(c) ==
  /\ calls[c].at = "asking"
  /\ calls' = [calls EXCEPT ![c] = Idle]
  /\ UNCHANGED <<clock, store>>

(* Mutated form of Until: the time is taken when the value is stored.      *)
UntilFromNow(call) == clock + TTL(call.for)

(* The entry is good from the time the request came, not from now.         *)
Until(call) == call.since + TTL(call.for)

Store(c) ==
  LET call == calls[c] IN
  /\ call.at = "storing"
  /\ store' = [store EXCEPT ![CacheKey(call.for)] =
       [until |-> Until(call), of |-> call.for, readAt |-> call.readAt]]
  /\ calls' = [calls EXCEPT ![c] = Idle]
  /\ UNCHANGED clock

(* The backend restarts: the cache and the requests are gone.              *)
Restart ==
  /\ store' = Empty
  /\ calls' = [c \in Call |-> Idle]
  /\ UNCHANGED clock

Tick ==
  /\ clock < MaxTime
  /\ clock' = clock + 1
  /\ UNCHANGED <<store, calls>>

Next ==
  \/ \E c \in Call : \/ \E r \in Asked, refresh \in BOOLEAN : Get(c, r, refresh)
                     \/ Answered(c)
                     \/ Fails(c)
                     \/ Store(c)
  \/ Restart
  \/ Tick

Spec == Init /\ [][Next]_vars

-----------------------------------------------------------------------------
(* The cache and the requests have the shape the code gives them.          *)
TypeOK ==
  /\ clock \in Nat
  /\ store \in [Resource -> Entry \cup {None}]
  /\ calls \in [Call -> {Idle} \cup Asking \cup Storing]

(* What a hit returns is the data of the resource that was asked for, and  *)
(* was the upstream's data less than its TTL ago, however long the fetch   *)
(* took and whichever fetch wrote last, before or after a refresh.         *)
FreshWithinTTL ==
  \A r \in Resource : Hit(r) =>
    LET e == store[CacheKey(r)] IN e.of = r /\ clock < e.readAt + TTL(r)
=============================================================================
