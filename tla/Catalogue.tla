----------------------------- MODULE Catalogue -----------------------------
(***************************************************************************)
(* The media catalogue: searches that upsert what Kinopoisk found, item by *)
(* item, and resolve missing TMDB ids between two commits, and the lists   *)
(* of releases with their window of freshness in front of two indexers.    *)
(* Every request awaits services between its reads and its writes.         *)
(***************************************************************************)
EXTENDS Naturals

CONSTANTS Item,     \* kp_ids that searches find
          TmdbId,   \* ids that TMDB answers with
          Known,    \* Known[i]: the tmdb_id the provider gives with i, or None
          Hash,     \* info hashes of releases
          Slot,     \* requests served at the same time
          Window,   \* hours a release counts as fresh
          External, \* is the external indexer configured?
          MaxTime,  \* bound: the clock stops here
          None

ASSUME CatalogueAssumption ==
  /\ Window \in Nat /\ MaxTime \in Nat
  /\ External \in BOOLEAN
  /\ Known \in [Item -> TmdbId \cup {None}]
  /\ None \notin TmdbId \cup [fetched : Nat, readAt : Nat]
  /\ "absent" \notin TmdbId \cup {None}

VARIABLES clock,    \* hours
          tmdb,     \* tmdb_id of each media item, None, or "absent" without a row
          releases, \* releases[i][h]: fetched_at and when it was read, or None
          reqs      \* the request each slot is serving

vars == <<clock, tmdb, releases, reqs>>

Release == [fetched : Nat, readAt : Nat]

(* What resolve_tmdb_id returns: it never raises, and gives None without a *)
(* token, without a result and on any failure.                             *)
TmdbAnswer == TmdbId \cup {None}

(* What search_kinopoisk returns when it does not raise.                   *)
KinopoiskAnswer == SUBSET Item

Idle == [op |-> "idle"]

Start(s, request) == reqs' = [reqs EXCEPT ![s] = request]

Done(s) == reqs' = [reqs EXCEPT ![s] = Idle]

Fresh(release) == release # None /\ release.fetched + Window > clock

-----------------------------------------------------------------------------
(* Two empty tables.                                                       *)
Init ==
  /\ clock = 0
  /\ tmdb = [i \in Item |-> "absent"]
  /\ releases = [i \in Item |-> [h \in Hash |-> None]]
  /\ reqs = [s \in Slot |-> Idle]

(* GET /api/search: Kinopoisk has answered; without items nothing follows. *)
Search(s, found) ==
  /\ reqs[s] = Idle
  /\ found # {}
  /\ Start(s, [op |-> "upsert", todo |-> found])
  /\ UNCHANGED <<clock, tmdb, releases>>

(* The row after INSERT ... ON CONFLICT (kp_id) DO UPDATE, which leaves    *)
(* tmdb_id alone; and its mutated form, with tmdb_id in set_.              *)
UpsertedOverwriting(i) == Known[i]

Upserted(i) == IF tmdb[i] = "absent" THEN Known[i] ELSE tmdb[i]

(* Mutated form of NeedsTmdb: TMDB is asked about every item.              *)
NeedsTmdbAlways(id) == TRUE

NeedsTmdb(id) == id = None

(* One item is upserted and committed.                                     *)
Upsert(s, i) ==
  /\ reqs[s].op = "upsert" /\ i \in reqs[s].todo
  /\ tmdb' = [tmdb EXCEPT ![i] = Upserted(i)]
  /\ LET todo == reqs[s].todo \ {i} IN
     IF NeedsTmdb(Upserted(i)) THEN Start(s, [op |-> "resolve", item |-> i, todo |-> todo])
     ELSE IF todo = {} THEN Done(s)
     ELSE Start(s, [op |-> "upsert", todo |-> todo])
  /\ UNCHANGED <<clock, releases>>

(* TMDB answers.  An id is committed over whatever the column holds by     *)
(* then.                                                                   *)
Resolve(s, id) ==
  /\ reqs[s].op = "resolve"
  /\ tmdb' = IF id = None THEN tmdb ELSE [tmdb EXCEPT ![reqs[s].item] = id]
  /\ IF reqs[s].todo = {} THEN Done(s) ELSE Start(s, [op |-> "upsert", todo |-> reqs[s].todo])
  /\ UNCHANGED <<clock, releases>>

-----------------------------------------------------------------------------
FirstIndexer == IF External THEN "external" ELSE "local"

(* Mutated form of GetReleases: an item that nobody has stored will do.    *)
GetReleasesOfAny(s, i, refresh) ==
  /\ reqs[s] = Idle
  /\ refresh \/ \A h \in Hash : ~Fresh(releases[i][h])
  /\ Start(s, [op |-> FirstIndexer, item |-> i, since |-> clock])
  /\ UNCHANGED <<clock, tmdb, releases>>

(* GET /api/media/{id}/releases, when no release is fresh or with          *)
(* refresh=true: the transaction has begun, and an indexer is asked.  A    *)
(* hit changes nothing.                                                    *)
GetReleases(s, i, refresh) ==
  /\ reqs[s] = Idle
  /\ tmdb[i] # "absent"
  /\ refresh \/ \A h \in Hash : ~Fresh(releases[i][h])
  /\ Start(s, [op |-> FirstIndexer, item |-> i, since |-> clock])
  /\ UNCHANGED <<clock, tmdb, releases>>

(* An indexer answers, perhaps with nothing; an empty answer is final.     *)
IndexerAnswers(s, found) ==
  /\ reqs[s].op \in {"external", "local"}
  /\ Start(s, [op |-> "store", item |-> reqs[s].item, since |-> reqs[s].since,
               found |-> found, readAt |-> clock])
  /\ UNCHANGED <<clock, tmdb, releases>>

(* Any failure of the external indexer falls back to the local one.        *)
ExternalFails(s) ==
  /\ reqs[s].op = "external"
  /\ reqs' = [reqs EXCEPT ![s].op = "local"]
  /\ UNCHANGED <<clock, tmdb, releases>>

(* Mutated form of FetchedAt: the time of the upsert.                      *)
FetchedAtUpsert(req) == clock

(* now() is the time at which the transaction began.                       *)
FetchedAt(req) == req.since

(* The upserts of all releases, and their commit.                          *)
StoreReleases(s) ==
  LET req == reqs[s] IN
  /\ req.op = "store"
  /\ releases' = [releases EXCEPT ![req.item] = [h \in Hash |->
       IF h \in req.found THEN [fetched |-> FetchedAt(req), readAt |-> req.readAt] ELSE @[h]]]
  /\ Done(s)
  /\ UNCHANGED <<clock, tmdb>>

(* An error, the local indexer's failure or a deadlock in the database     *)
(* ends a request; earlier commits of a search remain.                     *)
Abort(s) ==
  /\ reqs[s] # Idle
  /\ Done(s)
  /\ UNCHANGED <<clock, tmdb, releases>>

Tick ==
  /\ clock < MaxTime
  /\ clock' = clock + 1
  /\ UNCHANGED <<tmdb, releases, reqs>>

Next ==
  \/ \E s \in Slot, found \in KinopoiskAnswer : Search(s, found)
  \/ \E s \in Slot, i \in Item : Upsert(s, i)
  \/ \E s \in Slot, id \in TmdbAnswer : Resolve(s, id)
  \/ \E s \in Slot, i \in Item, refresh \in BOOLEAN : GetReleases(s, i, refresh)
  \/ \E s \in Slot, found \in SUBSET Hash : IndexerAnswers(s, found)
  \/ \E s \in Slot : ExternalFails(s) \/ StoreReleases(s) \/ Abort(s)
  \/ Tick

Spec == Init /\ [][Next]_vars

-----------------------------------------------------------------------------
(* The tables have the shape the code gives them, and releases are those   *)
(* of media items that exist.                                              *)
TypeOK ==
  /\ clock \in Nat
  /\ tmdb \in [Item -> TmdbId \cup {None, "absent"}]
  /\ releases \in [Item -> [Hash -> Release \cup {None}]]
  /\ \A i \in Item, h \in Hash : releases[i][h] # None => tmdb[i] # "absent"

(* Later searches never wipe out a TMDB id, nor does a failure of TMDB     *)
(* that another search has overtaken (upsert_media_items).                 *)
ResolvedStays ==
  [][\A i \in Item : tmdb[i] \in TmdbId => tmdb'[i] \in TmdbId]_vars

(* An id that came with the item is never replaced by a guess of TMDB,     *)
(* however searches overlap (upsert_media_items).                          *)
KnownKept ==
  \A i \in Item : tmdb[i] # "absent" /\ Known[i] # None => tmdb[i] = Known[i]

(* What a hit returns was read from an indexer within the window, however  *)
(* long the fetch took and whichever fetch wrote last (get_releases).      *)
FreshWithinWindow ==
  \A i \in Item, h \in Hash :
    Fresh(releases[i][h]) => releases[i][h].readAt + Window > clock
=============================================================================
