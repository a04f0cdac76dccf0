-------------------------- MODULE CatalogueProofs --------------------------
(***************************************************************************)
(* The catalogue's properties for any items, releases, requests and window.*)
(***************************************************************************)
EXTENDS Catalogue, TLAPS

Upserting == [op : {"upsert"}, todo : SUBSET Item]
Resolving == [op : {"resolve"}, item : Item, todo : SUBSET Item]
Asking == [op : {"external", "local"}, item : Item, since : Nat]
Storing == [op : {"store"}, item : Item, since : Nat, found : SUBSET Hash, readAt : Nat]

Request == {Idle} \cup Upserting \cup Resolving \cup Asking \cup Storing

(* What a request remembers: TMDB is asked only about an item that came    *)
(* without an id, and releases are fetched only for an item that exists,   *)
(* by a transaction that began before the indexer was read.                *)
RequestSound(req, ids, now) ==
  /\ req.op = "resolve" => ids[req.item] # "absent" /\ Known[req.item] = None
  /\ req.op \in {"external", "local", "store"} => ids[req.item] # "absent"
  /\ req.op \in {"external", "local"} => req.since <= now
  /\ req.op = "store" => req.since <= req.readAt

(* A release counts from a time at which it had not been read yet.         *)
FetchedBeforeRead ==
  \A i \in Item, h \in Hash :
    releases[i][h] # None => releases[i][h].fetched <= releases[i][h].readAt

IInv ==
  /\ TypeOK
  /\ reqs \in [Slot -> Request]
  /\ \A s \in Slot : RequestSound(reqs[s], tmdb, clock)
  /\ KnownKept
  /\ FetchedBeforeRead

LEMMA InitIInv == Init => IInv
BY CatalogueAssumption
DEF Init, IInv, TypeOK, KnownKept, FetchedBeforeRead, RequestSound, Request, Idle

(* No action removes a row, so what a request knows of its item stays true.*)
LEMMA RowsStay ==
  ASSUME NEW req \in Request, NEW ids, NEW ids2, NEW now \in Nat, NEW now2 \in Nat, now <= now2,
         RequestSound(req, ids, now), \A i \in Item : ids[i] # "absent" => ids2[i] # "absent"
  PROVE  RequestSound(req, ids2, now2)
BY DEF RequestSound, Request, Idle, Upserting, Resolving, Asking, Storing

(* Every action preserves the invariant.                                   *)
LEMMA NextIInv == IInv /\ [Next]_vars => IInv'
<1> SUFFICES ASSUME IInv, [Next]_vars PROVE IInv'
  OBVIOUS
<1> USE CatalogueAssumption
<1>a. reqs \in [Slot -> Request] /\ \A r \in Slot : RequestSound(reqs[r], tmdb, clock)
  BY DEF IInv
<1>b. clock \in Nat /\ clock <= clock
  BY DEF IInv, TypeOK
<1>c. ASSUME UNCHANGED <<tmdb, clock>> PROVE \A r \in Slot : RequestSound(reqs[r], tmdb', clock')
  BY <1>a, <1>c
<1>0. Idle \in Request /\ RequestSound(Idle, tmdb', clock')
  BY DEF Request, RequestSound, Idle
<1>1. ASSUME NEW s \in Slot, NEW found \in SUBSET Item, Search(s, found) PROVE IInv'
  <2> DEFINE req == [op |-> "upsert", todo |-> found]
  <2>1. req \in Request /\ RequestSound(req, tmdb', clock')
    BY DEF Request, Upserting, RequestSound
  <2>2. reqs' \in [Slot -> Request] /\ \A r \in Slot : RequestSound(reqs'[r], tmdb', clock')
    BY <1>a, <1>c, <1>1, <2>1 DEF Search, Start
  <2> QED
    BY <1>1, <2>2 DEF Search, IInv, TypeOK, KnownKept, FetchedBeforeRead
<1>2. ASSUME NEW s \in Slot, NEW i \in Item, Upsert(s, i) PROVE IInv'
  <2> DEFINE todo == reqs[s].todo \ {i}
             asking == [op |-> "resolve", item |-> i, todo |-> todo]
             next == [op |-> "upsert", todo |-> todo]
  <2>0. clock' = clock
    BY <1>2 DEF Upsert
  <2>1. reqs[s] \in Upserting
    BY <1>2 DEF Upsert, IInv, Request, Idle, Resolving, Asking, Storing
  <2>2. Upserted(i) \in TmdbId \cup {None} /\ Upserted(i) # "absent"
    BY DEF Upserted, IInv, TypeOK
  <2>3. tmdb' \in [Item -> TmdbId \cup {None, "absent"}] /\ tmdb'[i] = Upserted(i)
    BY <1>2, <2>2 DEF Upsert, IInv, TypeOK
  <2>4. \A j \in Item : tmdb[j] # "absent" => tmdb'[j] # "absent"
    BY <1>2, <2>2, <2>3 DEF Upsert, IInv, TypeOK
  <2>5. TypeOK'
    BY <1>2, <2>3, <2>4 DEF Upsert, IInv, TypeOK
  <2>6. KnownKept'
    BY <1>2, <2>3 DEF Upsert, Upserted, IInv, TypeOK, KnownKept
  <2>7. Upserted(i) = None => Known[i] = None
    BY DEF Upserted, IInv, KnownKept
  <2>8. next \in Request /\ RequestSound(next, tmdb', clock')
    BY <2>1 DEF Request, Upserting, RequestSound
  <2>9. \A r \in Slot : RequestSound(reqs[r], tmdb', clock')
    BY <1>a, <1>b, <2>0, <2>4, RowsStay
  <2>10. reqs' \in [Slot -> Request] /\ \A r \in Slot : RequestSound(reqs'[r], tmdb', clock')
    <3>1. CASE NeedsTmdb(Upserted(i))
      <4>1. asking \in Request /\ RequestSound(asking, tmdb', clock')
        BY <2>1, <2>2, <2>3, <2>7, <3>1 DEF Request, Upserting, Resolving, RequestSound, NeedsTmdb
      <4>2. reqs' = [reqs EXCEPT ![s] = asking]
        BY <1>2, <3>1 DEF Upsert, Start
      <4> HIDE DEF asking
      <4> QED
        BY <1>a, <2>9, <4>1, <4>2
    <3>2. CASE ~NeedsTmdb(Upserted(i)) /\ todo = {}
      <4>1. reqs' = [reqs EXCEPT ![s] = Idle]
        BY <1>2, <3>2 DEF Upsert, Done
      <4> QED
        BY <1>a, <1>0, <2>9, <4>1
    <3>3. CASE ~NeedsTmdb(Upserted(i)) /\ todo # {}
      <4>1. reqs' = [reqs EXCEPT ![s] = next]
        BY <1>2, <3>3 DEF Upsert, Start
      <4> HIDE DEF next
      <4> QED
        BY <1>a, <2>8, <2>9, <4>1
    <3> QED
      BY <3>1, <3>2, <3>3
  <2> QED
    BY <1>2, <2>5, <2>6, <2>10 DEF Upsert, IInv, FetchedBeforeRead
<1>3. ASSUME NEW s \in Slot, NEW id \in TmdbId \cup {None}, Resolve(s, id) PROVE IInv'
  <2> DEFINE next == [op |-> "upsert", todo |-> reqs[s].todo]
  <2>0. clock' = clock
    BY <1>3 DEF Resolve
  <2>1. reqs[s] \in Resolving /\ tmdb[reqs[s].item] # "absent" /\ Known[reqs[s].item] = None
    BY <1>3 DEF Resolve, IInv, Request, RequestSound, Idle, Upserting, Asking, Storing
  <2>2. reqs[s].item \in Item /\ next \in Request /\ RequestSound(next, tmdb', clock')
    BY <2>1 DEF Request, Upserting, Resolving, RequestSound
  <2>3. \A j \in Item : tmdb[j] # "absent" => tmdb'[j] # "absent"
    BY <1>3, <2>2 DEF Resolve, IInv, TypeOK
  <2>4. TypeOK'
    BY <1>3, <2>2, <2>3 DEF Resolve, IInv, TypeOK
  <2>5. KnownKept'
    BY <1>3, <2>1, <2>2 DEF Resolve, IInv, TypeOK, KnownKept
  <2>6. \/ reqs' = [reqs EXCEPT ![s] = Idle]
        \/ reqs' = [reqs EXCEPT ![s] = next]
    BY <1>3 DEF Resolve, Start, Done
  <2>7. \A r \in Slot : RequestSound(reqs[r], tmdb', clock')
    BY <1>a, <1>b, <2>0, <2>3, RowsStay
  <2>8. reqs' \in [Slot -> Request] /\ \A r \in Slot : RequestSound(reqs'[r], tmdb', clock')
    <3> HIDE DEF next
    <3> QED
      BY <1>a, <1>0, <2>2, <2>6, <2>7
  <2> QED
    BY <1>3, <2>4, <2>5, <2>8 DEF Resolve, IInv, FetchedBeforeRead
<1>4. ASSUME NEW s \in Slot, NEW i \in Item, NEW refresh \in BOOLEAN, GetReleases(s, i, refresh)
      PROVE IInv'
  <2> DEFINE req == [op |-> FirstIndexer, item |-> i, since |-> clock]
  <2>1. req \in Request /\ RequestSound(req, tmdb', clock')
    BY <1>4 DEF GetReleases, FirstIndexer, Request, Asking, RequestSound, IInv, TypeOK
  <2>2. reqs' \in [Slot -> Request] /\ \A r \in Slot : RequestSound(reqs'[r], tmdb', clock')
    BY <1>a, <1>c, <1>4, <2>1 DEF GetReleases, Start
  <2> QED
    BY <1>4, <2>2 DEF GetReleases, IInv, TypeOK, KnownKept, FetchedBeforeRead
<1>5. ASSUME NEW s \in Slot, NEW found \in SUBSET Hash, IndexerAnswers(s, found) PROVE IInv'
  <2> DEFINE req == [op |-> "store", item |-> reqs[s].item, since |-> reqs[s].since,
                     found |-> found, readAt |-> clock]
  <2>1. reqs[s] \in Asking /\ RequestSound(reqs[s], tmdb, clock)
    BY <1>5 DEF IndexerAnswers, IInv, Request, Idle, Upserting, Resolving, Storing
  <2>2. req \in Request /\ RequestSound(req, tmdb', clock')
    BY <1>5, <2>1 DEF IndexerAnswers, Request, Asking, Storing, RequestSound, IInv, TypeOK
  <2>3. reqs' \in [Slot -> Request] /\ \A r \in Slot : RequestSound(reqs'[r], tmdb', clock')
    BY <1>a, <1>c, <1>5, <2>2 DEF IndexerAnswers, Start
  <2> QED
    BY <1>5, <2>3 DEF IndexerAnswers, IInv, TypeOK, KnownKept, FetchedBeforeRead
<1>6. ASSUME NEW s \in Slot, ExternalFails(s) PROVE IInv'
  <2> DEFINE req == [reqs[s] EXCEPT !.op = "local"]
  <2>1. reqs[s] \in Asking /\ RequestSound(reqs[s], tmdb, clock)
    BY <1>6 DEF ExternalFails, IInv, Request, Idle, Upserting, Resolving, Storing
  <2>2. req \in Request /\ RequestSound(req, tmdb', clock')
    BY <1>6, <2>1 DEF ExternalFails, Request, Asking, RequestSound
  <2>3. reqs' = [reqs EXCEPT ![s] = req]
    BY <1>6 DEF ExternalFails
  <2>0. clock' = clock /\ tmdb' = tmdb
    BY <1>6 DEF ExternalFails
  <2>4. reqs' \in [Slot -> Request] /\ \A r \in Slot : RequestSound(reqs'[r], tmdb', clock')
    BY <1>a, <1>c, <2>0, <2>2, <2>3
  <2> QED
    BY <1>6, <2>4 DEF ExternalFails, IInv, TypeOK, KnownKept, FetchedBeforeRead
<1>7. ASSUME NEW s \in Slot, StoreReleases(s) PROVE IInv'
  <2> DEFINE req == reqs[s]
             row == [fetched |-> req.since, readAt |-> req.readAt]
  <2>1. req \in Storing /\ tmdb[req.item] # "absent" /\ req.since <= req.readAt
    BY <1>7 DEF StoreReleases, IInv, Request, RequestSound, Idle, Upserting, Resolving, Asking
  <2>2. row \in Release /\ row.fetched <= row.readAt /\ req.item \in Item
    BY <2>1 DEF Storing, Release
  <2>3. /\ \A h \in Hash : releases'[req.item][h] =
               IF h \in req.found THEN row ELSE releases[req.item][h]
        /\ \A i \in Item : i # req.item => releases'[i] = releases[i]
        /\ releases' \in [Item -> [Hash -> Release \cup {None}]]
    BY <1>7, <2>2 DEF StoreReleases, FetchedAt, IInv, TypeOK
  <2>4. TypeOK'
    BY <1>7, <2>1, <2>3 DEF StoreReleases, IInv, TypeOK
  <2>5. FetchedBeforeRead'
    BY <2>2, <2>3 DEF IInv, FetchedBeforeRead
  <2>6. reqs' \in [Slot -> Request] /\ \A r \in Slot : RequestSound(reqs'[r], tmdb', clock')
    BY <1>0, <1>a, <1>c, <1>7 DEF StoreReleases, Done
  <2> QED
    BY <1>7, <2>4, <2>5, <2>6 DEF StoreReleases, IInv, KnownKept
<1>8. ASSUME NEW s \in Slot, Abort(s) PROVE IInv'
  <2>1. reqs' \in [Slot -> Request] /\ \A r \in Slot : RequestSound(reqs'[r], tmdb', clock')
    BY <1>0, <1>a, <1>c, <1>8 DEF Abort, Done
  <2> QED
    BY <1>8, <2>1 DEF Abort, IInv, TypeOK, KnownKept, FetchedBeforeRead
<1>9. CASE Tick
  <2>1. clock \in Nat /\ clock' \in Nat /\ clock <= clock'
    BY <1>9 DEF Tick, IInv, TypeOK
  <2>2. \A q \in Request : RequestSound(q, tmdb, clock) => RequestSound(q, tmdb', clock')
    BY <1>9, <2>1, RowsStay DEF Tick
  <2>3. \A r \in Slot : RequestSound(reqs'[r], tmdb', clock')
    BY <1>9, <2>2 DEF Tick, IInv, RequestSound
  <2> QED
    BY <1>9, <2>1, <2>3 DEF Tick, IInv, TypeOK, KnownKept, FetchedBeforeRead
<1>10. CASE UNCHANGED vars
  BY <1>10 DEF vars, IInv, TypeOK, RequestSound, KnownKept, FetchedBeforeRead
<1> QED
  BY <1>1, <1>2, <1>3, <1>4, <1>5, <1>6, <1>7, <1>8, <1>9, <1>10
  DEF Next, TmdbAnswer, KinopoiskAnswer

LEMMA Inductive == Spec => []IInv
BY InitIInv, NextIInv, PTL DEF Spec

(* The tables keep their shape, and no release outlives its media item.    *)
THEOREM TypeCorrect == Spec => []TypeOK
BY Inductive, PTL DEF IInv

(* An id that the provider gave is kept, whatever TMDB answers to others.  *)
THEOREM KnownIdsKept == Spec => []KnownKept
BY Inductive, PTL DEF IInv

(* A release that counts as fresh was read within the window.              *)
THEOREM Freshness == Spec => []FreshWithinWindow
<1>1. IInv => FreshWithinWindow
  BY CatalogueAssumption
  DEF IInv, TypeOK, FetchedBeforeRead, FreshWithinWindow, Fresh, Release
<1> QED
  BY <1>1, Inductive, PTL

(* No step takes a TMDB id away from an item.                              *)
THEOREM ResolvedForever == Spec => ResolvedStays
<1>1. IInv /\ [Next]_vars =>
        [\A i \in Item : tmdb[i] \in TmdbId => tmdb'[i] \in TmdbId]_vars
  <2> SUFFICES ASSUME IInv, Next, NEW i \in Item, tmdb[i] \in TmdbId PROVE tmdb'[i] \in TmdbId
    OBVIOUS
  <2>1. ASSUME NEW s \in Slot, NEW j \in Item, Upsert(s, j) PROVE tmdb'[i] \in TmdbId
    BY <2>1, CatalogueAssumption DEF Upsert, Upserted, IInv, TypeOK
  <2>2. ASSUME NEW s \in Slot, NEW id \in TmdbId \cup {None}, Resolve(s, id)
        PROVE tmdb'[i] \in TmdbId
    BY <2>2 DEF Resolve, IInv, TypeOK
  <2>3. CASE UNCHANGED tmdb
    BY <2>3
  <2> QED
    BY <2>1, <2>2, <2>3
    DEF Next, TmdbAnswer, Search, GetReleases, IndexerAnswers, ExternalFails, StoreReleases, Abort, Tick
<1> QED
  BY <1>1, Inductive, PTL DEF Spec, ResolvedStays
=============================================================================
