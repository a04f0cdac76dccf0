--------------------------- MODULE ArrCacheProofs ---------------------------
(***************************************************************************)
(* Whose data a hit returns and how old it is at most, for all TTLs, all   *)
(* resources and every number of concurrent requests.                      *)
(***************************************************************************)
EXTENDS ArrCache, TLAPS

(* A request reads the upstream after it took the time, so an entry, which *)
(* is of the resource of its key, never outlives its reading by more than  *)
(* the TTL.                                                                *)
CallSound(call, now) ==
  /\ call.at = "asking" => call.since <= now
  /\ call.at = "storing" => call.since <= call.readAt

EntrySound(e, r) == e # None => e.of = r /\ e.until <= e.readAt + TTL(r)

IInv ==
  /\ TypeOK
  /\ \A c \in Call : CallSound(calls[c], clock)
  /\ \A r \in Resource : EntrySound(store[r], r)

LEMMA TTLNat == \A r \in Resource : TTL(r) \in Nat
BY CacheAssumption DEF TTL

LEMMA InitIInv == Init => IInv
BY CacheAssumption DEF Init, IInv, TypeOK, CallSound, EntrySound, Idle, Empty

LEMMA NextIInv == IInv /\ [Next]_vars => IInv'
<1> SUFFICES ASSUME IInv, [Next]_vars PROVE IInv'
  OBVIOUS
<1>1. ASSUME NEW c \in Call, NEW r \in Asked, NEW refresh \in BOOLEAN, Get(c, r, refresh)
      PROVE IInv'
  <2>1. r \in Resource
    BY CacheAssumption
  <2>2. calls' \in [Call -> {Idle} \cup Asking \cup Storing]
    BY <1>1, <2>1 DEF Get, IInv, TypeOK, Asking
  <2>3. \A d \in Call : CallSound(calls'[d], clock')
    BY <1>1 DEF Get, IInv, TypeOK, CallSound
  <2>4. \A q \in Resource : store'[q] \in {store[q], None}
    BY <1>1 DEF Get, IInv, TypeOK
  <2>5. store' \in [Resource -> Entry \cup {None}]
    BY <1>1 DEF Get, IInv, TypeOK
  <2> QED
    BY <1>1, <2>2, <2>3, <2>4, <2>5 DEF Get, IInv, TypeOK, EntrySound
<1>2. ASSUME NEW c \in Call, Answered(c) PROVE IInv'
  <2>1. calls[c] \in Asking
    BY <1>2 DEF Answered, IInv, TypeOK, Idle, Storing
  <2> QED
    BY <1>2, <2>1 DEF Answered, IInv, TypeOK, CallSound, EntrySound, Asking, Storing
<1>3. ASSUME NEW c \in Call, Fails(c) PROVE IInv'
  BY <1>3 DEF Fails, IInv, TypeOK, CallSound, EntrySound, Idle
<1>4. ASSUME NEW c \in Call, Store(c) PROVE IInv'
  <2> DEFINE e == [until |-> Until(calls[c]), of |-> calls[c].for, readAt |-> calls[c].readAt]
  <2>1. calls[c] \in Storing
    BY <1>4 DEF Store, IInv, TypeOK, Idle, Asking
  <2>2. TTL(calls[c].for) \in Nat
    BY <2>1, TTLNat DEF Storing
  <2>3. e \in Entry
    BY <2>1, <2>2 DEF Until, Entry, Storing
  <2>4. EntrySound(e, calls[c].for)
    BY <1>4, <2>1, <2>2 DEF Until, Storing, IInv, CallSound, EntrySound
  <2>5. store' = [store EXCEPT ![calls[c].for] = e] /\ calls[c].for \in Resource
    BY <1>4, <2>1 DEF Store, CacheKey, Storing
  <2> HIDE DEF e
  <2>6. TypeOK'
    BY <1>4, <2>3, <2>5 DEF Store, IInv, TypeOK
  <2>7. \A r \in Resource : EntrySound(store'[r], r)
    BY <2>4, <2>5 DEF IInv, TypeOK
  <2>8. \A d \in Call : CallSound(calls'[d], clock')
    BY <1>4 DEF Store, IInv, TypeOK, CallSound, Idle
  <2> QED
    BY <2>6, <2>7, <2>8 DEF IInv
<1>5. CASE Restart
  BY <1>5, CacheAssumption DEF Restart, Empty, IInv, TypeOK, CallSound, EntrySound, Idle
<1>6. CASE Tick
  <2>1. TypeOK'
    BY <1>6 DEF Tick, IInv, TypeOK
  <2>2. \A c \in Call : CallSound(calls[c], clock')
    BY <1>6 DEF Tick, IInv, TypeOK, CallSound, Asking, Idle, Storing
  <2> QED
    BY <1>6, <2>1, <2>2 DEF Tick, IInv
<1>7. CASE UNCHANGED vars
  BY <1>7 DEF vars, IInv, TypeOK
<1> QED
  BY <1>1, <1>2, <1>3, <1>4, <1>5, <1>6, <1>7 DEF Next

LEMMA Inductive == Spec => []IInv
BY InitIInv, NextIInv, PTL DEF Spec

(* The state keeps its shape.                                              *)
THEOREM TypeCorrect == Spec => []TypeOK
BY Inductive, PTL DEF IInv

(* A hit returns data of its own resource, never read TTL ago or earlier.  *)
THEOREM Freshness == Spec => []FreshWithinTTL
<1>1. IInv => FreshWithinTTL
  BY TTLNat DEF IInv, TypeOK, EntrySound, FreshWithinTTL, Hit, CacheKey, Entry
<1> QED
  BY <1>1, Inductive, PTL
=============================================================================
