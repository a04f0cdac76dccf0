---------------------------- MODULE RoomProofs -----------------------------
(***************************************************************************)
(* The room keeps its shape and a host who is there, for every number of   *)
(* users and connections; and, if nobody has two connections at a time,    *)
(* every handler works on the room that is registered, and every client    *)
(* ends up knowing the host and the playback, also when broadcasts break   *)
(* or are overtaken, unless the room changed before a promotion was told.  *)
(***************************************************************************)
EXTENDS WatchRoom, SequenceTheorems, WellFoundedInduction, TLAPS

(* A non-empty set of numbers has a first one.                             *)
LEMMA FirstOf ==
  ASSUME NEW S \in SUBSET Nat, S # {}
  PROVE  First(S) \in S /\ \A j \in S : First(S) <= j
<1>1. \E i \in S : \A j \in S : ~(<<j, i>> \in OpToRel(<, Nat))
  BY NatLessThanWellFounded, WFMin
<1>2. \A i \in S : \A j \in S : ~(<<j, i>> \in OpToRel(<, Nat)) => i <= j
  BY DEF OpToRel
<1>3. \E i \in S : \A j \in S : i <= j
  BY <1>1, <1>2
<1> QED
  BY <1>3 DEF First

-----------------------------------------------------------------------------
(* A RoomState whose list of keys agrees with its sockets.                 *)
Room == [host : User, entries : Seq(User \cup {None}), sock : [User -> Conn \cup {None}],
         playing : BOOLEAN]

Agrees(r) ==
  /\ \A j \in DOMAIN r.entries : r.entries[j] # None => r.sock[r.entries[j]] # None
  /\ \A u \in User : r.sock[u] # None => \E j \in DOMAIN r.entries : r.entries[j] = u

(* A room that had its host has it in the end, unless it is empty.         *)
Kept(r, s) == r.host \in Members(r) /\ Members(s) # {} => s.host \in Members(s)

LEMMA NewRoomAgrees ==
  ASSUME NEW host \in User
  PROVE  NewRoom(host) \in Room /\ Agrees(NewRoom(host))
<1>1. <<>> \in Seq(User \cup {None}) /\ DOMAIN <<>> = {}
  BY EmptySeq
<1> QED
  BY <1>1 DEF NewRoom, Room, Agrees

LEMMA WithMemberAgrees ==
  ASSUME NEW r \in Room, Agrees(r), NEW u \in User, NEW c \in Conn
  PROVE  /\ WithMember(r, u, c) \in Room
         /\ Agrees(WithMember(r, u, c))
         /\ WithMember(r, u, c).sock = [r.sock EXCEPT ![u] = c]
         /\ Kept(r, WithMember(r, u, c))
<1> DEFINE s == WithMember(r, u, c)
           es == IF u \in Members(r) THEN r.entries ELSE Append(r.entries, u)
<1>1. c # None /\ u # None
  BY RoomAssumption
<1>2. r.entries \in Seq(User \cup {None}) /\ r.sock \in [User -> Conn \cup {None}]
  BY DEF Room
<1>3. /\ es \in Seq(User \cup {None})
      /\ DOMAIN r.entries \subseteq DOMAIN es
      /\ \A j \in DOMAIN r.entries : es[j] = r.entries[j]
      /\ \A j \in DOMAIN es : es[j] = u \/ j \in DOMAIN r.entries
      /\ u \in Members(r) \/ \E j \in DOMAIN es : es[j] = u
  <2>1. CASE u \in Members(r)
    BY <1>2, <2>1
  <2>2. CASE u \notin Members(r)
    <3>1. /\ Append(r.entries, u) \in Seq(User \cup {None})
          /\ Len(Append(r.entries, u)) = Len(r.entries) + 1
          /\ \A j \in 1 .. Len(r.entries) : Append(r.entries, u)[j] = r.entries[j]
          /\ Append(r.entries, u)[Len(r.entries) + 1] = u
      BY <1>2, AppendProperties
    <3>2. /\ DOMAIN r.entries = 1 .. Len(r.entries)
          /\ Len(r.entries) \in Nat
          /\ DOMAIN Append(r.entries, u) = 1 .. (Len(r.entries) + 1)
      BY <1>2, <3>1, LenProperties
    <3> QED
      BY <2>2, <3>1, <3>2
  <2> QED
    BY <2>1, <2>2
<1> HIDE DEF es
<1>4. s = [r EXCEPT !.sock = [r.sock EXCEPT ![u] = c], !.entries = es]
  BY DEF WithMember, es
<1>5. /\ s.host = r.host
      /\ s.entries = es
      /\ s.sock = [r.sock EXCEPT ![u] = c]
      /\ s \in Room
  <2>1. [r.sock EXCEPT ![u] = c] \in [User -> Conn \cup {None}]
    BY <1>2
  <2> HIDE DEF s
  <2> QED
    BY <1>3, <1>4, <2>1 DEF Room
<1> HIDE DEF s
<1>6. /\ s.sock[u] = c
      /\ \A v \in User : v # u => s.sock[v] = r.sock[v]
  BY <1>2, <1>5
<1>7. \A j \in DOMAIN s.entries : s.entries[j] # None => s.sock[s.entries[j]] # None
  <2> SUFFICES ASSUME NEW j \in DOMAIN es, es[j] # None PROVE s.sock[es[j]] # None
    BY <1>5
  <2>1. es[j] \in User
    BY <1>3, LenProperties
  <2> QED
    BY <1>1, <1>3, <1>6, <2>1 DEF Agrees
<1>8. \A v \in User : s.sock[v] # None => \E j \in DOMAIN s.entries : s.entries[j] = v
  BY <1>3, <1>5, <1>6 DEF Agrees, Members
<1>9. Kept(r, s)
  BY <1>1, <1>5, <1>6 DEF Kept, Members
<1> QED
  BY <1>5, <1>7, <1>8, <1>9 DEF s, Agrees

LEMMA WithoutMemberAgrees ==
  ASSUME NEW r \in Room, Agrees(r), NEW u \in User
  PROVE  /\ WithoutMember(r, u) \in Room
         /\ Agrees(WithoutMember(r, u))
         /\ WithoutMember(r, u).sock = [r.sock EXCEPT ![u] = None]
         /\ WithoutMember(r, u).host = r.host
<1> DEFINE s == WithoutMember(r, u)
           e(j) == IF r.entries[j] = u THEN None ELSE r.entries[j]
           es == [j \in DOMAIN r.entries |-> e(j)]
<1>1. u # None
  BY RoomAssumption
<1>2. r.entries \in Seq(User \cup {None}) /\ r.sock \in [User -> Conn \cup {None}]
  BY DEF Room
<1>3. /\ DOMAIN r.entries = 1 .. Len(r.entries)
      /\ Len(r.entries) \in Nat
      /\ \A j \in DOMAIN r.entries : r.entries[j] \in User \cup {None}
  BY <1>2, LenProperties
<1>4. es \in Seq(User \cup {None}) /\ DOMAIN es = DOMAIN r.entries
  BY <1>3
<1>5. \A j \in DOMAIN es : es[j] = e(j)
  OBVIOUS
<1>6. s = [r EXCEPT !.sock = [r.sock EXCEPT ![u] = None], !.entries = es]
  BY DEF WithoutMember
<1> HIDE DEF es
<1>7. /\ s.host = r.host
      /\ s.entries = es
      /\ s.sock = [r.sock EXCEPT ![u] = None]
      /\ s \in Room
  BY <1>2, <1>4, <1>6 DEF Room
<1> HIDE DEF s
<1>8. /\ s.sock[u] = None
      /\ \A v \in User : v # u => s.sock[v] = r.sock[v]
  BY <1>2, <1>7
<1>9. \A j \in DOMAIN s.entries : s.entries[j] # None => s.sock[s.entries[j]] # None
  BY <1>3, <1>4, <1>5, <1>7, <1>8 DEF Agrees
<1>10. \A v \in User : s.sock[v] # None => \E j \in DOMAIN s.entries : s.entries[j] = v
  BY <1>4, <1>5, <1>7, <1>8 DEF Agrees
<1> QED
  BY <1>7, <1>9, <1>10 DEF s, Agrees

(* Who leaves as the host is followed by somebody who is there.            *)
LEMMA RemovedAgrees ==
  ASSUME NEW r \in Room, Agrees(r), NEW u \in User
  PROVE  /\ Removed(r, u) \in Room
         /\ Agrees(Removed(r, u))
         /\ Removed(r, u).sock = [r.sock EXCEPT ![u] = None]
         /\ Kept(r, Removed(r, u))
<1> DEFINE s == WithoutMember(r, u)
           i == First(Targets(s, 0, None))
<1>1. /\ s \in Room
      /\ Agrees(s)
      /\ s.sock = [r.sock EXCEPT ![u] = None]
      /\ s.host = r.host
  BY WithoutMemberAgrees
<1> HIDE DEF s
<1>2. /\ s.entries \in Seq(User \cup {None}) /\ s.sock \in [User -> Conn \cup {None}]
      /\ DOMAIN s.entries = 1 .. Len(s.entries)
      /\ Len(s.entries) \in Nat
      /\ \A j \in DOMAIN s.entries : s.entries[j] \in User \cup {None}
  BY <1>1, LenProperties DEF Room
<1>3. CASE r.host = u /\ Members(s) # {}
  <2>1. PICK v \in User : s.sock[v] # None
    BY <1>3 DEF Members
  <2>2. PICK j \in DOMAIN s.entries : s.entries[j] = v
    BY <1>1, <2>1 DEF Agrees
  <2>3. j \in Targets(s, 0, None)
    BY <1>2, <2>2, RoomAssumption DEF Targets
  <2>4. Targets(s, 0, None) \in SUBSET Nat
    BY <1>2 DEF Targets
  <2>5. i \in Targets(s, 0, None)
    BY <2>3, <2>4, FirstOf
  <2>6. i \in DOMAIN s.entries /\ s.entries[i] # None
    BY <1>2, <2>5 DEF Targets
  <2>7. s.entries[i] \in User /\ s.sock[s.entries[i]] # None
    BY <1>1, <1>2, <2>6 DEF Agrees
  <2>8. Removed(r, u) = [s EXCEPT !.host = s.entries[i]]
    BY <1>3 DEF Removed, s
  <2> HIDE DEF i
  <2>9. /\ Removed(r, u) \in Room
        /\ Removed(r, u).host = s.entries[i]
        /\ Removed(r, u).sock = s.sock
        /\ Removed(r, u).entries = s.entries
    BY <1>1, <2>7, <2>8 DEF Room
  <2> QED
    BY <1>1, <2>7, <2>9 DEF Agrees, Kept, Members
<1>4. CASE ~(r.host = u /\ Members(s) # {})
  <2>1. Removed(r, u) = s
    BY <1>4 DEF Removed, s
  <2>2. \A v \in User : v # u => s.sock[v] = r.sock[v]
    BY <1>1 DEF Room
  <2>3. Kept(r, s)
    BY <1>1, <1>4, <2>2 DEF Kept, Members
  <2> QED
    BY <1>1, <2>1, <2>3
<1> QED
  BY <1>3, <1>4

-----------------------------------------------------------------------------
(* The handlers and the rooms, and how they agree.                         *)
Stages == Resting \cup Inside \cup {"parting", "promoting"}

Shaped(h) == /\ h = [at |-> h.at, room |-> h.room, cast |-> h.cast, promoted |-> h.promoted]
             /\ h.at \in Stages

RoomsOK == rooms \in Seq(Room) /\ \A k \in DOMAIN rooms : Agrees(rooms[k])

HandlersOK ==
  /\ DOMAIN conns = Conn
  /\ \A c \in Conn : Shaped(conns[c]) /\ (conns[c].at \in Inside => conns[c].room \in DOMAIN rooms)

(* Inductive, whatever the number of connections of a user.                *)
WInv == RoomsOK /\ HandlersOK /\ current \in 0 .. Len(rooms)

(* Registered, and that there is a room to be registered in.               *)
Present == Registered /\ \A c \in Conn : conns[c].at \in Inside => current # 0

(* A handler as it is made, and in a broadcast.                            *)
LEMMA HandlerShaped ==
  ASSUME NEW at \in Stages, NEW k
  PROVE  Shaped(Handler(at, k)) /\ Handler(at, k).at = at /\ Handler(at, k).room = k
BY DEF Shaped, Handler

LEMMA PromotedShaped ==
  ASSUME NEW h, Shaped(h), NEW u
  PROVE  /\ Shaped([h EXCEPT !.promoted = u])
         /\ [h EXCEPT !.promoted = u].at = h.at
         /\ [h EXCEPT !.promoted = u].room = h.room
BY DEF Shaped

LEMMA CastShaped ==
  ASSUME NEW h, Shaped(h), NEW cast
  PROVE  /\ Shaped([h EXCEPT !.cast = cast])
         /\ [h EXCEPT !.cast = cast].at = h.at
         /\ [h EXCEPT !.cast = cast].room = h.room
BY DEF Shaped

LEMMA SendShape ==
  ASSUME NEW c, NEW h, Shaped(h), NEW k, NEW rs, NEW vs, NEW cast, NEW j,
         SendTo(c, h, k, rs, vs, cast, j)
  PROVE  \E x : conns' = [conns EXCEPT ![c] = x] /\ Shaped(x) /\ x.at = h.at /\ x.room = h.room
<1> DEFINE x == [h EXCEPT !.cast = [cast EXCEPT !.i = j]]
<1>1. conns' = [conns EXCEPT ![c] = x]
  BY DEF SendTo
<1>2. Shaped(x) /\ x.at = h.at /\ x.room = h.room
  BY CastShaped
<1> QED
  BY <1>1, <1>2

LEMMA BeginShape ==
  ASSUME NEW c, NEW h, NEW rest, Shaped(h), Shaped(rest), NEW skip, NEW msg,
         NEW rs, NEW cur, NEW vs, Begin(c, h, rest, skip, msg, rs, cur, vs)
  PROVE  \E x : /\ conns' = [conns EXCEPT ![c] = x]
                /\ Shaped(x)
                /\ x = rest \/ (x.at = h.at /\ x.room = h.room)
<1>1. CASE cur = 0 \/ Targets(rs[cur], 0, skip) = {}
  BY <1>1 DEF Begin
<1>2. CASE ~(cur = 0 \/ Targets(rs[cur], 0, skip) = {})
  <2> DEFINE cast == [room |-> cur, size |-> Cardinality(Members(rs[cur])), i |-> 0,
                      skip |-> skip, msg |-> msg]
             j == First(Targets(rs[cur], 0, skip))
  <2>1. SendTo(c, h, cur, rs, vs, cast, j)
    BY <1>2 DEF Begin
  <2> HIDE DEF cast, j
  <2> QED
    BY <2>1, SendShape
<1> QED
  BY <1>1, <1>2

(* The handler of c goes on to x, the rooms stay in shape.                 *)
LEMMA HandlerStep ==
  ASSUME WInv, RoomsOK', current' \in 0 .. Len(rooms'), DOMAIN rooms \subseteq DOMAIN rooms',
         NEW c \in Conn, NEW x, conns' = [conns EXCEPT ![c] = x], Shaped(x),
         x.at \in Inside => x.room \in DOMAIN rooms'
  PROVE  WInv'
BY DEF WInv, HandlersOK

LEMMA PresentStep ==
  ASSUME WInv, Present,
         NEW c \in Conn, NEW x, conns' = [conns EXCEPT ![c] = x],
         x.at \in Inside =>
           current' # 0 /\ x.room = current' /\ rooms'[current'].sock[UserOf[c]] = c,
         \A d \in Conn : d # c /\ conns[d].at \in Inside =>
           current' = current /\ rooms'[current].sock[UserOf[d]] = rooms[current].sock[UserOf[d]]
  PROVE  Present'
<1>1. \A d \in Conn : conns'[d] = IF d = c THEN x ELSE conns[d]
  BY DEF WInv, HandlersOK
<1> QED
  BY <1>1 DEF Present, Registered

(* remove_member takes one user out of the room there is.                  *)
LEMMA FinishShape ==
  ASSUME WInv, NEW c \in Conn, Finish(c)
  PROVE  /\ RoomsOK'
         /\ current' \in 0 .. Len(rooms')
         /\ DOMAIN rooms' = DOMAIN rooms
         /\ \A k \in DOMAIN rooms : Kept(rooms[k], rooms'[k])
         /\ \E x : conns' = [conns EXCEPT ![c] = x] /\ Shaped(x) /\ x.at \in {"parting", "closed"}
         /\ \A u \in User : u # UserOf[c] /\ current # 0 /\ rooms[current].sock[u] # None =>
              current' = current /\ rooms'[current].sock[u] = rooms[current].sock[u]
<1> DEFINE u == UserOf[c]
           present == current # 0 /\ u \in Members(rooms[current])
           r == Removed(rooms[current], u)
           rs == IF present THEN [rooms EXCEPT ![current] = r] ELSE rooms
           cur == IF present /\ Members(rs[current]) = {} THEN 0 ELSE current
           host == IF present /\ rs[current].host # rooms[current].host THEN rs[current].host ELSE None
           h == [Handler("parting", 0) EXCEPT !.promoted = host]
           vs == [views EXCEPT ![c] = Untold]
<1>1. /\ rooms' = rs
      /\ current' = cur
      /\ Begin(c, h, Handler("closed", 0), None, Note, rs, cur, vs)
  BY DEF Finish
<1>2. \E x : conns' = [conns EXCEPT ![c] = x] /\ Shaped(x) /\ x.at \in {"parting", "closed"}
  <2>1. /\ Shaped(Handler("parting", 0)) /\ Handler("parting", 0).at = "parting"
        /\ Shaped(Handler("closed", 0)) /\ Handler("closed", 0).at = "closed"
    BY HandlerShaped DEF Stages, Resting
  <2>2. Shaped(h) /\ h.at = "parting"
    BY <2>1, PromotedShaped
  <2> DEFINE closed == Handler("closed", 0)
  <2>4. Begin(c, h, closed, None, Note, rs, cur, vs) /\ Shaped(closed)
    BY <1>1, <2>1
  <2> HIDE DEF h, rs, cur, vs, closed
  <2>3. \E x : /\ conns' = [conns EXCEPT ![c] = x]
               /\ Shaped(x)
               /\ x = closed \/ (x.at = h.at /\ x.room = h.room)
    BY <2>2, <2>4, BeginShape
  <2> QED
    BY <2>1, <2>2, <2>3 DEF closed
<1>3. /\ rooms \in Seq(Room) /\ \A k \in DOMAIN rooms : Agrees(rooms[k])
      /\ DOMAIN rooms = 1 .. Len(rooms) /\ Len(rooms) \in Nat
      /\ current \in 0 .. Len(rooms)
      /\ \A k \in DOMAIN rooms : rooms[k] \in Room
      /\ u \in User
  BY LenProperties, ElementOfSeq, RoomAssumption DEF WInv, RoomsOK
<1> HIDE DEF r, h, host, vs, u
<1>4. CASE present
  <2>1. current \in DOMAIN rooms /\ rooms[current] \in Room /\ Agrees(rooms[current])
    BY <1>3, <1>4
  <2>2. /\ r \in Room
        /\ Agrees(r)
        /\ r.sock = [rooms[current].sock EXCEPT ![u] = None]
        /\ Kept(rooms[current], r)
    BY <1>3, <2>1, RemovedAgrees DEF r
  <2>3. /\ rs \in Seq(Room)
        /\ Len(rs) = Len(rooms)
        /\ DOMAIN rs = DOMAIN rooms
        /\ rs[current] = r
        /\ \A k \in DOMAIN rooms : k # current => rs[k] = rooms[k]
    BY <1>3, <1>4, <2>1, <2>2
  <2>4. current' = IF Members(r) = {} THEN 0 ELSE current
    BY <1>1, <1>4, <2>3
  <2> HIDE DEF rs, cur, present
  <2>5. \A k \in DOMAIN rooms : Agrees(rs[k]) /\ Kept(rooms[k], rs[k])
    BY <1>3, <2>2, <2>3 DEF Kept
  <2>6. ASSUME NEW v \in User, v # u, rooms[current].sock[v] # None
        PROVE  current' = current /\ rs[current].sock[v] = rooms[current].sock[v]
    <3>1. r.sock[v] = rooms[current].sock[v]
      BY <2>1, <2>2, <2>6 DEF Room
    <3> QED
      BY <2>3, <2>4, <2>6, <3>1 DEF Members
  <2>7. rooms' = rs
    BY <1>1
  <2>8. current' \in 0 .. Len(rooms')
    BY <1>3, <2>3, <2>4, <2>7
  <2>9. RoomsOK'
    BY <2>3, <2>5, <2>7 DEF RoomsOK
  <2>10. \A v \in User : v # UserOf[c] /\ current # 0 /\ rooms[current].sock[v] # None =>
           current' = current /\ rooms'[current].sock[v] = rooms[current].sock[v]
    BY <2>6, <2>7 DEF u
  <2> QED
    BY <1>2, <2>3, <2>5, <2>7, <2>8, <2>9, <2>10
<1>5. CASE ~present
  <2>1. rooms' = rooms /\ current' = current
    BY <1>1, <1>5
  <2> QED
    BY <1>2, <1>3, <2>1 DEF RoomsOK, Kept
<1> QED
  BY <1>4, <1>5

-----------------------------------------------------------------------------
(* What every step keeps.                                                  *)
Good ==
  /\ WInv'
  /\ \A k \in DOMAIN rooms : Kept(rooms[k], rooms'[k])
  /\ OneTab /\ Present => Present'

(* A step of a handler that leaves the rooms alone.                        *)
LEMMA SameRooms ==
  ASSUME WInv, NEW c \in Conn, NEW x, conns' = [conns EXCEPT ![c] = x], Shaped(x),
         x.at \in Inside => conns[c].at \in Inside /\ x.room = conns[c].room,
         rooms' = rooms, current' = current
  PROVE  Good
<1>1. /\ RoomsOK'
      /\ current' \in 0 .. Len(rooms')
      /\ DOMAIN rooms' = DOMAIN rooms
      /\ \A k \in DOMAIN rooms : Kept(rooms[k], rooms'[k])
  BY DEF WInv, RoomsOK, Kept
<1>2. x.at \in Inside => x.room \in DOMAIN rooms'
  BY <1>1 DEF WInv, HandlersOK
<1>3. WInv'
  BY <1>1, <1>2, HandlerStep
<1>4. Present => Present'
  <2> SUFFICES ASSUME Present PROVE Present'
    OBVIOUS
  <2>1. x.at \in Inside =>
          current' # 0 /\ x.room = current' /\ rooms'[current'].sock[UserOf[c]] = c
    BY DEF Present, Registered
  <2> QED
    BY <2>1, PresentStep
<1> QED
  BY <1>1, <1>3, <1>4 DEF Good

(* A handler that ends takes its user out of the room, and no other one.   *)
LEMMA FinishGood ==
  ASSUME WInv, NEW c \in Conn, conns[c].at \in Inside, Finish(c)
  PROVE  Good
<1>1. /\ RoomsOK'
      /\ current' \in 0 .. Len(rooms')
      /\ DOMAIN rooms' = DOMAIN rooms
      /\ \A k \in DOMAIN rooms : Kept(rooms[k], rooms'[k])
      /\ \A u \in User : u # UserOf[c] /\ current # 0 /\ rooms[current].sock[u] # None =>
           current' = current /\ rooms'[current].sock[u] = rooms[current].sock[u]
  BY FinishShape
<1>2. PICK x : conns' = [conns EXCEPT ![c] = x] /\ Shaped(x) /\ x.at \in {"parting", "closed"}
  BY FinishShape
<1>3. x.at \notin Inside
  BY <1>2 DEF Inside
<1>4. WInv'
  BY <1>1, <1>2, <1>3, HandlerStep
<1>5. Present => Present'
  <2> SUFFICES ASSUME Present PROVE Present'
    OBVIOUS
  <2>1. ASSUME NEW d \in Conn, d # c, conns[d].at \in Inside
        PROVE  current' = current /\ rooms'[current].sock[UserOf[d]] = rooms[current].sock[UserOf[d]]
    <3>1. /\ current # 0
          /\ rooms[current].sock[UserOf[c]] = c
          /\ rooms[current].sock[UserOf[d]] = d
      BY <2>1 DEF Present, Registered
    <3>2. UserOf[d] \in User /\ UserOf[d] # UserOf[c] /\ d # None
      BY <2>1, <3>1, RoomAssumption
    <3> QED
      BY <1>1, <3>1, <3>2
  <2> QED
    BY <1>2, <1>3, <2>1, PresentStep
<1> QED
  BY <1>1, <1>4, <1>5 DEF Good

(* A member joins; with one connection per user, no other handler of its   *)
(* user is past its join.                                                  *)
LEMMA JoinGood ==
  ASSUME WInv, NEW c \in Conn, Join(c)
  PROVE  Good
<1> DEFINE u == UserOf[c]
           fresh == current = 0
           k == IF fresh THEN Len(rooms) + 1 ELSE current
           r == IF fresh THEN NewRoom(Owner) ELSE rooms[current]
           s == WithMember(r, u, c)
           x == Handler("greeting", k)
<1>1. /\ rooms' = IF fresh THEN Append(rooms, s) ELSE [rooms EXCEPT ![k] = s]
      /\ current' = k
      /\ conns' = [conns EXCEPT ![c] = x]
      /\ OneTab => \A d \in Conn : UserOf[d] = u =>
           conns[d].at \in {"offline", "parting", "promoting", "closed"}
  BY DEF Join
<1>2. /\ rooms \in Seq(Room) /\ \A j \in DOMAIN rooms : Agrees(rooms[j])
      /\ DOMAIN rooms = 1 .. Len(rooms) /\ Len(rooms) \in Nat
      /\ current \in 0 .. Len(rooms)
      /\ \A j \in DOMAIN rooms : rooms[j] \in Room
      /\ u \in User
  BY LenProperties, ElementOfSeq, RoomAssumption DEF WInv, RoomsOK
<1>3. r \in Room /\ Agrees(r)
  BY <1>2, NewRoomAgrees, RoomAssumption
<1>4. Shaped(x) /\ x.at = "greeting" /\ x.room = k
  BY HandlerShaped DEF Stages, Inside
<1> HIDE DEF r, u
<1>5. s \in Room /\ Agrees(s) /\ s.sock = [r.sock EXCEPT ![u] = c] /\ Kept(r, s)
  BY <1>2, <1>3, WithMemberAgrees
<1> HIDE DEF s
<1>6. /\ s.sock[u] = c
      /\ \A v \in User : v # u => s.sock[v] = r.sock[v]
  BY <1>2, <1>3, <1>5 DEF Room
<1>7. /\ rooms' \in Seq(Room)
      /\ DOMAIN rooms \subseteq DOMAIN rooms'
      /\ DOMAIN rooms' = 1 .. Len(rooms')
      /\ k \in DOMAIN rooms'
      /\ rooms'[k] = s
      /\ \A j \in DOMAIN rooms' : j # k => j \in DOMAIN rooms /\ rooms'[j] = rooms[j]
  <2>1. CASE fresh
    <3>1. rooms' = Append(rooms, s) /\ k = Len(rooms) + 1
      BY <1>1, <2>1
    <3>2. /\ rooms' \in Seq(Room)
          /\ Len(rooms') = Len(rooms) + 1
          /\ \A j \in 1 .. Len(rooms) : rooms'[j] = rooms[j]
          /\ rooms'[Len(rooms) + 1] = s
      BY <1>2, <1>5, <3>1, AppendProperties
    <3>3. DOMAIN rooms' = 1 .. (Len(rooms) + 1)
      BY <3>2, LenProperties
    <3> QED
      BY <1>2, <3>1, <3>2, <3>3
  <2>2. CASE ~fresh
    <3>1. rooms' = [rooms EXCEPT ![k] = s] /\ k \in DOMAIN rooms
      BY <1>1, <1>2, <2>2
    <3> QED
      BY <1>2, <1>5, <3>1
  <2> QED
    BY <2>1, <2>2
<1>8. /\ RoomsOK'
      /\ \A j \in DOMAIN rooms : Kept(rooms[j], rooms'[j])
      /\ current' \in 0 .. Len(rooms')
  <2>1. RoomsOK'
    BY <1>2, <1>5, <1>7 DEF RoomsOK
  <2>2. ASSUME NEW j \in DOMAIN rooms PROVE Kept(rooms[j], rooms'[j])
    <3>1. CASE j = k
      <4>1. r = rooms[j]
        BY <1>2, <2>2, <3>1 DEF r
      <4> QED
        BY <1>5, <1>7, <3>1, <4>1
    <3>2. CASE j # k
      BY <1>7, <2>2, <3>2 DEF Kept
    <3> QED
      BY <3>1, <3>2
  <2>3. current' \in 0 .. Len(rooms')
    BY <1>1, <1>2, <1>7
  <2> QED
    BY <2>1, <2>2, <2>3
<1>9. WInv'
  <2> HIDE DEF x, k
  <2> QED
    BY <1>1, <1>4, <1>7, <1>8, HandlerStep
<1>10. OneTab /\ Present => Present'
  <2> SUFFICES ASSUME OneTab, Present PROVE Present'
    OBVIOUS
  <2>1. current' # 0 /\ x.room = current' /\ rooms'[current'].sock[UserOf[c]] = c
    BY <1>1, <1>2, <1>4, <1>6, <1>7 DEF u
  <2>2. ASSUME NEW d \in Conn, d # c, conns[d].at \in Inside
        PROVE  current' = current /\ rooms'[current].sock[UserOf[d]] = rooms[current].sock[UserOf[d]]
    <3>1. current # 0
      BY <2>2 DEF Present
    <3>2. UserOf[d] # u /\ UserOf[d] \in User
      BY <1>1, <2>2, RoomAssumption DEF Inside
    <3>3. k = current /\ r = rooms[current]
      BY <3>1 DEF r
    <3> QED
      BY <1>1, <1>6, <1>7, <3>2, <3>3
  <2> HIDE DEF x, k
  <2> QED
    BY <1>1, <2>1, <2>2, PresentStep
<1> QED
  BY <1>8, <1>9, <1>10 DEF Good

LEMMA GreetedGood ==
  ASSUME WInv, NEW c \in Conn, Greeted(c)
  PROVE  Good
<1> DEFINE h == Handler("announcing", conns[c].room)
           rest == Handler("listening", conns[c].room)
           skip == UserOf[c]
<1>1. /\ Shaped(h) /\ h.room = conns[c].room
      /\ Shaped(rest) /\ rest.room = conns[c].room
  BY HandlerShaped DEF Stages, Resting, Inside
<1>2. /\ Begin(c, h, rest, skip, Note, rooms, current, views)
      /\ conns[c].at \in Inside
      /\ rooms' = rooms /\ current' = current
  BY DEF Greeted, Inside
<1> HIDE DEF h, rest, skip
<1>3. PICK x : /\ conns' = [conns EXCEPT ![c] = x]
               /\ Shaped(x)
               /\ x = rest \/ (x.at = h.at /\ x.room = h.room)
  BY <1>1, <1>2, BeginShape
<1> QED
  BY <1>1, <1>2, <1>3, SameRooms

(* The next send of a broadcast.                                           *)
LEMMA SendGood ==
  ASSUME WInv, NEW c \in Conn, SendNext(c)
  PROVE  Good
<1> DEFINE h == conns[c]
           cast == h.cast
           k == cast.room
           j == First(Left(cast))
<1>1. /\ SendTo(c, h, k, rooms, views, cast, j)
      /\ rooms' = rooms /\ current' = current
      /\ Shaped(h) /\ h.at = conns[c].at /\ h.room = conns[c].room
  BY DEF SendNext, WInv, HandlersOK
<1> HIDE DEF h, cast, k, j
<1>2. PICK x : conns' = [conns EXCEPT ![c] = x] /\ Shaped(x) /\ x.at = h.at /\ x.room = h.room
  BY <1>1, SendShape
<1> QED
  BY <1>1, <1>2, SameRooms

(* The end of a broadcast: listening again, on to the next one, or closed. *)
LEMMA CastDoneGood ==
  ASSUME WInv, NEW c \in Conn, CastDone(c)
  PROVE  Good
<1> DEFINE h == conns[c]
           listening == Handler("listening", h.room)
           promoting == Handler("promoting", 0)
           closed == Handler("closed", 0)
<1>1. /\ Shaped(listening) /\ listening.at = "listening" /\ listening.room = h.room
      /\ Shaped(promoting) /\ promoting.at = "promoting"
      /\ Shaped(closed) /\ closed.at = "closed"
  BY HandlerShaped DEF Stages, Resting
<1>2. rooms' = rooms /\ current' = current
  BY DEF CastDone
<1>3. CASE h.at \in {"announcing", "sharing"} /\ conns' = [conns EXCEPT ![c] = listening]
  <2>1. h.at \in Inside
    BY <1>3 DEF Inside
  <2> HIDE DEF listening
  <2> QED
    BY <1>1, <1>2, <1>3, <2>1, SameRooms
<1>4. CASE conns' = [conns EXCEPT ![c] = closed]
  <2>1. closed.at \notin Inside
    BY <1>1 DEF Inside
  <2> HIDE DEF closed
  <2> QED
    BY <1>1, <1>2, <1>4, <2>1, SameRooms
<1>5. CASE Begin(c, promoting, closed, None, RoomStateMsg(h.promoted, rooms[current].playing),
                 rooms, current, views)
  <2> DEFINE msg == RoomStateMsg(h.promoted, rooms[current].playing)
  <2>1. Begin(c, promoting, closed, None, msg, rooms, current, views)
    BY <1>5
  <2>2. promoting.at \notin Inside /\ closed.at \notin Inside
    BY <1>1 DEF Inside
  <2> HIDE DEF msg, promoting, closed
  <2>3. PICK x : /\ conns' = [conns EXCEPT ![c] = x]
                 /\ Shaped(x)
                 /\ x = closed \/ (x.at = promoting.at /\ x.room = promoting.room)
    BY <1>1, <2>1, BeginShape
  <2> QED
    BY <1>2, <2>2, <2>3, SameRooms
<1> QED
  BY <1>3, <1>4, <1>5 DEF CastDone

LEMMA CastBreaksGood ==
  ASSUME WInv, NEW c \in Conn, CastBreaks(c)
  PROVE  Good
<1>1. CASE conns[c].at \in {"announcing", "sharing"}
  BY <1>1, FinishGood DEF CastBreaks, Inside
<1>2. CASE conns[c].at \notin {"announcing", "sharing"}
  <2> DEFINE closed == Handler("closed", 0)
  <2>1. conns' = [conns EXCEPT ![c] = closed] /\ rooms' = rooms /\ current' = current
    BY <1>2 DEF CastBreaks
  <2>2. Shaped(closed) /\ closed.at \notin Inside
    BY HandlerShaped DEF Stages, Resting, Inside
  <2> HIDE DEF closed
  <2> QED
    BY <2>1, <2>2, SameRooms
<1> QED
  BY <1>1, <1>2

(* The host shares its playback state, in the room of its handler.         *)
LEMMA ShareGood ==
  ASSUME WInv, NEW c \in Conn, NEW playing \in BOOLEAN, Share(c, playing)
  PROVE  Good
<1> DEFINE k == conns[c].room
           rs == [rooms EXCEPT ![k].playing = playing]
           h == Handler("sharing", k)
           rest == Handler("listening", k)
           skip == UserOf[c]
           msg == StateMsg(playing)
           vs == [views EXCEPT ![c].playing = playing]
           r == [rooms[k] EXCEPT !.playing = playing]
<1>1. /\ rooms' = rs /\ current' = current
      /\ Begin(c, h, rest, skip, msg, rs, current, vs)
      /\ conns[c].at \in Inside
  BY DEF Share, Inside
<1>2. /\ rooms \in Seq(Room) /\ \A j \in DOMAIN rooms : Agrees(rooms[j])
      /\ DOMAIN rooms = 1 .. Len(rooms) /\ Len(rooms) \in Nat
      /\ current \in 0 .. Len(rooms)
      /\ \A j \in DOMAIN rooms : rooms[j] \in Room
      /\ k \in DOMAIN rooms
  BY <1>1, LenProperties, ElementOfSeq DEF WInv, RoomsOK, HandlersOK
<1>3. r \in Room /\ r.host = rooms[k].host /\ r.sock = rooms[k].sock /\ r.entries = rooms[k].entries
  BY <1>2 DEF Room
<1>4. rs = [rooms EXCEPT ![k] = r]
  OBVIOUS
<1>5. /\ Shaped(h) /\ h.room = k
      /\ Shaped(rest) /\ rest.room = k
  BY HandlerShaped DEF Stages, Resting, Inside
<1> HIDE DEF rs, h, rest, skip, msg, vs, r
<1>6. /\ rs \in Seq(Room)
      /\ Len(rs) = Len(rooms)
      /\ DOMAIN rs = DOMAIN rooms
      /\ \A j \in DOMAIN rooms : rs[j] = IF j = k THEN r ELSE rooms[j]
  BY <1>2, <1>3, <1>4
<1>7. \A j \in DOMAIN rooms : /\ rs[j].sock = rooms[j].sock
                              /\ Agrees(rs[j])
                              /\ Kept(rooms[j], rs[j])
  BY <1>2, <1>3, <1>6 DEF Agrees, Kept, Members
<1>8. RoomsOK' /\ current' \in 0 .. Len(rooms')
  BY <1>1, <1>2, <1>6, <1>7 DEF RoomsOK
<1>9. PICK x : /\ conns' = [conns EXCEPT ![c] = x]
               /\ Shaped(x)
               /\ x = rest \/ (x.at = h.at /\ x.room = h.room)
  BY <1>1, <1>5, BeginShape
<1>10. x.room = k
  BY <1>5, <1>9
<1>11. WInv'
  BY <1>1, <1>2, <1>6, <1>8, <1>9, <1>10, HandlerStep
<1>12. Present => Present'
  <2> SUFFICES ASSUME Present PROVE Present'
    OBVIOUS
  <2>1. current # 0 /\ k = current /\ rooms[current].sock[UserOf[c]] = c
    BY <1>1 DEF Present, Registered
  <2>2. rooms'[current].sock = rooms[current].sock
    BY <1>1, <1>2, <1>7, <2>1
  <2> QED
    BY <1>1, <1>9, <1>10, <2>1, <2>2, PresentStep
<1> QED
  BY <1>1, <1>7, <1>11, <1>12 DEF Good

LEMMA RestartGood ==
  ASSUME WInv, Restart
  PROVE  Good
<1> DEFINE closed == Handler("closed", 0)
<1>1. Shaped(closed) /\ closed.at \notin Inside
  BY HandlerShaped DEF Stages, Resting, Inside
<1>2. /\ rooms' = rooms /\ current' = 0
      /\ conns' = [c \in Conn |-> IF conns[c].at = "offline" THEN conns[c] ELSE closed]
  BY DEF Restart
<1> HIDE DEF closed
<1>3. \A c \in Conn : Shaped(conns'[c]) /\ conns'[c].at \notin Inside
  BY <1>1, <1>2 DEF WInv, HandlersOK, Inside
<1>4. Len(rooms) \in Nat
  BY LenProperties DEF WInv, RoomsOK
<1>5. WInv'
  BY <1>2, <1>3, <1>4 DEF WInv, HandlersOK, RoomsOK
<1>6. Present'
  BY <1>3 DEF Present, Registered
<1> QED
  BY <1>2, <1>5, <1>6 DEF Good, Kept

-----------------------------------------------------------------------------
LEMMA InitWInv == Init => WInv /\ Present
<1> SUFFICES ASSUME Init PROVE WInv /\ Present
  OBVIOUS
<1> DEFINE r == NewRoom(Owner)
<1>1. r \in Room /\ Agrees(r)
  BY NewRoomAgrees, RoomAssumption
<1> HIDE DEF r
<1>2. rooms = <<r>> /\ current = 1
  BY DEF Init, r
<1>3. RoomsOK /\ current \in 0 .. Len(rooms)
  BY <1>1, <1>2 DEF RoomsOK
<1>4. \A c \in Conn : Shaped(conns[c]) /\ conns[c].at \notin Inside
  BY HandlerShaped DEF Init, Stages, Resting, Inside
<1>5. DOMAIN conns = Conn
  BY DEF Init
<1> QED
  BY <1>3, <1>4, <1>5 DEF WInv, HandlersOK, Present, Registered

LEMMA NextGood ==
  ASSUME WInv, [Next]_vars
  PROVE  Good
<1>1. ASSUME NEW c \in Conn, Join(c) PROVE Good
  BY <1>1, JoinGood
<1>2. ASSUME NEW c \in Conn, Greeted(c) PROVE Good
  BY <1>2, GreetedGood
<1>3. ASSUME NEW c \in Conn, GreetingFails(c) PROVE Good
  BY <1>3, FinishGood DEF GreetingFails, Inside
<1>4. ASSUME NEW c \in Conn, SendNext(c) PROVE Good
  BY <1>4, SendGood
<1>5. ASSUME NEW c \in Conn, CastDone(c) PROVE Good
  BY <1>5, CastDoneGood
<1>6. ASSUME NEW c \in Conn, CastBreaks(c) PROVE Good
  BY <1>6, CastBreaksGood
<1>7. ASSUME NEW c \in Conn, NEW playing \in BOOLEAN, Share(c, playing) PROVE Good
  BY <1>7, ShareGood
<1>8. ASSUME NEW c \in Conn, Leave(c) PROVE Good
  BY <1>8, FinishGood DEF Leave, Inside
<1>9. ASSUME UNCHANGED <<rooms, current, conns>> PROVE Good
  BY <1>9 DEF Good, WInv, RoomsOK, HandlersOK, Present, Registered, Kept
<1>10. ASSUME NEW c \in Conn, SyncRequest(c) PROVE Good
  BY <1>9, <1>10 DEF SyncRequest
<1>11. ASSUME Restart PROVE Good
  BY <1>11, RestartGood
<1>12. ASSUME UNCHANGED vars PROVE Good
  BY <1>9, <1>12 DEF vars
<1> QED
  BY <1>1, <1>2, <1>3, <1>4, <1>5, <1>6, <1>7, <1>8, <1>10, <1>11, <1>12 DEF Next

LEMMA Inductive == Spec => []WInv
<1>1. WInv /\ [Next]_vars => WInv'
  BY NextGood DEF Good
<1> QED
  BY <1>1, InitWInv, PTL DEF Spec

(* The rooms and the handlers keep their shape.                            *)
THEOREM TypeCorrect == Spec => []TypeOK
<1>1. WInv => TypeOK
  <2> SUFFICES ASSUME WInv PROVE TypeOK
    OBVIOUS
  <2>1. \A k \in DOMAIN rooms : rooms[k] \in Room
    BY LenProperties, ElementOfSeq DEF WInv, RoomsOK
  <2>2. ASSUME NEW k \in DOMAIN rooms
        PROVE  /\ rooms[k].host \in User
               /\ \A i \in DOMAIN rooms[k].entries : rooms[k].entries[i] \in User \cup {None}
               /\ rooms[k].sock \in [User -> Conn \cup {None}]
               /\ rooms[k].playing \in BOOLEAN
    <3>1. rooms[k] \in Room
      BY <2>1
    <3>2. rooms[k].entries \in Seq(User \cup {None})
      BY <3>1 DEF Room
    <3>3. \A i \in DOMAIN rooms[k].entries : rooms[k].entries[i] \in User \cup {None}
      BY <3>2, LenProperties
    <3> QED
      BY <3>1, <3>3 DEF Room
  <2> QED
    BY <2>2 DEF WInv, HandlersOK, Shaped, Stages, TypeOK
<1> QED
  BY <1>1, Inductive, PTL

(* A room that has its host has one until it is empty.                     *)
THEOREM HostStays == Spec => HostPresent
<1>1. WInv /\ [Next]_vars =>
        [\A k \in DOMAIN rooms :
           rooms[k].host \in Members(rooms[k]) /\ Members(rooms'[k]) # {}
             => rooms'[k].host \in Members(rooms'[k])]_vars
  BY NextGood DEF Good, Kept
<1> QED
  BY <1>1, Inductive, PTL DEF Spec, HostPresent

(* If nobody has two connections at a time, every handler past its join    *)
(* works on the room that is registered, and is its user's socket there.   *)
THEOREM HandlersRegistered ==
  ASSUME OneTab
  PROVE  Spec => []Registered
<1>1. WInv /\ Present /\ [Next]_vars => Present'
  BY NextGood DEF Good
<1>2. Present => Registered
  BY DEF Present
<1> QED
  BY <1>1, <1>2, InitWInv, Inductive, PTL DEF Spec

-----------------------------------------------------------------------------
(* What is said of host and playback reaches everyone, whoever joins,      *)
(* leaves or breaks meanwhile: who does not know yet how the room plays    *)
(* comes later in the broadcast of the host, whose handler ends if it      *)
(* breaks; and the promotion that follows tells both to all, unless the    *)
(* room changed before they had the news.                                  *)
Casting == {"announcing", "sharing", "parting", "promoting"}

View == [host : User \cup {None}, playing : BOOLEAN]

Said == {Note} \cup {StateMsg(p) : p \in BOOLEAN}
               \cup {RoomStateMsg(u, p) : u \in User, p \in BOOLEAN}

Cast(r, k, msg) == [room : {k}, size : {Cardinality(Members(r))}, i : Nat,
                    skip : User \cup {None}, msg : {msg}]

(* The broadcast of h has still to reach u.                                *)
Waits(h, r, u) == \E j \in Targets(r, h.cast.i, h.cast.skip) : r.entries[j] = u

(* A handler and its broadcast, among rooms with the numbers in ks.        *)
Handled(h, ks) ==
  /\ h.promoted \in User \cup {None}
  /\ h.cast # None =>
       /\ h.at \in Casting
       /\ h.cast = [room |-> h.cast.room, size |-> h.cast.size, i |-> h.cast.i,
                    skip |-> h.cast.skip, msg |-> h.cast.msg]
       /\ h.cast.room \in ks /\ h.cast.i \in Nat /\ h.cast.skip \in User \cup {None}
       /\ h.cast.msg \in Said
       /\ h.at \in {"announcing", "parting"} => h.cast.msg = Note

(* A handler of u that shares is the host's, and says how room k plays.    *)
Shares(h, u, r, k) ==
  h.at = "sharing" => /\ h.cast.i \in Nat
                      /\ h.cast.room = k
                      /\ h.cast.msg = StateMsg(r.playing)
                      /\ r.host = u

(* Inductive, with WInv and Present.                                       *)
CInv ==
  /\ views \in [Conn -> View]
  /\ \A c \in Conn : /\ Handled(conns[c], DOMAIN rooms)
                     /\ Shares(conns[c], UserOf[c], rooms[current], current)

(* A view of room r that is right.                                         *)
Knows(v, r) == v.host = r.host /\ v.playing = r.playing

(* All know the host, and how the room plays or are about to be told.      *)
Calm ==
  \A d \in Conn : conns[d].at \in Inside =>
    /\ views[d].host = rooms[current].host
    /\ \/ views[d].playing = rooms[current].playing
       \/ \E e \in Conn : conns[e].at = "sharing" /\ Waits(conns[e], rooms[current], UserOf[d])

(* The one handler with news of the host is about to tell all, or has told *)
(* those its broadcast has passed.                                         *)
Sound(a) ==
  LET h == conns[a]  r == rooms[current] IN
  /\ current # 0
  /\ \A c \in Conn : conns[c].at # "sharing" /\ (Heralds(conns[c]) => c = a)
  /\ h.at = "parting" => h.promoted = r.host /\ h.cast \in Cast(r, current, Note)
  /\ h.at = "promoting" =>
       /\ h.cast \in Cast(r, current, RoomStateMsg(r.host, r.playing))
       /\ \A d \in Conn : conns[d].at \in Inside =>
            Knows(views[d], r) \/ Waits(h, r, UserOf[d])

(* Inductive, with WInv, Present and CInv.                                 *)
VInv == steady => (NoHerald => Calm) /\ \A a \in Conn : Heralds(conns[a]) => Sound(a)

LEMMA ToldNote == \A v : Told(v, Note) = v
BY DEF Told, Note

LEMMA ToldState ==
  ASSUME NEW v \in View, NEW p \in BOOLEAN
  PROVE  /\ Told(v, StateMsg(p)) \in View
         /\ Told(v, StateMsg(p)).host = v.host
         /\ Told(v, StateMsg(p)).playing = p
BY DEF Told, StateMsg, View

LEMMA ToldRoom ==
  ASSUME NEW v, NEW u \in User, NEW p \in BOOLEAN
  PROVE  /\ Told(v, RoomStateMsg(u, p)) \in View
         /\ Told(v, RoomStateMsg(u, p)).host = u
         /\ Told(v, RoomStateMsg(u, p)).playing = p
BY DEF Told, RoomStateMsg, View

LEMMA ToldSaid ==
  ASSUME NEW v \in View, NEW msg \in Said
  PROVE  Told(v, msg) \in View
<1>1. CASE msg = Note
  BY <1>1, ToldNote
<1>2. ASSUME NEW p \in BOOLEAN, msg = StateMsg(p) PROVE Told(v, msg) \in View
  BY <1>2, ToldState
<1>3. ASSUME NEW u \in User, NEW p \in BOOLEAN, msg = RoomStateMsg(u, p) PROVE Told(v, msg) \in View
  BY <1>3, ToldRoom
<1> QED
  BY <1>1, <1>2, <1>3 DEF Said

(* Who is in the room and not left out is a target of a broadcast.         *)
LEMMA Targeted ==
  ASSUME NEW r \in Room, Agrees(r), NEW u \in User, r.sock[u] # None, NEW skip, u # skip
  PROVE  \E j \in Targets(r, 0, skip) : r.entries[j] = u
<1>1. PICK j \in DOMAIN r.entries : r.entries[j] = u
  BY DEF Agrees
<1>2. r.entries \in Seq(User \cup {None})
  BY DEF Room
<1>3. DOMAIN r.entries = 1 .. Len(r.entries) /\ Len(r.entries) \in Nat
  BY <1>2, LenProperties
<1> QED
  BY <1>1, <1>3, RoomAssumption DEF Targets

(* Who waits for a broadcast still does when somebody else leaves, or when *)
(* anybody joins.                                                          *)
LEMMA WaitsOn ==
  ASSUME NEW r \in Room, NEW h, h.cast.i \in Nat, NEW u, NEW v \in User, v # u, Waits(h, r, v)
  PROVE  Waits(h, WithoutMember(r, u), v)
<1> DEFINE s == WithoutMember(r, u)
           es == [j \in DOMAIN r.entries |-> IF r.entries[j] = u THEN None ELSE r.entries[j]]
<1>1. /\ r.entries \in Seq(User \cup {None})
      /\ DOMAIN r.entries = 1 .. Len(r.entries) /\ Len(r.entries) \in Nat
      /\ \A j \in DOMAIN r.entries : r.entries[j] \in User \cup {None}
  BY LenProperties DEF Room
<1>2. es \in Seq(User \cup {None}) /\ Len(es) = Len(r.entries)
  BY <1>1
<1>3. s.entries = es
  BY DEF WithoutMember, Room
<1>4. PICK j \in Targets(r, h.cast.i, h.cast.skip) : r.entries[j] = v
  BY DEF Waits
<1>5. \A i \in DOMAIN r.entries : es[i] = IF r.entries[i] = u THEN None ELSE r.entries[i]
  OBVIOUS
<1> HIDE DEF es, s
<1>6. Targets(r, h.cast.i, h.cast.skip) = {i \in h.cast.i + 1 .. Len(r.entries) :
                                             r.entries[i] \notin {None, h.cast.skip}}
  BY DEF Targets
<1>7. j \in DOMAIN r.entries
  BY <1>1, <1>6
<1>8. es[j] = v
  BY <1>4, <1>5, <1>7
<1>9. j \in Targets(s, h.cast.i, h.cast.skip)
  BY <1>2, <1>3, <1>4, <1>6, <1>8 DEF Targets
<1> QED
  BY <1>3, <1>8, <1>9 DEF Waits, s

LEMMA WaitsMore ==
  ASSUME NEW r \in Room, NEW h, h.cast.i \in Nat, NEW u \in User, NEW c, NEW v, Waits(h, r, v)
  PROVE  Waits(h, WithMember(r, u, c), v)
<1> DEFINE s == WithMember(r, u, c)
           es == IF u \in Members(r) THEN r.entries ELSE Append(r.entries, u)
<1>1. /\ r.entries \in Seq(User \cup {None})
      /\ Len(r.entries) \in Nat
  BY LenProperties DEF Room
<1>2. Len(es) \in Nat /\ Len(r.entries) <= Len(es) /\ \A j \in 1 .. Len(r.entries) : es[j] = r.entries[j]
  BY <1>1, AppendProperties
<1>3. s.entries = es
  BY DEF WithMember, Room
<1>4. PICK j \in Targets(r, h.cast.i, h.cast.skip) : r.entries[j] = v
  BY DEF Waits
<1> HIDE DEF es, s
<1>5. j \in h.cast.i + 1 .. Len(r.entries) /\ r.entries[j] \notin {None, h.cast.skip}
  BY <1>4 DEF Targets
<1>6. j \in 1 .. Len(r.entries) /\ j \in h.cast.i + 1 .. Len(es)
  BY <1>1, <1>2, <1>5
<1>7. j \in Targets(s, h.cast.i, h.cast.skip) /\ s.entries[j] = v
  BY <1>2, <1>3, <1>4, <1>5, <1>6 DEF Targets
<1> QED
  BY <1>7 DEF Waits, s

(* The handler of c goes on to x, clients got the message, and whoever     *)
(* was to get it has it or waits for it.                                   *)
Tells(c, x, h, r, k, vs, S, msg) ==
  /\ conns' = [conns EXCEPT ![c] = x]
  /\ Shaped(x) /\ x.at = h.at /\ x.promoted = h.promoted
  /\ x.cast \in Cast(r, k, msg)
  /\ views' \in [Conn -> View]
  /\ \A d \in Conn : views'[d] = vs[d] \/ views'[d] = Told(vs[d], msg)
  /\ \A d \in Conn, u \in User :
       r.sock[u] = d /\ (\E j \in S : r.entries[j] = u)
         => views'[d] = Told(vs[d], msg) \/ Waits(x, r, u)

(* A send tells one target, and leaves the others to be told.              *)
LEMMA SendTells ==
  ASSUME NEW c \in Conn, NEW h, Shaped(h), NEW k, NEW rs, rs[k] \in Room, Agrees(rs[k]),
         NEW vs \in [Conn -> View], NEW msg, \A v \in View : Told(v, msg) \in View,
         NEW cast \in Cast(rs[k], k, msg), Targets(rs[k], cast.i, cast.skip) # {},
         SendTo(c, h, k, rs, vs, cast, First(Targets(rs[k], cast.i, cast.skip)))
  PROVE  \E x : Tells(c, x, h, rs[k], k, vs, Targets(rs[k], cast.i, cast.skip), msg)
<1> DEFINE S == Targets(rs[k], cast.i, cast.skip)
           i == First(S)
           e == rs[k].sock[rs[k].entries[i]]
           next == [cast EXCEPT !.i = i]
           x == [h EXCEPT !.cast = next]
<1>1. /\ rs[k].entries \in Seq(User \cup {None})
      /\ Len(rs[k].entries) \in Nat
      /\ cast.i \in Nat
      /\ cast.msg = msg
  BY LenProperties DEF Room, Cast
<1>2. S \in SUBSET Nat /\ S # {} /\ \A j \in S : cast.i < j /\ j <= Len(rs[k].entries)
  BY <1>1 DEF Targets
<1>3. i \in S
  BY <1>2, FirstOf
<1>4. i \in Nat /\ \A j \in S : i <= j
  BY <1>2, <1>3, FirstOf
<1>5. conns' = [conns EXCEPT ![c] = x] /\ views' = [vs EXCEPT ![e] = Told(vs[e], msg)]
  BY <1>1 DEF SendTo
<1>6. /\ next \in Cast(rs[k], k, msg)
      /\ next.i = i
      /\ next.skip = cast.skip
  BY <1>4 DEF Cast
<1>7. /\ Shaped(x) /\ x.at = h.at /\ x.promoted = h.promoted
      /\ x.cast = next
  BY DEF Shaped
<1> HIDE DEF i, e, next, x
<1>8. /\ views' \in [Conn -> View]
      /\ \A d \in Conn : views'[d] = IF d = e THEN Told(vs[d], msg) ELSE vs[d]
  BY <1>5
<1>9. ASSUME NEW d \in Conn, NEW u \in User, rs[k].sock[u] = d,
             NEW j \in S, rs[k].entries[j] = u
      PROVE  views'[d] = Told(vs[d], msg) \/ Waits(x, rs[k], u)
  <2>1. CASE j = i
    BY <1>8, <1>9, <2>1 DEF e
  <2>2. CASE j # i
    <3>1. i < j /\ i \in Nat /\ j \in Nat
      BY <1>2, <1>4, <1>9, <2>2
    <3>2. j \in Targets(rs[k], x.cast.i, x.cast.skip)
      BY <1>1, <1>6, <1>7, <1>9, <3>1 DEF Targets
    <3> QED
      BY <1>9, <3>2 DEF Waits
  <2> QED
    BY <2>1, <2>2
<1> QED
  BY <1>5, <1>6, <1>7, <1>8, <1>9 DEF Tells

(* The handler of c goes on to "rest", or begins a broadcast that misses   *)
(* nobody but "skip".                                                      *)
Announces(c, x, h, rest, skip, msg, r, k, vs) ==
  /\ conns' = [conns EXCEPT ![c] = x]
  /\ \/ x = rest /\ (k = 0 \/ Targets(r, 0, skip) = {})
     \/ /\ x.at = h.at /\ x.promoted = h.promoted
        /\ k # 0
        /\ x.cast \in Cast(r, k, msg)
  /\ views' \in [Conn -> View]
  /\ \A d \in Conn : views'[d] = vs[d] \/ views'[d] = Told(vs[d], msg)
  /\ \A d \in Conn : k # 0 /\ r.sock[UserOf[d]] = d /\ UserOf[d] # skip =>
       /\ x.at = h.at /\ x.promoted = h.promoted
       /\ views'[d] = Told(vs[d], msg) \/ Waits(x, r, UserOf[d])

(* A broadcast begins: everyone in the room but "skip" is told or waits.   *)
LEMMA BeginTells ==
  ASSUME NEW c \in Conn, NEW h, Shaped(h), NEW rest, Shaped(rest), NEW skip \in User \cup {None},
         NEW msg, \A v \in View : Told(v, msg) \in View,
         NEW rs, NEW k, k # 0 => rs[k] \in Room /\ Agrees(rs[k]),
         NEW vs \in [Conn -> View], Begin(c, h, rest, skip, msg, rs, k, vs)
  PROVE  \E x : Announces(c, x, h, rest, skip, msg, rs[k], k, vs)
<1> DEFINE S == Targets(rs[k], 0, skip)
           cast == [room |-> k, size |-> Cardinality(Members(rs[k])), i |-> 0,
                    skip |-> skip, msg |-> msg]
<1>1. ASSUME NEW d \in Conn, k # 0, rs[k].sock[UserOf[d]] = d, UserOf[d] # skip
      PROVE  UserOf[d] \in User /\ \E j \in S : rs[k].entries[j] = UserOf[d]
  <2>1. UserOf[d] \in User /\ d # None
    BY <1>1, RoomAssumption
  <2> QED
    BY <1>1, <2>1, Targeted
<1>2. CASE k = 0 \/ S = {}
  <2>1. conns' = [conns EXCEPT ![c] = rest] /\ views' = vs
    BY <1>2 DEF Begin
  <2> QED
    BY <1>1, <1>2, <2>1 DEF Announces
<1>3. CASE ~(k = 0 \/ S = {})
  <2>1. cast \in Cast(rs[k], k, msg) /\ cast.i = 0 /\ cast.skip = skip
    BY DEF Cast
  <2>2. SendTo(c, h, k, rs, vs, cast, First(Targets(rs[k], cast.i, cast.skip)))
    BY <1>3, <2>1 DEF Begin
  <2>3. Targets(rs[k], cast.i, cast.skip) = S
    BY <2>1
  <2>0. rs[k] \in Room /\ Agrees(rs[k]) /\ Targets(rs[k], cast.i, cast.skip) # {}
    BY <1>3, <2>3
  <2> HIDE DEF cast, S
  <2>4. PICK x : Tells(c, x, h, rs[k], k, vs, Targets(rs[k], cast.i, cast.skip), msg)
    BY <2>1, <2>2, <2>0, SendTells
  <2>5. \A d \in Conn : k # 0 /\ rs[k].sock[UserOf[d]] = d /\ UserOf[d] # skip =>
          views'[d] = Told(vs[d], msg) \/ Waits(x, rs[k], UserOf[d])
    BY <1>1, <2>3, <2>4 DEF Tells
  <2> QED
    BY <1>3, <2>4, <2>5 DEF Tells, Announces
<1> QED
  BY <1>2, <1>3

-----------------------------------------------------------------------------
(* The room that is registered, and what is registered in it.              *)
LEMMA RoomThere ==
  ASSUME WInv, Present
  PROVE  /\ current # 0 => current \in DOMAIN rooms /\ rooms[current] \in Room /\ Agrees(rooms[current])
         /\ \A d \in Conn : conns[d].at \in Inside =>
              current # 0 /\ conns[d].room = current /\ rooms[current].sock[UserOf[d]] = d
<1>1. DOMAIN rooms = 1 .. Len(rooms) /\ Len(rooms) \in Nat
  BY LenProperties DEF WInv, RoomsOK
<1> QED
  BY <1>1, ElementOfSeq DEF WInv, RoomsOK, Present, Registered

(* What add_member and remove_member leave of a room.                      *)
LEMMA WithMemberKeeps ==
  ASSUME NEW r \in Room, NEW u, NEW c
  PROVE  WithMember(r, u, c).host = r.host /\ WithMember(r, u, c).playing = r.playing
BY DEF WithMember, Room

LEMMA RemovedKeeps ==
  ASSUME NEW r \in Room, NEW u
  PROVE  Removed(r, u).playing = r.playing
BY DEF Removed, WithoutMember, Room

(* The host's handler is the only one that shares.                         *)
LEMMA LoneSharer ==
  ASSUME WInv, Present, CInv, NEW c \in Conn, conns[c].at \in Inside,
         rooms[current].host = UserOf[c], NEW d \in Conn, conns[d].at = "sharing"
  PROVE  d = c
<1>1. rooms[current].host = UserOf[d] /\ conns[d].at \in Inside
  BY DEF CInv, Shares, Inside
<1> QED
  BY <1>1, RoomThere

(* A handler in no broadcast, or in one that says what is to be said.      *)
LEMMA RestHandled ==
  ASSUME NEW at, NEW k, NEW ks
  PROVE  Handled(Handler(at, k), ks)
BY DEF Handled, Handler

LEMMA CastHandled ==
  ASSUME NEW h, h.at \in Casting, h.promoted \in User \cup {None}, NEW ks, NEW k \in ks,
         NEW r, NEW msg \in Said, h.cast \in Cast(r, k, msg),
         h.at \in {"announcing", "parting"} => msg = Note
  PROVE  Handled(h, ks)
BY DEF Handled, Cast

(* The handler of c goes on to x; who shares still does so in its room.    *)
LEMMA CStep ==
  ASSUME CInv, DOMAIN conns = Conn, DOMAIN rooms \subseteq DOMAIN rooms',
         NEW c \in Conn, NEW x, conns' = [conns EXCEPT ![c] = x], views' \in [Conn -> View],
         Handled(x, DOMAIN rooms'), Shares(x, UserOf[c], rooms'[current'], current'),
         \A d \in Conn : d # c /\ conns[d].at = "sharing" =>
           /\ current' = current
           /\ rooms'[current'].host = rooms[current].host
           /\ rooms'[current'].playing = rooms[current].playing
  PROVE  CInv'
<1>1. conns'[c] = x /\ \A d \in Conn : d # c => conns'[d] = conns[d]
  OBVIOUS
<1>2. ASSUME NEW d \in Conn, d # c
      PROVE  /\ Handled(conns[d], DOMAIN rooms')
             /\ Shares(conns[d], UserOf[d], rooms'[current'], current')
  <2>1. Handled(conns[d], DOMAIN rooms) /\ Shares(conns[d], UserOf[d], rooms[current], current)
    BY DEF CInv
  <2>2. Handled(conns[d], DOMAIN rooms')
    BY <2>1 DEF Handled
  <2>3. Shares(conns[d], UserOf[d], rooms'[current'], current')
    BY <1>2, <2>1 DEF Shares
  <2> QED
    BY <2>2, <2>3
<1> QED
  BY <1>1, <1>2 DEF CInv

(* A handler that has no news goes on to say nothing new.                  *)
LEMMA QuietMove ==
  ASSUME VInv, DOMAIN conns = Conn, NEW c \in Conn, NEW x, conns' = [conns EXCEPT ![c] = x],
         ~Heralds(conns[c]), conns[c].at # "sharing", ~Heralds(x), x.at # "sharing",
         x.at \in Inside => conns[c].at \in Inside,
         UNCHANGED <<rooms, current, views, steady>>
  PROVE  VInv'
<1>1. conns'[c] = x /\ \A d \in Conn : d # c => conns'[d] = conns[d]
  OBVIOUS
<1>2. /\ \A d \in Conn : conns'[d].at \in Inside => conns[d].at \in Inside
      /\ \A d \in Conn : Heralds(conns'[d]) => d # c /\ Heralds(conns[d])
      /\ \A d \in Conn : conns'[d].at = "sharing" => d # c /\ conns[d].at = "sharing"
  BY <1>1
<1>3. ASSUME steady', NoHerald' PROVE Calm'
  <2>1. Calm
    BY <1>1, <1>3 DEF VInv, NoHerald
  <2> SUFFICES ASSUME NEW d \in Conn, conns'[d].at \in Inside
               PROVE  /\ views[d].host = rooms[current].host
                      /\ \/ views[d].playing = rooms[current].playing
                         \/ \E e \in Conn : conns'[e].at = "sharing" /\ Waits(conns'[e], rooms[current], UserOf[d])
    BY DEF Calm
  <2>2. /\ views[d].host = rooms[current].host
        /\ \/ views[d].playing = rooms[current].playing
           \/ \E e \in Conn : conns[e].at = "sharing" /\ Waits(conns[e], rooms[current], UserOf[d])
    BY <1>2, <2>1 DEF Calm
  <2>3. \A e \in Conn : conns[e].at = "sharing" => conns'[e] = conns[e]
    BY <1>1
  <2> QED
    BY <2>2, <2>3
<1>4. ASSUME steady', NEW a \in Conn, Heralds(conns'[a]) PROVE Sound(a)'
  <2>1. conns'[a] = conns[a] /\ Sound(a)
    BY <1>1, <1>2, <1>4 DEF VInv
  <2> QED
    BY <1>2, <2>1 DEF Sound
<1> QED
  BY <1>3, <1>4 DEF VInv

(* All are calm again; or one handler has the news.                        *)
LEMMA CalmThen ==
  ASSUME steady' => NoHerald' /\ Calm'
  PROVE  VInv'
BY DEF VInv, NoHerald

LEMMA HeraldThen ==
  ASSUME NEW a \in Conn, Heralds(conns'[a]), steady' => Sound(a)'
  PROVE  VInv'
<1>1. ASSUME steady' PROVE ~NoHerald' /\ \A c \in Conn : Heralds(conns'[c]) => Sound(c)'
  BY <1>1 DEF NoHerald, Sound
<1> QED
  BY <1>1 DEF VInv

-----------------------------------------------------------------------------
(* A new member is told what there is to know; the others know it, or wait *)
(* for the same broadcast as before.                                       *)
LEMMA JoinTells ==
  ASSUME OneTab, WInv, Present, CInv, VInv, NEW c \in Conn, Join(c)
  PROVE  CInv' /\ VInv'
<1> DEFINE u == UserOf[c]
           fresh == current = 0
           k == IF fresh THEN Len(rooms) + 1 ELSE current
           r == IF fresh THEN NewRoom(Owner) ELSE rooms[current]
           s == WithMember(r, u, c)
           x == Handler("greeting", k)
<1>1. /\ rooms' = IF fresh THEN Append(rooms, s) ELSE [rooms EXCEPT ![k] = s]
      /\ current' = k
      /\ conns' = [conns EXCEPT ![c] = x]
      /\ views' = [views EXCEPT ![c] = Told(views[c], RoomStateMsg(s.host, s.playing))]
      /\ steady' = (steady /\ NoHerald)
      /\ conns[c].at = "offline"
  BY DEF Join, Interjects
<1>2. /\ DOMAIN conns = Conn /\ rooms \in Seq(Room) /\ views \in [Conn -> View]
      /\ DOMAIN rooms = 1 .. Len(rooms) /\ Len(rooms) \in Nat /\ u \in User
  BY LenProperties, RoomAssumption DEF WInv, HandlersOK, RoomsOK, CInv
<1>3. r \in Room
  BY RoomThere, NewRoomAgrees, RoomAssumption
<1>4. s.host = r.host /\ s.playing = r.playing
  BY <1>3, WithMemberKeeps
<1>5. rooms'[current'] = s /\ DOMAIN rooms \subseteq DOMAIN rooms'
  <2> HIDE DEF s
  <2>1. CASE fresh
    BY <1>1, <1>2, <2>1
  <2>2. CASE ~fresh
    BY <1>1, <1>2, <2>2, RoomThere
  <2> QED
    BY <2>1, <2>2
<1>6. /\ views' \in [Conn -> View]
      /\ views'[c].host = s.host /\ views'[c].playing = s.playing
      /\ \A d \in Conn : d # c => views'[d] = views[d]
  <2>1. s.host \in User /\ s.playing \in BOOLEAN
    BY <1>3, <1>4 DEF Room
  <2> HIDE DEF s
  <2> QED
    BY <1>1, <1>2, <2>1, ToldRoom
<1>7. x.at = "greeting" /\ Handled(x, DOMAIN rooms')
  BY RestHandled DEF Handler
<1>8. ASSUME NEW d \in Conn, conns[d].at \in Inside PROVE current' = current /\ r = rooms[current]
  BY <1>1, <1>8 DEF Present
<1>9. \A d \in Conn : d # c => conns'[d] = conns[d]
  BY <1>1
<1>10. conns'[c] = x
  BY <1>1, <1>2
<1> HIDE DEF x, s, k, r, u
<1>11. CInv'
  <2>1. Shares(x, UserOf[c], rooms'[current'], current')
    BY <1>7 DEF Shares
  <2>2. \A d \in Conn : d # c /\ conns[d].at = "sharing" =>
          /\ current' = current
          /\ rooms'[current'].host = rooms[current].host
          /\ rooms'[current'].playing = rooms[current].playing
    BY <1>4, <1>5, <1>8 DEF Inside
  <2> QED
    BY <1>1, <1>2, <1>5, <1>6, <1>7, <2>1, <2>2, CStep
<1>12. ASSUME steady' PROVE NoHerald' /\ Calm'
  <2>1. NoHerald /\ Calm
    BY <1>1, <1>12 DEF VInv
  <2>2. NoHerald'
    BY <1>7, <1>9, <1>10, <2>1 DEF NoHerald, Heralds
  <2>3. ASSUME NEW d \in Conn, d # c, conns[d].at \in Inside
        PROVE  /\ views'[d].host = s.host
               /\ \/ views'[d].playing = s.playing
                  \/ \E e \in Conn : conns'[e].at = "sharing" /\ Waits(conns'[e], s, UserOf[d])
    <3>1. /\ views[d].host = r.host
          /\ \/ views[d].playing = r.playing
             \/ \E e \in Conn : conns[e].at = "sharing" /\ Waits(conns[e], r, UserOf[d])
      BY <1>8, <2>1, <2>3 DEF Calm
    <3>2. ASSUME NEW e \in Conn, conns[e].at = "sharing", Waits(conns[e], r, UserOf[d])
          PROVE  conns'[e].at = "sharing" /\ Waits(conns'[e], s, UserOf[d])
      <4>1. conns[e].cast.i \in Nat
        BY <3>2 DEF CInv, Shares
      <4>2. Waits(conns[e], s, UserOf[d])
        BY <1>2, <1>3, <3>2, <4>1, WaitsMore DEF s
      <4>3. e # c
        BY <1>1, <3>2
      <4> QED
        BY <1>9, <3>2, <4>2, <4>3
    <3> QED
      BY <1>4, <1>6, <2>3, <3>1, <3>2
  <2>4. Calm'
    BY <1>5, <1>6, <1>9, <2>3 DEF Calm
  <2> QED
    BY <2>2, <2>4
<1> QED
  BY <1>11, <1>12, CalmThen

LEMMA GreetedTells ==
  ASSUME WInv, Present, CInv, VInv, NEW c \in Conn, Greeted(c)
  PROVE  CInv' /\ VInv'
<1> DEFINE h == Handler("announcing", conns[c].room)
           rest == Handler("listening", conns[c].room)
           skip == UserOf[c]
<1>1. "announcing" \in Stages /\ "listening" \in Stages
  BY DEF Stages, Resting, Inside
<1>2. /\ Shaped(h) /\ h.at = "announcing" /\ h.promoted = None
      /\ Shaped(rest) /\ rest.at = "listening" /\ Handled(rest, DOMAIN rooms)
  BY <1>1, RestHandled, HandlerShaped DEF Handler
<1>3. /\ Begin(c, h, rest, skip, Note, rooms, current, views)
      /\ conns[c].at = "greeting"
      /\ rooms' = rooms /\ current' = current /\ steady' = steady
      /\ skip \in User \cup {None}
      /\ DOMAIN conns = Conn /\ views \in [Conn -> View]
      /\ current # 0 => current \in DOMAIN rooms /\ rooms[current] \in Room /\ Agrees(rooms[current])
  BY RoomThere, RoomAssumption DEF Greeted, CInv, WInv, HandlersOK
<1> HIDE DEF h, rest, skip
<1>4. PICK x : Announces(c, x, h, rest, skip, Note, rooms[current], current, views)
  <2>1. \A v \in View : Told(v, Note) \in View
    BY ToldNote
  <2> QED
    BY <1>2, <1>3, <2>1, BeginTells
<1>5. /\ conns' = [conns EXCEPT ![c] = x]
      /\ views' \in [Conn -> View] /\ \A d \in Conn : views'[d] = views[d]
  BY <1>4, ToldNote DEF Announces
<1>6. views' = views
  BY <1>3, <1>5
<1>7. x.at \in {"announcing", "listening"} /\ Handled(x, DOMAIN rooms)
  <2>1. CASE x = rest
    BY <1>2, <2>1
  <2>2. CASE x # rest
    <3>1. /\ x.at = "announcing" /\ x.promoted = None /\ current \in DOMAIN rooms
          /\ x.cast \in Cast(rooms[current], current, Note)
      BY <1>2, <1>3, <1>4, <2>2 DEF Announces
    <3>2. x.at \in Casting /\ Note \in Said
      BY <3>1 DEF Casting, Said
    <3> QED
      BY <3>1, <3>2, CastHandled
  <2> QED
    BY <2>1, <2>2
<1>8. CInv'
  <2>1. Shares(x, UserOf[c], rooms'[current'], current')
    BY <1>7 DEF Shares
  <2> QED
    BY <1>3, <1>5, <1>7, <2>1, CStep
<1>9. VInv'
  <2>1. ~Heralds(conns[c]) /\ ~Heralds(x) /\ x.at # "sharing" /\ conns[c].at \in Inside
    BY <1>3, <1>7 DEF Heralds, Inside
  <2> QED
    BY <1>3, <1>5, <1>6, <2>1, QuietMove
<1> QED
  BY <1>8, <1>9

(* A handler that leaves: nobody waits for it but those it has told of the *)
(* news, if it was the host; the others keep what they have.               *)
LEMMA FinishTells ==
  ASSUME WInv, Present, CInv, VInv, WInv', Present',
         NEW c \in Conn, conns[c].at \in Inside, Finish(c)
  PROVE  CInv' /\ VInv'
<1> DEFINE u == UserOf[c]
           q == rooms[current]
           r == Removed(q, u)
           cur == IF Members(r) = {} THEN 0 ELSE current
           host == IF r.host # q.host THEN r.host ELSE None
           h == [Handler("parting", 0) EXCEPT !.promoted = host]
           rest == Handler("closed", 0)
           vs == [views EXCEPT ![c] = Untold]
           rs == [rooms EXCEPT ![current] = r]
<1>1. /\ current \in DOMAIN rooms /\ current # 0
      /\ q \in Room /\ Agrees(q)
      /\ q.sock[u] = c
      /\ u \in User /\ c # None
      /\ DOMAIN conns = Conn /\ views \in [Conn -> View]
  BY RoomThere, RoomAssumption DEF CInv, WInv, HandlersOK
<1>2. current # 0 /\ u \in Members(rooms[current])
  BY <1>1 DEF Members
<1>3. rs[current] = r /\ \A k \in DOMAIN rooms : k # current => rs[k] = rooms[k]
  BY <1>1
<1>4. /\ rooms' = rs
      /\ current' = cur
      /\ steady' = (NoHerald /\ (steady \/ host # None \/ cur = 0))
      /\ Begin(c, h, rest, None, Note, rs, cur, vs)
  <2> HIDE DEF r
  <2> QED
    BY <1>2, <1>3 DEF Finish, r
<1>5. /\ r \in Room /\ Agrees(r)
      /\ r.sock = [q.sock EXCEPT ![u] = None]
      /\ r.playing = q.playing
  BY <1>1, RemovedKeeps, RemovedAgrees
<1>6. /\ Shaped(h) /\ h.at = "parting" /\ h.promoted = host
      /\ Shaped(rest) /\ rest.at = "closed" /\ Handled(rest, DOMAIN rooms)
  <2>1. /\ Shaped(Handler("parting", 0)) /\ Handler("parting", 0).at = "parting"
        /\ Shaped(rest) /\ rest.at = "closed"
    BY HandlerShaped DEF Stages, Resting
  <2>2. h.promoted = host
    BY DEF Handler
  <2> QED
    BY <2>1, <2>2, PromotedShaped, RestHandled
<1>7. r.host \in User /\ host \in User \cup {None} /\ (host = None => r.host = q.host)
  BY <1>5, RoomAssumption DEF Room
<1>8. /\ vs \in [Conn -> View]
      /\ \A d \in Conn : d # c => vs[d] = views[d]
  BY <1>1 DEF View, Untold
<1>9. q.host = u /\ cur # 0 => host # None
  <2> SUFFICES ASSUME q.host = u, Members(r) # {} PROVE r.host # u
    BY <1>1, <1>7, RoomAssumption
  <2>1. u \in Members(q) => r.host \in Members(r)
    BY <1>1, RemovedAgrees DEF Kept
  <2>2. r.sock[u] = None
    BY <1>1, <1>5 DEF Room
  <2> QED
    BY <1>2, <2>1, <2>2 DEF Members
<1>10. host # None => q.host = u
  BY <1>1 DEF Removed, WithoutMember, Room
<1>11. host = None => r.entries = WithoutMember(q, u).entries
  <2>1. r = WithoutMember(q, u) \/ (r.host # q.host /\ r.host # None)
    <3> DEFINE s == WithoutMember(q, u)
    <3>1. CASE ~(q.host = u /\ Members(s) # {})
      BY <3>1 DEF Removed
    <3>2. CASE q.host = u /\ Members(s) # {}
      <4>1. r.sock = s.sock
        BY <1>1, <1>5, WithoutMemberAgrees
      <4> HIDE DEF s, r
      <4>2. cur # 0
        BY <1>1, <3>2, <4>1 DEF Members
      <4>3. host # None
        BY <1>9, <3>2, <4>2
      <4> QED
        BY <1>7, <4>3, RoomAssumption
    <3> QED
      BY <3>1, <3>2
  <2> QED
    BY <2>1
<1> HIDE DEF h, rest, vs, r, rs
<1>12. PICK x : Announces(c, x, h, rest, None, Note, r, cur, vs)
  <2>1. \A v \in View : Told(v, Note) \in View
    BY ToldNote
  <2>2. cur # 0 => rs[cur] = r
    BY <1>3
  <2>3. cur # 0 => rs[cur] \in Room /\ Agrees(rs[cur])
    BY <1>5, <2>2
  <2>4. None \in User \cup {None}
    OBVIOUS
  <2>5. PICK x : Announces(c, x, h, rest, None, Note, rs[cur], cur, vs)
    <3> HIDE DEF cur
    <3> QED
      BY <1>4, <1>6, <1>8, <2>1, <2>3, <2>4, BeginTells
  <2>6. CASE cur # 0
    BY <2>2, <2>5, <2>6
  <2>7. CASE cur = 0
    <3>1. Announces(c, x, h, rest, None, Note, r, cur, vs)
      BY <2>5, <2>7 DEF Announces
    <3> QED
      BY <3>1
  <2> QED
    BY <2>6, <2>7
<1>13. /\ conns' = [conns EXCEPT ![c] = x]
       /\ views' \in [Conn -> View] /\ \A d \in Conn : views'[d] = vs[d]
  BY <1>12, ToldNote DEF Announces
<1>14. /\ conns'[c] = x
       /\ \A d \in Conn : d # c => conns'[d] = conns[d] /\ views'[d] = views[d]
  BY <1>1, <1>8, <1>13
<1>15. cur # 0 => cur = current /\ current' = current /\ rooms'[current'] = r
  BY <1>3, <1>4
<1>16. \/ x = rest /\ (cur = 0 \/ Targets(r, 0, None) = {})
       \/ x.at = "parting" /\ x.promoted = host /\ cur # 0 /\ x.cast \in Cast(r, cur, Note)
  BY <1>6, <1>12 DEF Announces
<1>17. x.at \in {"parting", "closed"} /\ Handled(x, DOMAIN rooms)
  <2>1. CASE x = rest
    BY <1>6, <2>1
  <2>2. CASE x # rest
    <3>1. x.at \in Casting /\ Note \in Said /\ cur \in DOMAIN rooms
      BY <1>1, <1>16, <2>2 DEF Casting, Said
    <3> QED
      BY <1>7, <1>16, <2>2, <3>1, CastHandled
  <2> QED
    BY <2>1, <2>2
<1>18. ASSUME NEW d \in Conn, d # c, conns[d].at \in Inside
       PROVE  cur # 0 /\ r.sock[UserOf[d]] = d /\ UserOf[d] \in User /\ UserOf[d] # u
  <2>1. conns'[d].at \in Inside
    BY <1>14, <1>18
  <2>2. current' # 0 /\ rooms'[current'].sock[UserOf[d]] = d
    BY <1>18, <2>1 DEF Present, Registered
  <2>3. q.sock[UserOf[d]] = d
    BY <1>18, RoomThere
  <2> QED
    BY <1>1, <1>4, <1>15, <1>18, <2>2, <2>3, RoomAssumption
<1>19. ASSUME NEW d \in Conn, d # c, conns[d].at = "sharing" PROVE host = None
  <2>1. q.host = UserOf[d] /\ conns[d].at \in Inside
    BY <1>19 DEF CInv, Shares, Inside
  <2> QED
    BY <1>10, <1>18, <1>19, <2>1
<1> HIDE DEF cur, host, q, u
<1>20. CInv'
  <2>1. Shares(x, UserOf[c], rooms'[current'], current')
    BY <1>17 DEF Shares
  <2>2. ASSUME NEW d \in Conn, d # c, conns[d].at = "sharing"
        PROVE  /\ current' = current
               /\ rooms'[current'].host = rooms[current].host
               /\ rooms'[current'].playing = rooms[current].playing
    <3>1. cur # 0 /\ host = None
      BY <1>18, <1>19, <2>2 DEF Inside
    <3> QED
      BY <1>5, <1>7, <1>15, <3>1 DEF q
  <2>3. DOMAIN rooms' = DOMAIN rooms
    BY <1>4 DEF rs
  <2> QED
    BY <1>1, <1>13, <1>17, <2>1, <2>2, <2>3, CStep
<1>21. CASE Heralds(x)
  <2>1. /\ x.at = "parting" /\ x.promoted = host /\ host # None
        /\ cur # 0 /\ x.cast \in Cast(r, cur, Note)
    BY <1>6, <1>16, <1>21 DEF Heralds
  <2>2. ASSUME steady' PROVE Sound(c)'
    <3>1. NoHerald
      BY <1>4, <2>2
    <3>2. \A d \in Conn : conns'[d].at # "sharing" /\ (Heralds(conns'[d]) => d = c)
      BY <1>14, <1>19, <2>1, <3>1 DEF NoHerald
    <3>3. host = r.host
      BY <2>1 DEF host
    <3> QED
      BY <1>14, <1>15, <2>1, <3>2, <3>3 DEF Sound
  <2> QED
    BY <1>14, <1>20, <1>21, <2>2, HeraldThen
<1>22. CASE ~Heralds(x)
  <2> SUFFICES ASSUME steady' PROVE NoHerald' /\ Calm'
    BY <1>20, CalmThen
  <2>1. NoHerald'
    BY <1>4, <1>14, <1>22 DEF NoHerald
  <2>2. CASE ~\E d \in Conn : d # c /\ conns[d].at \in Inside
    <3>1. \A d \in Conn : conns'[d].at \notin Inside
      BY <1>14, <1>17, <2>2 DEF Inside
    <3> QED
      BY <2>1, <3>1 DEF Calm
  <2>3. ASSUME NEW e \in Conn, e # c, conns[e].at \in Inside PROVE Calm'
    <3>1. cur # 0
      BY <1>18, <2>3
    <3>2. x # rest
      <4>1. \E j \in Targets(r, 0, None) : r.entries[j] = UserOf[e]
        <5>1. UserOf[e] \in User /\ UserOf[e] # None /\ r.sock[UserOf[e]] # None
          BY <1>18, <2>3, RoomAssumption
        <5> QED
          BY <1>5, <5>1, Targeted
      <4>2. x = h \/ x.at = h.at
        BY <1>12, <1>18, <2>3, <3>1, RoomAssumption DEF Announces
      <4> QED
        BY <1>6, <4>2
    <3>3. host = None
      BY <1>16, <1>22, <3>2 DEF Heralds
    <3>4. steady /\ NoHerald /\ q.host # u
      BY <1>4, <1>9, <3>1, <3>3
    <3>5. Calm
      BY <3>4 DEF VInv
    <3>6. conns[c].at # "sharing"
      BY <3>4 DEF CInv, Shares, q, u
    <3>7. ASSUME NEW d \in Conn, d # c, conns[d].at \in Inside
          PROVE  /\ views[d].host = r.host
                 /\ \/ views[d].playing = r.playing
                    \/ \E f \in Conn : conns'[f].at = "sharing" /\ Waits(conns'[f], r, UserOf[d])
      <4>1. /\ views[d].host = q.host
            /\ \/ views[d].playing = q.playing
               \/ \E f \in Conn : conns[f].at = "sharing" /\ Waits(conns[f], q, UserOf[d])
        BY <3>5, <3>7 DEF Calm, q
      <4>2. ASSUME NEW f \in Conn, conns[f].at = "sharing", Waits(conns[f], q, UserOf[d])
            PROVE  conns'[f].at = "sharing" /\ Waits(conns'[f], r, UserOf[d])
        <5>1. conns[f].cast.i \in Nat
          BY <4>2 DEF CInv, Shares
        <5>2. Waits(conns[f], WithoutMember(q, u), UserOf[d])
          BY <1>1, <1>18, <3>7, <4>2, <5>1, WaitsOn
        <5>3. Waits(conns[f], r, UserOf[d])
          BY <1>11, <3>3, <5>2 DEF Waits, Targets
        <5> QED
          BY <1>14, <3>6, <4>2, <5>3
      <4> QED
        BY <1>5, <1>7, <3>3, <4>1, <4>2
    <3> QED
      BY <1>14, <1>15, <1>17, <3>1, <3>7 DEF Calm, Inside
  <2> QED
    BY <2>1, <2>2, <2>3
<1> QED
  BY <1>20, <1>21, <1>22

(* The next send: one more knows what there was to know.                   *)
LEMMA SendMoreTells ==
  ASSUME WInv, Present, CInv, VInv, NEW c \in Conn, SendNext(c)
  PROVE  CInv' /\ VInv'
<1> DEFINE h == conns[c]
           cast == h.cast
           k == cast.room
           r == rooms[k]
           msg == cast.msg
           S == Targets(r, cast.i, cast.skip)
<1>1. /\ h.at \in Casting /\ h.promoted \in User \cup {None}
      /\ k \in DOMAIN rooms /\ msg \in Said
      /\ h.at \in {"announcing", "parting"} => msg = Note
      /\ cast = [room |-> k, size |-> cast.size, i |-> cast.i, skip |-> cast.skip, msg |-> msg]
      /\ cast.i \in Nat /\ cast.skip \in User \cup {None}
      /\ cast.size = Cardinality(Members(r))
      /\ Shaped(h)
  BY DEF SendNext, CInv, Handled, Changed, WInv, HandlersOK
<1>2. cast \in Cast(r, k, msg)
  BY <1>1 DEF Cast
<1>3. /\ S # {} /\ SendTo(c, h, k, rooms, views, cast, First(S))
      /\ rooms' = rooms /\ current' = current /\ steady' = steady
  BY DEF SendNext, Left
<1>4. /\ r \in Room /\ Agrees(r)
      /\ DOMAIN conns = Conn
      /\ views \in [Conn -> View]
      /\ \A v \in View : Told(v, msg) \in View
  <2>1. DOMAIN rooms = 1 .. Len(rooms) /\ Len(rooms) \in Nat
    BY LenProperties DEF WInv, RoomsOK
  <2> QED
    BY <1>1, <2>1, ElementOfSeq, ToldSaid DEF WInv, RoomsOK, HandlersOK, CInv
<1> HIDE DEF h, cast, k, msg, r
<1>5. PICK x : Tells(c, x, h, r, k, views, S, msg)
  <2>1. rooms[k] = r
    BY DEF r
  <2> QED
    BY <1>1, <1>2, <1>3, <1>4, <2>1, SendTells
<1>6. /\ conns' = [conns EXCEPT ![c] = x]
      /\ x.at = h.at /\ x.promoted = h.promoted
      /\ x.cast \in Cast(r, k, msg)
      /\ views' \in [Conn -> View]
      /\ \A d \in Conn : views'[d] = views[d] \/ views'[d] = Told(views[d], msg)
  BY <1>5 DEF Tells
<1>7. conns'[c] = x /\ \A d \in Conn : d # c => conns'[d] = conns[d]
  BY <1>4, <1>6
<1>8. /\ \A d \in Conn : conns'[d].at = conns[d].at
      /\ \A d \in Conn : Heralds(conns'[d]) <=> Heralds(conns[d])
  BY <1>6, <1>7 DEF Heralds, h
<1>9. x.cast.msg = msg /\ x.cast.room = k /\ x.cast.i \in Nat
  BY <1>6 DEF Cast
<1>10. CInv'
  <2>1. Handled(x, DOMAIN rooms)
    BY <1>1, <1>6, CastHandled
  <2>2. Shares(h, UserOf[c], rooms[current], current)
    BY DEF CInv, h
  <2>3. Shares(x, UserOf[c], rooms[current], current)
    BY <1>6, <1>9, <2>2 DEF Shares, msg, k, cast
  <2> QED
    BY <1>3, <1>4, <1>6, <2>1, <2>3, CStep
<1>11. ASSUME NEW d \in Conn, conns[d].at \in Inside, k = current, Waits(h, r, UserOf[d])
       PROVE  views'[d] = Told(views[d], msg) \/ Waits(x, r, UserOf[d])
  <2>1. r.sock[UserOf[d]] = d /\ UserOf[d] \in User
    BY <1>11, RoomThere, RoomAssumption DEF r
  <2> QED
    BY <1>5, <1>11, <2>1 DEF Tells, Waits, cast
<1>12. CASE h.at # "sharing" /\ ~Heralds(h)
  <2>1. msg = Note
    BY <1>1, <1>12 DEF Casting, Heralds
  <2>2. views' = views
    BY <1>4, <1>6, <2>1, ToldNote
  <2>3. ~Heralds(x) /\ x.at # "sharing" /\ (x.at \in Inside => conns[c].at \in Inside)
    BY <1>6, <1>7, <1>8, <1>12 DEF h
  <2>4. ~Heralds(conns[c]) /\ conns[c].at # "sharing"
    BY <1>12 DEF h
  <2>5. VInv'
    BY <1>3, <1>4, <1>6, <2>2, <2>3, <2>4, QuietMove
  <2> QED
    BY <1>10, <2>5
<1>13. CASE h.at = "sharing"
  <2>1. k = current /\ msg = StateMsg(rooms[current].playing) /\ rooms[current].host = UserOf[c]
    BY <1>13 DEF CInv, Shares, h, k, msg, cast
  <2> SUFFICES ASSUME steady' PROVE NoHerald' /\ Calm'
    BY <1>10, CalmThen
  <2>2. NoHerald
    BY <1>3, <1>13 DEF VInv, Sound, NoHerald, h
  <2>3. Calm /\ NoHerald'
    BY <1>3, <1>8, <2>2 DEF VInv, NoHerald
  <2>4. ASSUME NEW d \in Conn, conns[d].at \in Inside
        PROVE  /\ views'[d].host = r.host
               /\ \/ views'[d].playing = r.playing
                  \/ conns'[c].at = "sharing" /\ Waits(conns'[c], r, UserOf[d])
    <3>1. /\ views[d].host = r.host
          /\ \/ views[d].playing = r.playing
             \/ \E e \in Conn : conns[e].at = "sharing" /\ Waits(conns[e], r, UserOf[d])
      BY <2>1, <2>3, <2>4 DEF Calm, r
    <3>2. views[d].playing = r.playing \/ Waits(h, r, UserOf[d])
      BY <1>13, <2>1, <3>1, LoneSharer DEF Inside, h
    <3>3. /\ Told(views[d], msg).host = r.host
          /\ Told(views[d], msg).playing = r.playing
      BY <1>4, <2>1, <3>1, ToldState DEF r, Room
    <3> QED
      BY <1>6, <1>7, <1>11, <1>13, <2>1, <2>4, <3>1, <3>2, <3>3
  <2> QED
    BY <1>3, <1>8, <2>1, <2>3, <2>4 DEF Calm, r
<1>14. CASE Heralds(h)
  <2> SUFFICES ASSUME steady' PROVE Sound(c)'
    BY <1>7, <1>8, <1>10, <1>14, HeraldThen DEF h
  <2>1. Sound(c)
    BY <1>3, <1>14 DEF VInv, h
  <2>2. /\ current # 0
        /\ \A d \in Conn : conns'[d].at # "sharing" /\ (Heralds(conns'[d]) => d = c)
    BY <1>8, <2>1 DEF Sound
  <2>3. ASSUME x.at = "parting"
        PROVE  x.promoted = rooms[current].host /\ x.cast \in Cast(rooms[current], current, Note)
    <3>1. h.promoted = rooms[current].host /\ cast \in Cast(rooms[current], current, Note)
      BY <1>6, <2>1, <2>3 DEF Sound, h, cast
    <3>2. k = current /\ msg = Note
      BY <3>1 DEF Cast, k, msg
    <3> QED
      BY <1>6, <3>1, <3>2 DEF r
  <2>4. ASSUME x.at = "promoting"
        PROVE  /\ x.cast \in Cast(rooms[current], current,
                                  RoomStateMsg(rooms[current].host, rooms[current].playing))
               /\ \A d \in Conn : conns[d].at \in Inside =>
                    Knows(views'[d], rooms[current]) \/ Waits(x, rooms[current], UserOf[d])
    <3>1. /\ cast \in Cast(rooms[current], current,
                           RoomStateMsg(rooms[current].host, rooms[current].playing))
          /\ \A d \in Conn : conns[d].at \in Inside =>
               Knows(views[d], rooms[current]) \/ Waits(h, rooms[current], UserOf[d])
      BY <1>6, <2>1, <2>4 DEF Sound, h, cast
    <3>2. k = current /\ msg = RoomStateMsg(rooms[current].host, rooms[current].playing)
      BY <3>1 DEF Cast, k, msg
    <3>3. r = rooms[current] /\ r.host \in User /\ r.playing \in BOOLEAN
      BY <1>4, <3>2 DEF r, Room
    <3>4. ASSUME NEW d \in Conn, conns[d].at \in Inside
          PROVE  Knows(views'[d], r) \/ Waits(x, r, UserOf[d])
      <4>1. Knows(Told(views[d], msg), r)
        BY <3>2, <3>3, ToldRoom DEF Knows
      <4> QED
        BY <1>6, <1>11, <3>1, <3>2, <3>3, <3>4, <4>1
    <3> QED
      BY <1>6, <3>2, <3>3, <3>4
  <2> QED
    BY <1>3, <1>7, <1>8, <2>2, <2>3, <2>4 DEF Sound
<1> QED
  BY <1>12, <1>13, <1>14

(* The handler of c is done with a broadcast that was no news of a host.   *)
LEMMA QuietEnd ==
  ASSUME WInv, CInv, VInv, NEW c \in Conn, NEW at, NEW n,
         conns' = [conns EXCEPT ![c] = Handler(at, n)], at \in {"listening", "closed"},
         conns[c].at \in Inside \/ at = "closed",
         conns[c].at # "sharing", ~Heralds(conns[c]) \/ ~steady,
         UNCHANGED <<rooms, current, views, steady>>
  PROVE  CInv' /\ VInv'
<1> DEFINE x == Handler(at, n)
<1>1. x.at = at /\ Handled(x, DOMAIN rooms) /\ DOMAIN conns = Conn /\ views \in [Conn -> View]
  BY RestHandled DEF Handler, WInv, HandlersOK, CInv
<1>2. conns' = [conns EXCEPT ![c] = x]
  OBVIOUS
<1> HIDE DEF x
<1>3. CInv'
  <2>1. Shares(x, UserOf[c], rooms'[current'], current')
    BY <1>1 DEF Shares
  <2> QED
    BY <1>1, <1>2, <2>1, CStep
<1>4. CASE ~steady
  BY <1>3, <1>4 DEF VInv
<1>5. CASE ~Heralds(conns[c])
  <2>1. ~Heralds(x) /\ x.at # "sharing" /\ (x.at \in Inside => conns[c].at \in Inside)
    BY <1>1 DEF Heralds, Inside
  <2> QED
    BY <1>1, <1>2, <1>3, <1>5, <2>1, QuietMove
<1> QED
  BY <1>4, <1>5

(* A broadcast that is over: nobody waits for it any more.                 *)
LEMMA CastDoneTells ==
  ASSUME WInv, Present, CInv, VInv, NEW c \in Conn, CastDone(c)
  PROVE  CInv' /\ VInv'
<1> DEFINE h == conns[c]
           r == rooms[current]
           msg == RoomStateMsg(h.promoted, r.playing)
           listening == Handler("listening", h.room)
           promoting == Handler("promoting", 0)
           closed == Handler("closed", 0)
<1>1. /\ h.promoted \in User \cup {None}
      /\ DOMAIN conns = Conn
      /\ views \in [Conn -> View]
      /\ UNCHANGED <<rooms, current, steady>>
      /\ current # 0 => current \in DOMAIN rooms /\ r \in Room /\ Agrees(r)
  BY RoomThere DEF CastDone, CInv, Handled, WInv, HandlersOK
<1>2. ASSUME h.cast.room = current, NEW u PROVE ~Waits(h, r, u)
  BY <1>2 DEF CastDone, Left, Waits
<1>3. "promoting" \in Stages /\ "closed" \in Stages
  BY DEF Stages, Resting
<1>4. /\ Shaped(promoting) /\ promoting.at = "promoting" /\ promoting.promoted = None
      /\ Shaped(closed) /\ closed.at = "closed"
      /\ Handled(closed, DOMAIN rooms)
      /\ listening.at = "listening" /\ Handled(listening, DOMAIN rooms)
  BY <1>3, HandlerShaped, RestHandled DEF Handler
<1>5. CASE h.at = "announcing" /\ conns' = [conns EXCEPT ![c] = listening] /\ views' = views
  <2>1. /\ conns[c].at \in Inside /\ conns[c].at # "sharing" /\ ~Heralds(conns[c])
        /\ "listening" \in {"listening", "closed"}
    BY <1>5 DEF Inside, Heralds
  <2> QED
    BY <1>1, <1>5, <2>1, QuietEnd
<1>6. CASE /\ h.at = "parting" /\ h.promoted = None
           /\ conns' = [conns EXCEPT ![c] = closed] /\ views' = views
  <2>1. /\ conns[c].at # "sharing" /\ ~Heralds(conns[c])
        /\ "closed" \in {"listening", "closed"}
    BY <1>6 DEF Heralds
  <2> QED
    BY <1>1, <1>6, <2>1, QuietEnd
<1>7. CASE ~steady /\ conns' = [conns EXCEPT ![c] = closed] /\ views' = views /\ h.at # "sharing"
  BY <1>1, <1>7, QuietEnd
<1> HIDE DEF listening, promoting, closed
<1>8. CASE h.at = "sharing" /\ conns' = [conns EXCEPT ![c] = listening] /\ views' = views
  <2>1. conns'[c] = listening /\ \A d \in Conn : d # c => conns'[d] = conns[d]
    BY <1>1, <1>8
  <2>2. CInv'
    <3>1. Shares(listening, UserOf[c], rooms'[current'], current')
      BY <1>4 DEF Shares
    <3> QED
      BY <1>1, <1>4, <1>8, <3>1, CStep
  <2>3. h.cast.room = current /\ r.host = UserOf[c] /\ conns[c].at \in Inside
    BY <1>8 DEF CInv, Shares, Inside
  <2> SUFFICES ASSUME steady' PROVE NoHerald' /\ Calm'
    BY <2>2, CalmThen
  <2>4. NoHerald
    BY <1>1, <1>8 DEF VInv, Sound, NoHerald
  <2>5. Calm /\ NoHerald'
    BY <1>1, <1>4, <2>1, <2>4 DEF VInv, NoHerald, Heralds
  <2>6. ASSUME NEW d \in Conn, conns[d].at \in Inside
        PROVE  views[d].host = r.host /\ views[d].playing = r.playing
    <3>1. /\ views[d].host = r.host
          /\ \/ views[d].playing = r.playing
             \/ \E e \in Conn : conns[e].at = "sharing" /\ Waits(conns[e], r, UserOf[d])
      BY <2>5, <2>6 DEF Calm
    <3> HIDE DEF r
    <3>2. views[d].playing = r.playing \/ Waits(h, r, UserOf[d])
      BY <2>3, <3>1, LoneSharer DEF r
    <3> QED
      BY <1>2, <2>3, <3>1, <3>2
  <2> QED
    BY <1>1, <1>8, <2>1, <2>3, <2>5, <2>6 DEF Calm
<1>9. CASE h.at = "promoting" /\ steady /\ conns' = [conns EXCEPT ![c] = closed] /\ views' = views
  <2>1. conns'[c] = closed /\ \A d \in Conn : d # c => conns'[d] = conns[d]
    BY <1>1, <1>9
  <2>2. CInv'
    <3>1. Shares(closed, UserOf[c], rooms'[current'], current')
      BY <1>4 DEF Shares
    <3> QED
      BY <1>1, <1>4, <1>9, <3>1, CStep
  <2>3. Sound(c)
    BY <1>9 DEF VInv, Heralds
  <2>4. NoHerald'
    BY <1>4, <2>1, <2>3 DEF Sound, NoHerald, Heralds
  <2>5. h.cast.room = current
    BY <1>9, <2>3 DEF Sound, Cast
  <2>6. \A d \in Conn : conns'[d].at \in Inside => Knows(views[d], r)
    BY <1>2, <1>4, <1>9, <2>1, <2>3, <2>5 DEF Sound, Inside
  <2>7. Calm'
    BY <1>1, <1>9, <2>6 DEF Calm, Knows
  <2> QED
    BY <2>2, <2>4, <2>7, CalmThen
<1>10. CASE /\ h.at = "parting" /\ h.promoted # None /\ current # 0
            /\ Begin(c, promoting, closed, None, msg, rooms, current, views)
  <2>1. msg \in Said /\ \A v \in View : Told(v, msg) \in View
    <3>1. msg \in Said
      BY <1>1, <1>10 DEF Said, Room
    <3> HIDE DEF msg
    <3> QED
      BY <3>1, ToldSaid
  <2>2. PICK x : Announces(c, x, promoting, closed, None, msg, r, current, views)
    <3> HIDE DEF msg
    <3> QED
      BY <1>1, <1>4, <1>10, <2>1, BeginTells
  <2>3. /\ conns' = [conns EXCEPT ![c] = x] /\ views' \in [Conn -> View]
        /\ \/ x = closed /\ Targets(r, 0, None) = {}
           \/ x.at = "promoting" /\ x.promoted = None /\ x.cast \in Cast(r, current, msg)
    BY <1>4, <1>10, <2>2 DEF Announces
  <2>4. conns'[c] = x /\ \A d \in Conn : d # c => conns'[d] = conns[d]
    BY <1>1, <2>3
  <2>5. CInv'
    <3>1. x.at \in {"promoting", "closed"} /\ Handled(x, DOMAIN rooms)
      <4>1. CASE x = closed
        BY <1>4, <4>1
      <4>2. CASE x # closed
        <5>1. /\ x.at = "promoting" /\ x.promoted = None /\ x.cast \in Cast(r, current, msg)
              /\ x.at \in Casting /\ current \in DOMAIN rooms
          BY <1>1, <1>10, <2>3, <4>2 DEF Casting
        <5> HIDE DEF msg, r
        <5> QED
          BY <2>1, <5>1, CastHandled
      <4> QED
        BY <4>1, <4>2
    <3>2. Shares(x, UserOf[c], rooms'[current'], current')
      BY <3>1 DEF Shares
    <3> QED
      BY <1>1, <2>3, <3>1, <3>2, CStep
  <2>6. ASSUME steady
        PROVE  /\ h.promoted = r.host
               /\ \A d \in Conn : d # c => ~Heralds(conns'[d])
               /\ \A d \in Conn : d # c => conns'[d].at # "sharing"
    BY <1>10, <2>4, <2>6 DEF VInv, Sound, Heralds
  <2>7. ASSUME NEW d \in Conn, conns'[d].at \in Inside
        PROVE  /\ x.at = "promoting"
               /\ \/ views'[d] = Told(views[d], msg)
                  \/ Waits(x, r, UserOf[d])
    <3>1. conns[d].at \in Inside
      BY <1>4, <2>3, <2>4, <2>7 DEF Inside
    <3>2. r.sock[UserOf[d]] = d /\ UserOf[d] # None
      BY <3>1, RoomThere, RoomAssumption
    <3> QED
      BY <1>4, <1>10, <2>2, <3>2 DEF Announces
  <2>8. CASE x.at = "promoting"
    <3>1. ASSUME steady' PROVE Sound(c)'
      <4>1. h.promoted = r.host /\ r.host \in User /\ r.playing \in BOOLEAN
        BY <1>1, <1>10, <2>6, <3>1 DEF Room
      <4>2. \A d \in Conn : conns'[d].at \in Inside => Knows(views'[d], r) \/ Waits(x, r, UserOf[d])
        BY <2>7, <4>1, ToldRoom DEF Knows
      <4>3. x.cast \in Cast(r, current, msg)
        BY <1>4, <2>3, <2>8
      <4> QED
        BY <1>1, <1>10, <2>4, <2>6, <2>8, <3>1, <4>1, <4>2, <4>3 DEF Sound
    <3> QED
      BY <2>4, <2>5, <2>8, <3>1, HeraldThen DEF Heralds
  <2>9. CASE x.at # "promoting"
    <3>1. \A d \in Conn : conns'[d].at \notin Inside
      BY <2>7, <2>9
    <3>2. ~Heralds(x)
      BY <1>4, <2>3, <2>9 DEF Heralds
    <3>3. steady' => NoHerald' /\ Calm'
      BY <1>1, <2>4, <2>6, <3>1, <3>2 DEF NoHerald, Calm
    <3> QED
      BY <2>5, <3>3, CalmThen
  <2> QED
    BY <2>8, <2>9
<1>11. CASE /\ h.at = "parting" /\ h.promoted # None /\ current = 0
            /\ conns' = [conns EXCEPT ![c] = closed] /\ views' = views
  <2>1. ~steady
    BY <1>11 DEF VInv, Sound, Heralds
  <2> QED
    BY <1>7, <1>11, <2>1
<1> QED
  BY <1>5, <1>6, <1>7, <1>8, <1>9, <1>10, <1>11 DEF CastDone, listening, promoting, closed

LEMMA CastBreaksTells ==
  ASSUME WInv, Present, CInv, VInv, WInv', Present', NEW c \in Conn, CastBreaks(c)
  PROVE  CInv' /\ VInv'
<1>1. CASE conns[c].at \in {"announcing", "sharing"}
  BY <1>1, FinishTells DEF CastBreaks, Inside
<1>2. CASE conns[c].at \notin {"announcing", "sharing"}
  <2>1. ASSUME steady, Heralds(conns[c]) PROVE FALSE
    <3>1. Sound(c)
      BY <2>1 DEF VInv
    <3>2. ~Changed(conns[c].cast)
      BY <2>1, <3>1 DEF Sound, Heralds, Cast, Changed
    <3> QED
      BY <3>2 DEF CastBreaks
  <2>2. /\ conns' = [conns EXCEPT ![c] = Handler("closed", 0)]
        /\ UNCHANGED <<rooms, current, views, steady>>
        /\ conns[c].at # "sharing"
    BY <1>2 DEF CastBreaks
  <2> QED
    BY <2>1, <2>2, QuietEnd
<1> QED
  BY <1>1, <1>2

(* The host says how it plays: the room remembers, the others are told.    *)
LEMMA ShareTells ==
  ASSUME WInv, Present, CInv, VInv, NEW c \in Conn, NEW playing \in BOOLEAN, Share(c, playing)
  PROVE  CInv' /\ VInv'
<1> DEFINE h == Handler("sharing", current)
           rest == Handler("listening", current)
           skip == UserOf[c]
           r == [rooms[current] EXCEPT !.playing = playing]
           rs == [rooms EXCEPT ![current].playing = playing]
           vs == [views EXCEPT ![c].playing = playing]
           msg == StateMsg(playing)
<1>1. /\ conns[c].at = "listening" /\ conns[c].at \in Inside
      /\ conns[c].room = current /\ current # 0 /\ current \in DOMAIN rooms
      /\ rooms[current] \in Room /\ Agrees(rooms[current])
      /\ rooms[current].host = UserOf[c]
      /\ \A d \in Conn : conns[d].at \in Inside => rooms[current].sock[UserOf[d]] = d
      /\ DOMAIN conns = Conn /\ views \in [Conn -> View]
  BY RoomThere DEF Share, Inside, WInv, HandlersOK, CInv
<1>2. /\ Begin(c, h, rest, skip, msg, rs, current, vs)
      /\ rooms' = rs /\ current' = current /\ steady' = (steady /\ NoHerald)
  BY <1>1 DEF Share, Interjects
<1>3. /\ r \in Room /\ r.host = rooms[current].host /\ r.playing = playing
      /\ r.sock = rooms[current].sock /\ r.entries = rooms[current].entries
      /\ rs[current] = r /\ DOMAIN rs = DOMAIN rooms
  BY <1>1 DEF Room
<1>4. Agrees(r)
  BY <1>1, <1>3 DEF Agrees
<1>5. /\ vs \in [Conn -> View]
      /\ vs[c].host = views[c].host /\ vs[c].playing = playing
      /\ \A d \in Conn : d # c => vs[d] = views[d]
  BY <1>1 DEF View
<1>6. "listening" \in Stages /\ "sharing" \in Stages
  BY DEF Stages, Resting, Inside
<1>7. /\ Shaped(h) /\ h.at = "sharing" /\ h.promoted = None
      /\ Shaped(rest) /\ rest.at = "listening" /\ Handled(rest, DOMAIN rooms)
  BY <1>6, HandlerShaped, RestHandled DEF Handler
<1>8. msg \in Said
  BY DEF Said
<1>9. skip \in User \cup {None}
  BY RoomAssumption
<1>10. \A e \in Conn : conns[e].at = "sharing" => e = c
  BY <1>1, LoneSharer
<1> HIDE DEF h, rest, skip, r, rs, vs, msg
<1>11. PICK x : Announces(c, x, h, rest, skip, msg, r, current, vs)
  BY <1>2, <1>3, <1>4, <1>5, <1>7, <1>8, <1>9, BeginTells, ToldSaid
<1>12. /\ conns' = [conns EXCEPT ![c] = x] /\ views' \in [Conn -> View]
       /\ \/ x = rest
          \/ x.at = "sharing" /\ x.promoted = None /\ x.cast \in Cast(r, current, msg)
  BY <1>7, <1>11 DEF Announces
<1>13. conns'[c] = x /\ \A d \in Conn : d # c => conns'[d] = conns[d]
  BY <1>1, <1>12
<1>14. CInv'
  <2>1. Handled(x, DOMAIN rooms) /\ Shares(x, UserOf[c], r, current)
    <3>1. CASE x = rest
      BY <1>7, <3>1 DEF Shares
    <3>2. CASE x # rest
      <4>1. /\ x.at = "sharing" /\ x.promoted = None /\ x.cast \in Cast(r, current, msg)
            /\ x.at \in Casting
        BY <1>12, <3>2 DEF Casting
      <4>2. x.cast.room = current /\ x.cast.msg = msg /\ x.cast.i \in Nat
        BY <4>1 DEF Cast
      <4>3. Shares(x, UserOf[c], r, current)
        BY <1>1, <1>3, <4>2 DEF Shares, msg
      <4> QED
        BY <1>1, <1>8, <4>1, <4>3, CastHandled
    <3> QED
      BY <3>1, <3>2
  <2>2. DOMAIN rooms' = DOMAIN rooms /\ rooms'[current'] = r
    BY <1>2, <1>3
  <2> QED
    BY <1>1, <1>2, <1>10, <1>12, <2>1, <2>2, CStep
<1> SUFFICES ASSUME steady' PROVE NoHerald' /\ Calm'
  BY <1>14, CalmThen
<1>15. NoHerald /\ Calm
  BY <1>2 DEF VInv
<1>16. NoHerald'
  BY <1>7, <1>12, <1>13, <1>15 DEF NoHerald, Heralds
<1>17. ASSUME NEW d \in Conn, conns'[d].at \in Inside
       PROVE  /\ views'[d].host = r.host
              /\ \/ views'[d].playing = r.playing
                 \/ x.at = "sharing" /\ Waits(x, r, UserOf[d])
  <2>1. conns[d].at \in Inside
    BY <1>1, <1>13, <1>17
  <2>2. vs[d].host = r.host
    BY <1>3, <1>5, <1>15, <2>1 DEF Calm
  <2>3. /\ Told(vs[d], msg).playing = r.playing
        /\ Told(vs[d], msg).host = r.host
    BY <1>3, <1>5, <2>2, ToldState DEF msg
  <2>4. views'[d].host = r.host
    BY <1>11, <2>2, <2>3 DEF Announces
  <2>5. CASE d = c
    BY <1>3, <1>5, <1>11, <2>3, <2>4, <2>5 DEF Announces
  <2>6. CASE d # c
    <3>1. UserOf[d] # skip /\ r.sock[UserOf[d]] = d
      BY <1>1, <1>3, <2>1, <2>6 DEF skip
    <3> QED
      BY <1>1, <1>7, <1>11, <2>3, <2>4, <3>1 DEF Announces
  <2> QED
    BY <2>5, <2>6
<1>18. rooms'[current'] = r
  BY <1>2, <1>3
<1> QED
  BY <1>13, <1>16, <1>17, <1>18 DEF Calm

(* Who asks is told.                                                       *)
LEMMA SyncTells ==
  ASSUME WInv, Present, CInv, VInv, NEW c \in Conn, SyncRequest(c)
  PROVE  CInv' /\ VInv'
<1> DEFINE r == rooms[current]
<1>1. /\ conns[c].room = current /\ r \in Room
      /\ DOMAIN conns = Conn /\ views \in [Conn -> View]
      /\ views' = [views EXCEPT ![c] = Told(views[c], RoomStateMsg(r.host, r.playing))]
      /\ UNCHANGED <<rooms, current, conns, steady>>
  BY RoomThere DEF SyncRequest, Inside, WInv, HandlersOK, CInv
<1>2. r.host \in User /\ r.playing \in BOOLEAN
  BY <1>1 DEF Room
<1>3. /\ views' \in [Conn -> View]
      /\ views'[c].host = r.host /\ views'[c].playing = r.playing
      /\ \A d \in Conn : d # c => views'[d] = views[d]
  BY <1>1, <1>2, ToldRoom
<1>4. CInv'
  BY <1>1, <1>3 DEF CInv
<1>5. ASSUME steady', NoHerald' PROVE Calm'
  BY <1>1, <1>3, <1>5 DEF VInv, Calm, NoHerald
<1>6. ASSUME steady', NEW a \in Conn, Heralds(conns'[a]) PROVE Sound(a)'
  <2>1. Sound(a)
    BY <1>1, <1>6 DEF VInv
  <2> QED
    BY <1>1, <1>3, <2>1 DEF Sound, Knows
<1> QED
  BY <1>4, <1>5, <1>6 DEF VInv

(* After a restart nobody is in a room.                                    *)
LEMMA RestartTells ==
  ASSUME WInv, CInv, Restart
  PROVE  CInv' /\ VInv'
<1> DEFINE closed == Handler("closed", 0)
<1>1. /\ conns' = [c \in Conn |-> IF conns[c].at = "offline" THEN conns[c] ELSE closed]
      /\ views' = [c \in Conn |-> Untold]
      /\ rooms' = rooms
  BY DEF Restart
<1>2. closed.at = "closed" /\ Handled(closed, DOMAIN rooms)
  BY RestHandled DEF Handler
<1> HIDE DEF closed
<1>3. \A c \in Conn : conns'[c].at \in {"offline", "closed"} /\ Handled(conns'[c], DOMAIN rooms')
  BY <1>1, <1>2 DEF CInv
<1>4. views' \in [Conn -> View]
  BY <1>1 DEF View, Untold
<1>5. /\ \A c \in Conn : ~Heralds(conns'[c]) /\ conns'[c].at \notin Inside
      /\ \A c \in Conn : Shares(conns'[c], UserOf[c], rooms'[current'], current')
  BY <1>3 DEF Heralds, Inside, Shares
<1>6. NoHerald' /\ Calm'
  BY <1>5 DEF NoHerald, Calm
<1> QED
  BY <1>3, <1>4, <1>5, <1>6, CalmThen DEF CInv

-----------------------------------------------------------------------------
LEMMA InitVInv == Init => CInv /\ VInv
<1> SUFFICES ASSUME Init PROVE CInv /\ VInv
  OBVIOUS
<1>1. \A c \in Conn : conns[c] = Handler("offline", 0) /\ conns[c].at = "offline"
  BY DEF Init, Handler
<1>2. views \in [Conn -> View]
  BY DEF Init, View, Untold
<1>3. \A c \in Conn : /\ Handled(conns[c], DOMAIN rooms)
                      /\ Shares(conns[c], UserOf[c], rooms[current], current)
                      /\ ~Heralds(conns[c]) /\ conns[c].at \notin Inside
  BY <1>1, RestHandled DEF Shares, Heralds, Inside
<1> QED
  BY <1>2, <1>3 DEF CInv, VInv, Calm, NoHerald

LEMMA NextVInv ==
  ASSUME OneTab, WInv, Present, CInv, VInv, [Next]_vars
  PROVE  CInv' /\ VInv'
<1>1. WInv' /\ Present'
  BY NextGood DEF Good
<1>2. ASSUME NEW c \in Conn, Join(c) PROVE CInv' /\ VInv'
  BY <1>2, JoinTells
<1>3. ASSUME NEW c \in Conn, Greeted(c) PROVE CInv' /\ VInv'
  BY <1>3, GreetedTells
<1>4. ASSUME NEW c \in Conn, GreetingFails(c) PROVE CInv' /\ VInv'
  BY <1>1, <1>4, FinishTells DEF GreetingFails, Inside
<1>5. ASSUME NEW c \in Conn, SendNext(c) PROVE CInv' /\ VInv'
  BY <1>5, SendMoreTells
<1>6. ASSUME NEW c \in Conn, CastDone(c) PROVE CInv' /\ VInv'
  BY <1>6, CastDoneTells
<1>7. ASSUME NEW c \in Conn, CastBreaks(c) PROVE CInv' /\ VInv'
  BY <1>1, <1>7, CastBreaksTells
<1>8. ASSUME NEW c \in Conn, NEW playing \in BOOLEAN, Share(c, playing) PROVE CInv' /\ VInv'
  BY <1>8, ShareTells
<1>9. ASSUME NEW c \in Conn, SyncRequest(c) PROVE CInv' /\ VInv'
  BY <1>9, SyncTells
<1>10. ASSUME NEW c \in Conn, Leave(c) PROVE CInv' /\ VInv'
  BY <1>1, <1>10, FinishTells DEF Leave, Inside
<1>11. ASSUME Restart PROVE CInv' /\ VInv'
  BY <1>11, RestartTells
<1>12. ASSUME UNCHANGED vars PROVE CInv' /\ VInv'
  BY <1>12 DEF vars, CInv, VInv, Calm, Sound, NoHerald
<1> QED
  BY <1>2, <1>3, <1>4, <1>5, <1>6, <1>7, <1>8, <1>9, <1>10, <1>11, <1>12 DEF Next

LEMMA AllTold ==
  ASSUME OneTab
  PROVE  Spec => [](Present /\ CInv /\ VInv)
<1>1. WInv /\ Present /\ CInv /\ VInv /\ [Next]_vars => Present' /\ CInv' /\ VInv'
  BY NextGood, NextVInv DEF Good
<1> QED
  BY <1>1, InitWInv, InitVInv, Inductive, PTL DEF Spec

LEMMA TheyKnow ==
  ASSUME Present, VInv, steady, Settled, NEW c \in Conn, conns[c].at = "listening"
  PROVE  /\ views[c].host = rooms[conns[c].room].host
         /\ views[c].playing = rooms[conns[c].room].playing
<1>1. conns[c].at \in Inside /\ conns[c].room = current
  BY DEF Present, Registered, Inside
<1>2. \A d \in Conn : ~Heralds(conns[d]) /\ conns[d].at # "sharing"
  BY DEF Settled, Resting, Heralds
<1> QED
  BY <1>1, <1>2 DEF VInv, NoHerald, Calm

(* If nobody has two connections at a time, everyone knows the host when   *)
(* the broadcasts are over, whoever joined, left or broke meanwhile, unless*)
(* the room changed between the last promotion and its news.               *)
THEOREM HostsAnnounced ==
  ASSUME OneTab
  PROVE  Spec => []HostAnnounced
<1>1. Present /\ VInv => HostAnnounced
  BY TheyKnow DEF HostAnnounced
<1> QED
  BY <1>1, AllTold, PTL

(* If nobody has two connections at a time, everyone plays as the room     *)
(* does when the broadcasts are over, under the same premise: a broadcast  *)
(* of "state" that breaks halfway is made up for.                          *)
THEOREM PlaybackInSync ==
  ASSUME OneTab
  PROVE  Spec => []InSync
<1>1. Present /\ VInv => InSync
  BY TheyKnow DEF InSync
<1> QED
  BY <1>1, AllTold, PTL

(* The host that is replaced is the one whose handler ends: nobody listens *)
(* with another connection of the same user.                               *)
LEMMA FinishKeepsHost ==
  ASSUME WInv, Present, NEW c \in Conn, conns[c].at \in Inside, Finish(c),
         NEW k \in DOMAIN rooms, rooms'[k].host # rooms[k].host,
         NEW d \in Conn, conns'[d].at = "listening"
  PROVE  UserOf[d] # rooms[k].host
<1> DEFINE u == UserOf[c]
           r == Removed(rooms[current], u)
<1>1. rooms' = IF current # 0 /\ u \in Members(rooms[current]) THEN [rooms EXCEPT ![current] = r] ELSE rooms
  BY DEF Finish
<1>2. DOMAIN conns = Conn
  BY DEF WInv, HandlersOK
<1>3. current \in DOMAIN rooms /\ rooms[current] \in Room /\ rooms[current].sock[u] = c
  BY RoomThere
<1>4. k = current /\ r.host # rooms[k].host
  BY <1>1, <1>3
<1>5. rooms[k].host = u
  BY <1>3, <1>4 DEF Removed, WithoutMember, Room
<1>6. conns[d].at = "listening" /\ d # c
  <2>1. PICK x : conns' = [conns EXCEPT ![c] = x] /\ x.at \in {"parting", "closed"}
    BY FinishShape
  <2> QED
    BY <1>2, <2>1
<1>7. rooms[current].sock[UserOf[d]] = d
  BY <1>6, RoomThere DEF Inside
<1> QED
  BY <1>3, <1>5, <1>6, <1>7

(* The other steps replace no host.                                        *)
LEMMA NextKeepsHost ==
  ASSUME WInv, Present, [Next]_vars,
         NEW k \in DOMAIN rooms, rooms'[k].host # rooms[k].host,
         NEW d \in Conn, conns'[d].at = "listening"
  PROVE  UserOf[d] # rooms[k].host
<1>1. ASSUME NEW c \in Conn, Join(c) PROVE FALSE
  <2> DEFINE s == WithMember(rooms[current], UserOf[c], c)
  <2>1. current # 0 => s.host = rooms[current].host
    BY RoomThere, WithMemberKeeps
  <2>2. rooms \in Seq(Room) /\ DOMAIN rooms = 1 .. Len(rooms) /\ Len(rooms) \in Nat
    BY LenProperties DEF WInv, RoomsOK
  <2>3. CASE current = 0
    <3>1. \E x : rooms' = Append(rooms, x)
      BY <1>1, <2>3 DEF Join
    <3>2. rooms'[k] = rooms[k]
      BY <2>2, <3>1
    <3> QED
      BY <3>2
  <2>4. CASE current # 0
    <3>1. rooms' = [rooms EXCEPT ![current] = s]
      BY <1>1, <2>4 DEF Join
    <3> HIDE DEF s
    <3> QED
      BY <2>1, <2>4, <3>1
  <2> QED
    BY <2>3, <2>4
<1>2. ASSUME NEW c \in Conn, conns[c].at \in Inside, Finish(c) PROVE UserOf[d] # rooms[k].host
  BY <1>2, FinishKeepsHost
<1>3. ASSUME rooms' = rooms PROVE FALSE
  BY <1>3
<1>4. ASSUME NEW c \in Conn, NEW playing \in BOOLEAN, Share(c, playing) PROVE FALSE
  <2>1. rooms[k] \in Room /\ rooms' = [rooms EXCEPT ![conns[c].room].playing = playing]
    BY <1>4, ElementOfSeq, LenProperties DEF Share, WInv, RoomsOK
  <2> QED
    BY <2>1 DEF Room
<1>5. ASSUME NEW c \in Conn, GreetingFails(c) \/ Leave(c) \/ CastBreaks(c) PROVE UserOf[d] # rooms[k].host
  BY <1>2, <1>3, <1>5 DEF GreetingFails, Leave, CastBreaks, Inside
<1>6. ASSUME NEW c \in Conn, Greeted(c) \/ SendNext(c) \/ CastDone(c) \/ SyncRequest(c) PROVE FALSE
  BY <1>3, <1>6 DEF Greeted, SendNext, CastDone, SyncRequest
<1> QED
  BY <1>1, <1>3, <1>4, <1>5, <1>6 DEF Next, Restart, vars

(* If nobody has two connections at a time, nobody who still listens loses *)
(* the room: the second tab is what room_two_tabs needs to take it away.   *)
THEOREM HostsKeepRoom ==
  ASSUME OneTab
  PROVE  Spec => HostKeepsRoom
<1>1. WInv /\ Present /\ [Next]_vars =>
        [\A k \in DOMAIN rooms : rooms'[k].host # rooms[k].host =>
           \A c \in Conn : conns'[c].at = "listening" /\ conns'[c].room = k
                             => UserOf[c] # rooms[k].host]_vars
  BY NextKeepsHost
<1> QED
  BY <1>1, AllTold, Inductive, PTL DEF Spec, HostKeepsRoom
=============================================================================
