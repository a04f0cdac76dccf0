----------------------------- MODULE WatchRoom -----------------------------
(***************************************************************************)
(* A watch party: the in-memory state of one room code and the WebSocket   *)
(* handlers of its connections.  All handlers run on one event loop.  A    *)
(* handler gives way only where it awaits: at a receive, and at a send     *)
(* whose socket is not ready to take more.  Whatever runs meanwhile may    *)
(* change the room, and the dict of members a broadcast is iterating.      *)
(***************************************************************************)
EXTENDS Naturals, Sequences, FiniteSets

CONSTANTS User, Conn,
          UserOf,     \* UserOf[c]: who opens connection c
          Owner,      \* rooms.host_user_id of the database row
          None,
          OneTab      \* does a user come back only after the old connection is done?

ASSUME RoomAssumption ==
  /\ UserOf \in [Conn -> User]
  /\ Owner \in User
  /\ None \notin User \cup Conn
  /\ OneTab \in BOOLEAN

VARIABLES rooms,     \* the RoomState objects created so far
          current,   \* the one _rooms holds for the code, or 0
          conns,     \* the handler of each connection
          views,     \* what each client was told of host and playback
          steady     \* history: did nothing come between the last promotion and its news?

vars == <<rooms, current, conns, views, steady>>

(* A RoomState.  "entries" is the member dict in insertion order, with a   *)
(* hole (None) where a key was deleted; "sock" its values.                 *)
NewRoom(host) == [host |-> host, entries |-> <<>>, sock |-> [u \in User |-> None], playing |-> FALSE]

Members(r) == {u \in User : r.sock[u] # None}

(* The members a broadcast has still to reach after entry i.               *)
Targets(r, i, skip) == {j \in i+1 .. Len(r.entries) : r.entries[j] \notin {None, skip}}

First(S) == CHOOSE i \in S : \A j \in S : i <= j

(* A handler: where it waits, the RoomState it got when it joined, the     *)
(* broadcast it is in and the host it promoted while leaving.              *)
Handler(at, k) == [at |-> at, room |-> k, cast |-> None, promoted |-> None]

Resting == {"offline", "listening", "closed"}
Settled == \A c \in Conn : conns[c].at \in Resting

(* A handler that promoted a host on its way out and has not yet told all. *)
Heralds(h) == h.at = "promoting" \/ (h.at = "parting" /\ h.promoted # None)
NoHerald == \A c \in Conn : ~Heralds(conns[c])

(* A join or a share: perhaps before the new host is announced.            *)
Interjects == steady' = (steady /\ NoHerald)

Note == [kind |-> "note"]
StateMsg(playing) == [kind |-> "state", playing |-> playing]
RoomStateMsg(host, playing) == [kind |-> "room_state", host |-> host, playing |-> playing]

(* A client that is not in the room.                                       *)
Untold == [host |-> None, playing |-> FALSE]

Told(view, msg) ==
  CASE msg.kind = "note" -> view
    [] msg.kind = "state" -> [view EXCEPT !.playing = msg.playing]
    [] msg.kind = "room_state" -> [host |-> msg.host, playing |-> msg.playing]

-----------------------------------------------------------------------------
(* One send of a broadcast, to entry j of room k.                          *)
SendTo(c, h, k, rs, vs, cast, j) ==
  /\ conns' = [conns EXCEPT ![c] = [h EXCEPT !.cast = [cast EXCEPT !.i = j]]]
  /\ views' = [vs EXCEPT ![rs[k].sock[rs[k].entries[j]]] = Told(@, cast.msg)]

(* broadcast(): look up the room, send to the first member other than      *)
(* "skip", and wait; without one to send to, the handler goes on to "rest".*)
Begin(c, h, rest, skip, msg, rs, cur, vs) ==
  IF cur = 0 \/ Targets(rs[cur], 0, skip) = {}
    THEN conns' = [conns EXCEPT ![c] = rest] /\ views' = vs
    ELSE SendTo(c, h, cur, rs, vs,
                [room |-> cur, size |-> Cardinality(Members(rs[cur])), i |-> 0,
                 skip |-> skip, msg |-> msg],
                First(Targets(rs[cur], 0, skip)))

(* Mutated form of WithMember: the owner who comes back is the host again. *)
WithMemberReclaiming(r, u, c) ==
  [r EXCEPT !.sock[u] = c,
            !.entries = IF u \in Members(r) THEN @ ELSE Append(@, u),
            !.host = IF u = Owner THEN u ELSE @]

(* add_member: a key that is there keeps its place.                        *)
WithMember(r, u, c) ==
  [r EXCEPT !.sock[u] = c,
            !.entries = IF u \in Members(r) THEN @ ELSE Append(@, u)]

WithoutMember(r, u) ==
  [r EXCEPT !.sock[u] = None,
            !.entries = [j \in DOMAIN @ |-> IF @[j] = u THEN None ELSE @[j]]]

(* Mutated forms of Removed: nobody follows the host; an empty room loses  *)
(* its host.                                                               *)
RemovedWithoutPromotion(r, u) == WithoutMember(r, u)

RemovedHostFirst(r, u) ==
  LET s == WithoutMember(r, u) IN
  IF r.host # u THEN s
  ELSE [s EXCEPT !.host = IF Members(s) = {} THEN None ELSE s.entries[First(Targets(s, 0, None))]]

(* remove_member: the host that leaves is followed by the first member     *)
(* that stays.                                                             *)
Removed(r, u) ==
  LET s == WithoutMember(r, u) IN
  IF r.host = u /\ Members(s) # {}
    THEN [s EXCEPT !.host = s.entries[First(Targets(s, 0, None))]] ELSE s

(* The finally block: remove_member, of whatever room _rooms holds by now, *)
(* and the broadcast of member_left.                                       *)
Finish(c) ==
  LET u == UserOf[c]
      present == current # 0 /\ u \in Members(rooms[current])
      rs == IF present THEN [rooms EXCEPT ![current] = Removed(@, u)] ELSE rooms
      cur == IF present /\ Members(rs[current]) = {} THEN 0 ELSE current
      host == IF present /\ rs[current].host # rooms[current].host THEN rs[current].host ELSE None IN
  /\ rooms' = rs
  /\ current' = cur
  /\ steady' = (NoHerald /\ (steady \/ host # None \/ cur = 0))
  /\ Begin(c, [Handler("parting", 0) EXCEPT !.promoted = host], Handler("closed", 0),
           None, Note, rs, cur, [views EXCEPT ![c] = Untold])

Init ==
  /\ rooms = <<NewRoom(Owner)>>
  /\ current = 1
  /\ conns = [c \in Conn |-> Handler("offline", 0)]
  /\ views = [c \in Conn |-> Untold]
  /\ steady = TRUE

(* Mutated form of Join: create_room, whether the room is there or not.    *)
JoinCreating(c) ==
  LET u == UserOf[c]
      k == Len(rooms) + 1
      s == WithMember(NewRoom(Owner), u, c) IN
  /\ Interjects
  /\ conns[c].at = "offline"
  /\ OneTab => \A d \in Conn : UserOf[d] = u => conns[d].at \in {"offline", "parting", "promoting", "closed"}
  /\ rooms' = Append(rooms, s)
  /\ current' = k
  /\ conns' = [conns EXCEPT ![c] = Handler("greeting", k)]
  /\ views' = [views EXCEPT ![c] = Told(@, RoomStateMsg(s.host, s.playing))]

(* From accept to the first send: find or create the room, add the member, *)
(* send room_state.                                                        *)
Join(c) ==
  LET u == UserOf[c]
      fresh == current = 0
      k == IF fresh THEN Len(rooms) + 1 ELSE current
      r == IF fresh THEN NewRoom(Owner) ELSE rooms[current]
      s == WithMember(r, u, c) IN
  /\ Interjects
  /\ conns[c].at = "offline"
  /\ OneTab => \A d \in Conn : UserOf[d] = u => conns[d].at \in {"offline", "parting", "promoting", "closed"}
  /\ rooms' = IF fresh THEN Append(rooms, s) ELSE [rooms EXCEPT ![k] = s]
  /\ current' = k
  /\ conns' = [conns EXCEPT ![c] = Handler("greeting", k)]
  /\ views' = [views EXCEPT ![c] = Told(@, RoomStateMsg(s.host, s.playing))]

(* The room_state has gone out: announce the member.                       *)
Greeted(c) ==
  /\ conns[c].at = "greeting"
  /\ Begin(c, Handler("announcing", conns[c].room), Handler("listening", conns[c].room),
           UserOf[c], Note, rooms, current, views)
  /\ UNCHANGED <<rooms, current, steady>>

(* The client is gone before it took the room_state: the send raises.      *)
GreetingFails(c) ==
  /\ conns[c].at = "greeting"
  /\ Finish(c)

(* The dict iterator raises RuntimeError if the dict changed its size.     *)
Changed(cast) == Cardinality(Members(rooms[cast.room])) # cast.size

Left(cast) == Targets(rooms[cast.room], cast.i, cast.skip)

(* A broadcast goes on to the next member.                                 *)
SendNext(c) ==
  LET cast == conns[c].cast IN
  /\ cast # None
  /\ ~Changed(cast)
  /\ Left(cast) # {}
  /\ SendTo(c, conns[c], cast.room, rooms, views, cast, First(Left(cast)))
  /\ UNCHANGED <<rooms, current, steady>>

(* Mutated form of CastDone: the promotion is not announced.               *)
CastDoneQuietly(c) ==
  LET h == conns[c] IN
  /\ h.cast # None
  /\ ~Changed(h.cast)
  /\ Left(h.cast) = {}
  /\ conns' = [conns EXCEPT ![c] = IF h.at \in {"announcing", "sharing"}
                                     THEN Handler("listening", h.room) ELSE Handler("closed", 0)]
  /\ UNCHANGED <<rooms, current, views, steady>>

(* A broadcast is over.  After member_left a promotion is announced to the *)
(* room there is now.                                                      *)
CastDone(c) ==
  LET h == conns[c] IN
  /\ h.cast # None
  /\ ~Changed(h.cast)
  /\ Left(h.cast) = {}
  /\ \/ /\ h.at \in {"announcing", "sharing"}
        /\ conns' = [conns EXCEPT ![c] = Handler("listening", h.room)]
        /\ views' = views
     \/ /\ h.at = "parting" /\ h.promoted # None /\ current # 0
        /\ Begin(c, Handler("promoting", 0), Handler("closed", 0), None,
                 RoomStateMsg(h.promoted, rooms[current].playing), rooms, current, views)
     \/ /\ h.at = "promoting" \/ (h.at = "parting" /\ (h.promoted = None \/ current = 0))
        /\ conns' = [conns EXCEPT ![c] = Handler("closed", 0)]
        /\ views' = views
  /\ UNCHANGED <<rooms, current, steady>>

(* Mutated form of CastBreaks: the handler goes on to its next receive.    *)
CastBreaksResuming(c) ==
  LET h == conns[c] IN
  /\ h.cast # None
  /\ Changed(h.cast)
  /\ conns' = [conns EXCEPT ![c] = IF h.at \in {"announcing", "sharing"}
                                     THEN Handler("listening", h.room) ELSE Handler("closed", 0)]
  /\ UNCHANGED <<rooms, current, views, steady>>

(* Someone joined or left since the last send: the broadcast raises, which *)
(* ends the handler, by way of the finally block unless it is in it.       *)
CastBreaks(c) ==
  LET h == conns[c] IN
  /\ h.cast # None
  /\ Changed(h.cast)
  /\ IF h.at \in {"announcing", "sharing"}
       THEN Finish(c)
       ELSE /\ conns' = [conns EXCEPT ![c] = Handler("closed", 0)]
            /\ UNCHANGED <<rooms, current, views, steady>>

(* "state" from the host of the handler's room: play, pause or seek.       *)
Share(c, playing) ==
  LET k == conns[c].room
      rs == [rooms EXCEPT ![k].playing = playing] IN
  /\ Interjects
  /\ conns[c].at = "listening"
  /\ rooms[k].host = UserOf[c]
  /\ rooms' = rs
  /\ Begin(c, Handler("sharing", k), Handler("listening", k), UserOf[c], StateMsg(playing),
           rs, current, [views EXCEPT ![c].playing = playing])
  /\ UNCHANGED current

SyncRequest(c) ==
  LET r == rooms[conns[c].room] IN
  /\ conns[c].at = "listening"
  /\ views' = [views EXCEPT ![c] = Told(@, RoomStateMsg(r.host, r.playing))]
  /\ UNCHANGED <<rooms, current, conns, steady>>

(* "leave", or the receive notices that the client is gone.                *)
Leave(c) ==
  /\ conns[c].at = "listening"
  /\ Finish(c)

(* A restart of the backend forgets the room and drops the connections.    *)
Restart ==
  /\ current' = 0
  /\ conns' = [c \in Conn |-> IF conns[c].at = "offline" THEN conns[c] ELSE Handler("closed", 0)]
  /\ conns' # conns
  /\ views' = [c \in Conn |-> Untold]
  /\ steady' = TRUE
  /\ UNCHANGED rooms

Next ==
  \/ \E c \in Conn : \/ Join(c)
                     \/ Greeted(c)
                     \/ GreetingFails(c)
                     \/ SendNext(c)
                     \/ CastDone(c)
                     \/ CastBreaks(c)
                     \/ \E playing \in BOOLEAN : Share(c, playing)
                     \/ SyncRequest(c)
                     \/ Leave(c)
  \/ Restart

Spec == Init /\ [][Next]_vars

-----------------------------------------------------------------------------
(* Where a handler is between its join and its finally block.              *)
Inside == {"greeting", "announcing", "listening", "sharing"}

(* The rooms and the handlers have the shape the code gives them.          *)
TypeOK ==
  /\ current \in 0 .. Len(rooms)
  /\ \A k \in DOMAIN rooms : /\ rooms[k].host \in User
                             /\ \A i \in DOMAIN rooms[k].entries : rooms[k].entries[i] \in User \cup {None}
                             /\ rooms[k].sock \in [User -> Conn \cup {None}]
                             /\ rooms[k].playing \in BOOLEAN
  /\ \A c \in Conn : conns[c].at \in Resting \cup Inside \cup {"parting", "promoting"}
  /\ \A c \in Conn : conns[c].at \in Inside => conns[c].room \in DOMAIN rooms

(* A room whose host is there does not lose it while anyone is in it: the  *)
(* host that leaves is replaced, by somebody who is still there, whatever  *)
(* joined, left, broke or restarted before (remove_member).                *)
HostPresent ==
  [][\A k \in DOMAIN rooms :
       rooms[k].host \in Members(rooms[k]) /\ Members(rooms'[k]) # {}
         => rooms'[k].host \in Members(rooms'[k])]_vars

(* With one connection per user at a time: every handler that is past its  *)
(* join works on the room _rooms holds, and is the member the room sends   *)
(* to, whatever joined, left, broke or restarted in between.               *)
Registered ==
  \A c \in Conn : conns[c].at \in Inside =>
    /\ conns[c].room = current
    /\ rooms[current].sock[UserOf[c]] = c

(* When no send is under way, every client knows the host of its room      *)
(* ("host leave -> server promotes and broadcasts room_state"), whatever   *)
(* joined, left or broke before, as long as nothing came between the last  *)
(* promotion and its news.                                                 *)
HostAnnounced ==
  steady /\ Settled => \A c \in Conn : conns[c].at = "listening" =>
    views[c].host = rooms[conns[c].room].host

(* When no send is under way, every client plays if its room plays, under  *)
(* the same premise: those that a broken broadcast of "state" leaves out   *)
(* learn it from the promotion that follows, as the break ends the host.   *)
InSync ==
  steady /\ Settled => \A c \in Conn : conns[c].at = "listening" =>
    views[c].playing = rooms[conns[c].room].playing

(* The host changes when the host leaves, not while it is still listening. *)
HostKeepsRoom ==
  [][\A k \in DOMAIN rooms : rooms'[k].host # rooms[k].host =>
       \A c \in Conn : conns'[c].at = "listening" /\ conns'[c].room = k
                         => UserOf[c] # rooms[k].host]_vars
=============================================================================
