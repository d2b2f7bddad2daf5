--------------------------------- MODULE Rooms --------------------------------
(***************************************************************************)
(* The rooms of a server process and the sockets that act in them:         *)
(* server/src/rooms/store.ts and the handlers of socketHandlers.ts.        *)
(*                                                                         *)
(* A handler runs alone until it awaits Redis or the revocation of a TURN  *)
(* credential; other messages, disconnects and sweeps happen in between.   *)
(* `waiting` holds the handlers that are at such a point, and what they    *)
(* have already read.                                                      *)
(*                                                                         *)
(* A client sends the device id of its browser with every message          *)
(* (DeviceOf); resume tokens, snapshots and the moves of a game are left   *)
(* to other modules.  Room codes are drawn at random from 31^5: here a     *)
(* room is known by its number in the order of creation, which is the      *)
(* order in which the server goes through its rooms.                       *)
(***************************************************************************)
EXTENDS Integers, FiniteSets, FiniteSetsExt

CONSTANTS
  Humans, Bots,   \* device ids of browsers, and those drawn for bots
  Sockets,        \* connections: each is used once
  DeviceOf,       \* the browser that opens a connection
  MaxPlayers,     \* MAX_PLAYERS: 6
  MaxActive,      \* MAX_ACTIVE_ROOMS: 20
  MaxRooms,       \* bound: rooms ever created
  MaxWaiting,     \* bound: handlers that wait at the same time
  Nobody          \* no socket, no device

Devices == Humans \cup Bots
RoomIds == 1..MaxRooms
Steps == {"idle", "release", "write", "leave", "evict", "exit"}

ASSUME DevicesAssumption == Humans \cap Bots = {} /\ Nobody \notin Devices \cup Sockets
ASSUME SocketsAssumption == DeviceOf \in [Sockets -> Humans]
ASSUME LimitsAssumption ==
  MaxPlayers \in Nat \ {0} /\ MaxActive \in Nat /\ MaxRooms \in Nat /\ MaxWaiting \in Nat

VARIABLES
  rooms,     \* the rooms in memory, by number
  created,   \* how many rooms were ever created
  up,        \* connected sockets
  bound,     \* socket.data: the room a socket is bound to, or 0
  waiting    \* the handlers at an await

rvars == <<rooms, created, up, bound, waiting>>

Seat == [socket : Sockets \cup {Nobody}, away : {"no", "recent", "expired"}, joined : Nat]
Idle == [at |-> "idle", sock |-> Nobody, room |-> 0, goal |-> 0, others |-> {}]

Open == DOMAIN rooms
Ids(r) == DOMAIN r.players
IsBot(d) == d \in Bots
Active(r) == {d \in Ids(r) : IsBot(d) \/ r.players[d].socket # Nobody}
Present(r) == {d \in Ids(r) : r.players[d].socket # Nobody}

\* toPublicRoom: the host is the connected player who joined first.
Host(r) ==
  IF Present(r) = {} THEN Nobody
  ELSE CHOOSE d \in Present(r) :
         \A e \in Present(r) : r.players[d].joined <= r.players[e].joined

\* joinedAt only orders the players: it is kept as a rank.
Ranked(ps) ==
  [d \in DOMAIN ps |->
     [ps[d] EXCEPT !.joined = Cardinality({e \in DOMAIN ps : ps[e].joined <= ps[d].joined})]]
Unseat(ps, gone) == Ranked([d \in DOMAIN ps \ gone |-> ps[d]])
SeatNewest(ps, d, s) ==
  [e \in DOMAIN ps \cup {d} |->
     IF e = d THEN [socket |-> s, away |-> "no", joined |-> Cardinality(DOMAIN ps) + 1] ELSE ps[e]]
\* A player comes back over a connection, or (Nobody) is disconnected.
Attach(ps, d, s) ==
  [ps EXCEPT ![d] = [@ EXCEPT !.socket = s, !.away = IF s = Nobody THEN "recent" ELSE "no"]]
GoAway(r, d) == [r EXCEPT !.players = Attach(@, d, Nobody)]

\* What becomes of the open rooms when room n changes, or closes.
With(n, r) == [rooms EXCEPT ![n] = r]
Without(n) == [m \in Open \ {n} |-> rooms[m]]
\* (mutant) the last player leaves an empty room behind.
AlwaysWith(n, r) == With(n, r)
WithOrWithout(n, r) == IF Ids(r) = {} THEN Without(n) ELSE With(n, r)

\* A handler waits at step `at`; `others` are the sockets it has still to deal with.
Free == {i \in 1..MaxWaiting : waiting[i] = Idle}
Wait(i, at, s, n, goal, others) ==
  waiting' = [waiting EXCEPT ![i] =
                [at |-> at, sock |-> s, room |-> n, goal |-> goal, others |-> others]]
Done(i) == waiting' = [waiting EXCEPT ![i] = Idle]

\* socketOwnsMembership.
Owns(s, n) ==
  /\ s \in up /\ bound[s] = n /\ n \in Open
  /\ DeviceOf[s] \in Ids(rooms[n]) /\ rooms[n].players[DeviceOf[s]].socket = s
IsHost(s, n) == Owns(s, n) /\ Host(rooms[n]) = DeviceOf[s]

-------------------------------------------------------------------------------
Init ==
  /\ rooms = [n \in {} |-> 0]
  /\ created = 0
  /\ up = Sockets
  /\ bound = [s \in Sockets |-> 0]
  /\ waiting = [i \in 1..MaxWaiting |-> Idle]

\* (mutant) the seat is given up in a game as well.
LeftForGood(r, d) == [r EXCEPT !.players = Unseat(@, {d})]
\* leaveRoom: in a game the player keeps the seat.
Left(r, d) ==
  IF r.status = "playing"
  THEN IF d \in Ids(r) THEN GoAway(r, d) ELSE r
  ELSE [r EXCEPT !.players = Unseat(@, {d})]
RoomsLeft(n, d) == IF n \in Open THEN WithOrWithout(n, Left(rooms[n], d)) ELSE rooms

\* createRoom, and the binding.
CreateNow(s) ==
  /\ created < MaxRooms
  /\ IF Cardinality(Open) >= MaxActive THEN UNCHANGED <<rooms, created, bound>>
     ELSE /\ created' = created + 1
          /\ rooms' = [n \in Open \cup {created + 1} |->
               IF n \in Open THEN rooms[n]
               ELSE [status |-> "lobby", game |-> "none", seats |-> {}, offered |-> Nobody,
                     kicked |-> {}, players |-> SeatNewest([d \in {} |-> 0], DeviceOf[s], s)]]
          /\ bound' = [bound EXCEPT ![s] = created + 1]

\* (mutant) a device that was kicked is let in again.
EverybodyMayJoin(r, d) == TRUE
MayJoin(r, d) == d \notin r.kicked
\* (mutant) the seat stays on offer when its player is back.
BackWithOffer(r, d, s) == [r EXCEPT !.players = Attach(@, d, s)]
Back(r, d, s) ==
  [r EXCEPT !.players = Attach(@, d, s), !.offered = IF @ = d THEN Nobody ELSE @]
Replaced(r, d, s) ==
  [r EXCEPT !.players = SeatNewest(Unseat(@, {r.offered}), d, s),
            !.seats = (@ \ {r.offered}) \cup {d},
            !.kicked = @ \cup {r.offered},
            !.offered = Nobody]

\* joinRoom as room:join calls it: a player who is back, a newcomer who takes the seat
\* on offer, a newcomer in the lobby, or nobody.
CanReplace(r) == r.offered \in Ids(r) /\ r.players[r.offered].socket = Nobody
Joined(r, d, s) ==
  IF d \in Ids(r) THEN Back(r, d, s)
  ELSE IF r.status = "playing" THEN Replaced(r, d, s)
  ELSE [r EXCEPT !.players = SeatNewest(@, d, s)]
Joins(n, d) ==
  /\ n \in Open /\ MayJoin(rooms[n], d)
  /\ \/ d \in Ids(rooms[n])
     \/ rooms[n].status = "playing" /\ CanReplace(rooms[n])
     \/ rooms[n].status = "lobby" /\ Cardinality(Ids(rooms[n])) < MaxPlayers

\* The socket that had the seat before is evicted once the snapshot is written.
JoinNow(i, s, n) ==
  LET d == DeviceOf[s]
      earlier == IF d \in Ids(rooms[n]) THEN {rooms[n].players[d].socket} \ {s, Nobody} ELSE {}
  IN
  /\ UNCHANGED created
  /\ IF Joins(n, d)
     THEN /\ rooms' = With(n, Joined(rooms[n], d, s))
          /\ bound' = [bound EXCEPT ![s] = n]
          /\ IF earlier = {} THEN Done(i) ELSE Wait(i, "evict", s, 0, 0, earlier)
     ELSE UNCHANGED <<rooms, bound>> /\ Done(i)

-------------------------------------------------------------------------------
(* Messages that wait.                                                     *)

\* room:create and room:join (goal 0 and the room to join) of a socket that has
\* left the lobby it was bound to, or was bound to none.
Proceed(i, s, goal) ==
  IF goal = 0 THEN CreateNow(s) /\ Done(i) ELSE JoinNow(i, s, goal)

\* releaseLobbyMembership up to its first await; it refuses to leave a game.
MoveTo(s, goal) ==
  /\ s \in up /\ Free # {}
  /\ LET i == Min(Free) IN
     IF bound[s] = 0 \/ (goal # 0 /\ bound[s] = goal)
     THEN Proceed(i, s, goal)
     ELSE /\ ~(bound[s] \in Open /\ rooms[bound[s]].status = "playing")
          /\ Wait(i, "release", s, bound[s], goal, {})
          /\ UNCHANGED <<rooms, created, bound>>
  /\ UNCHANGED up

Create(s) == MoveTo(s, 0)
Join(s, n) == n <= created /\ MoveTo(s, n)

\* Its second part leaves the lobby, or whatever the room has become meanwhile.
Release(i) ==
  LET h == waiting[i] IN
  /\ h.at = "release"
  /\ rooms' = RoomsLeft(h.room, DeviceOf[h.sock])
  /\ bound' = [bound EXCEPT ![h.sock] = 0]
  /\ Wait(i, "write", h.sock, 0, h.goal, {})
  /\ UNCHANGED <<created, up>>

AfterRelease(i) ==
  /\ waiting[i].at = "write"
  /\ Proceed(i, waiting[i].sock, waiting[i].goal)
  /\ UNCHANGED up

\* room:leave.
Leave(s) ==
  /\ Owns(s, bound[s]) /\ Free # {}
  /\ Wait(Min(Free), "leave", s, bound[s], 0, {})
  /\ UNCHANGED <<rooms, created, up, bound>>

LeaveDone(i) ==
  LET h == waiting[i] IN
  /\ h.at = "leave"
  /\ rooms' = RoomsLeft(h.room, DeviceOf[h.sock])
  /\ bound' = [bound EXCEPT ![h.sock] = 0]
  /\ Done(i)
  /\ UNCHANGED <<created, up>>

\* markSocketDisconnected: the first room in which the socket has a seat.
SeatedIn(s) == {n \in Open : \E d \in Ids(rooms[n]) : rooms[n].players[d].socket = s}
RoomsWithout(s) ==
  IF SeatedIn(s) = {} THEN rooms
  ELSE LET n == Min(SeatedIn(s))
           d == CHOOSE e \in Ids(rooms[n]) : rooms[n].players[e].socket = s
       IN With(n, GoAway(rooms[n], d))

\* room:kick, up to the revocation.
Kicked(r, t) ==
  LET barred == [r EXCEPT !.kicked = @ \cup {t}] IN
  IF r.status = "playing" THEN GoAway(barred, t)
  ELSE [barred EXCEPT !.players = Unseat(@, {t})]
Kick(s, t) ==
  LET n == bound[s] IN
  /\ IsHost(s, n) /\ t # DeviceOf[s] /\ t \in Ids(rooms[n]) /\ Free # {}
  /\ rooms' = With(n, Kicked(rooms[n], t))
  /\ LET victim == {rooms[n].players[t].socket} \ {Nobody}
     IN IF victim = {} THEN UNCHANGED waiting ELSE Wait(Min(Free), "evict", s, 0, 0, victim)
  /\ UNCHANGED <<created, up, bound>>

\* The end of room:kick and of a join that took over a seat: the socket that lost the
\* seat is unbound and disconnected, if it is still there.
Evict(i) ==
  LET h == waiting[i] IN
  /\ h.at = "evict"
  /\ \E s \in h.others :
       IF s \in up
       THEN /\ up' = up \ {s}
            /\ bound' = [bound EXCEPT ![s] = 0]
            /\ rooms' = RoomsWithout(s)
       ELSE UNCHANGED <<rooms, up, bound>>
  /\ Done(i)
  /\ UNCHANGED created

\* game:exit deletes the room and unbinds its players one by one, with a revocation
\* before each.
Exit(s) ==
  LET n == bound[s] IN
  /\ IsHost(s, n) /\ rooms[n].game = "end" /\ Free # {}
  /\ rooms' = Without(n)
  /\ Wait(Min(Free), "exit", s, 0, 0, {rooms[n].players[d].socket : d \in Present(rooms[n])})
  /\ UNCHANGED <<created, up, bound>>

ExitNext(i) ==
  LET h == waiting[i] IN
  /\ h.at = "exit"
  /\ \E s \in h.others :
       /\ bound' = [bound EXCEPT ![s] = IF s \in up THEN 0 ELSE @]
       /\ IF h.others = {s} THEN Done(i)
          ELSE Wait(i, "exit", h.sock, 0, 0, h.others \ {s})
  /\ UNCHANGED <<rooms, created, up>>

-------------------------------------------------------------------------------
(* Messages that are handled at once; a later revocation changes no room.  *)

HostMessage(s) == IsHost(s, bound[s]) /\ UNCHANGED <<created, up, bound, waiting>>

\* startRoom: in the lobby or not, with the players who are connected.
Started(r) ==
  [r EXCEPT !.players = Unseat(@, Ids(r) \ Active(r)), !.status = "playing",
            !.game = "on", !.seats = Active(r)]
Start(s) ==
  LET r == rooms[bound[s]] IN
  /\ HostMessage(s)
  /\ Cardinality(Active(r)) \in 2..MaxPlayers
  /\ rooms' = With(bound[s], Started(r))

FreshBot(b) == \A n \in Open : b \notin Ids(rooms[n]) \cup rooms[n].kicked
AddBot(s, b) ==
  LET r == rooms[bound[s]] IN
  /\ HostMessage(s)
  /\ r.status = "lobby" /\ Cardinality(Ids(r)) < MaxPlayers /\ FreshBot(b)
  /\ rooms' = With(bound[s], [r EXCEPT !.players = SeatNewest(@, b, Nobody)])

\* (mutant) a player who is connected can be taken out of the game.
AnySeat(r, t) == TRUE
SeatIsEmpty(r, t) == r.players[t].socket = Nobody
SeatRemoved(r, t) ==
  [r EXCEPT !.players = Unseat(@, {t}), !.seats = @ \ {t}, !.kicked = @ \cup {t},
            !.offered = IF @ = t THEN Nobody ELSE @]
\* room:remove-seat, and room:remove-bot in a game.
RemoveSeat(s, t) ==
  LET r == rooms[bound[s]] IN
  /\ HostMessage(s)
  /\ r.status = "playing" /\ t # DeviceOf[s] /\ t \in Ids(r)
  /\ SeatIsEmpty(r, t)
  /\ Cardinality(Ids(r)) > 2
  /\ rooms' = With(bound[s], SeatRemoved(r, t))

RemoveBot(s, t) ==
  LET r == rooms[bound[s]] IN
  /\ HostMessage(s)
  /\ r.status = "lobby" /\ t \in Ids(r) /\ IsBot(t)
  /\ rooms' = With(bound[s], [r EXCEPT !.players = Unseat(@, {t})])

\* botTakeover: the bot gets the player's place among the others.
InPlaceOf(ps, t, b) ==
  [d \in (DOMAIN ps \ {t}) \cup {b} |->
     IF d = b THEN [socket |-> Nobody, away |-> "no", joined |-> ps[t].joined] ELSE ps[d]]
TakenOver(r, t, b) ==
  [r EXCEPT !.players = InPlaceOf(@, t, b),
            !.seats = (@ \ {t}) \cup {b},
            !.kicked = @ \cup {t},
            !.offered = IF @ = t THEN Nobody ELSE @]
BotTakeover(s, t, b) ==
  LET r == rooms[bound[s]] IN
  /\ HostMessage(s)
  /\ r.status = "playing" /\ t \in Ids(r) /\ ~IsBot(t) /\ FreshBot(b)
  /\ SeatIsEmpty(r, t)
  /\ rooms' = With(bound[s], TakenOver(r, t, b))

\* setReplacementSeat: the next newcomer gets this seat; Nobody takes it back.
OfferSeat(s, t) ==
  LET r == rooms[bound[s]] IN
  /\ HostMessage(s)
  /\ r.status = "playing" /\ t # DeviceOf[s]
  /\ t = Nobody \/ (t \in Ids(r) /\ SeatIsEmpty(r, t))
  /\ rooms' = With(bound[s], [r EXCEPT !.offered = t])

\* game:new and game:continue.
Again(s) ==
  LET r == rooms[bound[s]] IN
  /\ HostMessage(s)
  /\ r.game = "end"
  /\ rooms' = With(bound[s], [r EXCEPT !.game = "on"])

-------------------------------------------------------------------------------
(* What happens by itself.                                                 *)

\* The moves of a game, of which only the last one matters here.
GameEnds(n) ==
  /\ n \in Open /\ rooms[n].game = "on"
  /\ rooms' = With(n, [rooms[n] EXCEPT !.game = "end"])
  /\ UNCHANGED <<created, up, bound, waiting>>

\* A socket that is gone sends nothing more: its binding is forgotten.
Disconnect(s) ==
  /\ s \in up
  /\ up' = up \ {s}
  /\ bound' = [bound EXCEPT ![s] = 0]
  /\ rooms' = RoomsWithout(s)
  /\ UNCHANGED <<created, waiting>>

\* Ten minutes have passed since a player was disconnected.
GracePasses(n, d) ==
  /\ n \in Open /\ d \in Ids(rooms[n]) /\ rooms[n].players[d].away = "recent"
  /\ rooms' = With(n, [rooms[n] EXCEPT !.players[d].away = "expired"])
  /\ UNCHANGED <<created, up, bound, waiting>>

\* sweepStaleRooms.
Gone(r, d) == ~IsBot(d) /\ r.players[d].socket = Nobody /\ r.players[d].away = "expired"
Swept(r) ==
  IF r.status = "lobby" THEN [r EXCEPT !.players = Unseat(@, {d \in Ids(r) : Gone(r, d)})] ELSE r
\* (mutant) a room goes when it is empty, and a game never is.
OnlyEmpty(r) == Ids(r) = {}
Abandoned(r) == \A d \in Ids(r) \ Bots : Gone(r, d)
Sweep ==
  /\ rooms' = [n \in {m \in Open : ~Abandoned(Swept(rooms[m]))} |-> Swept(rooms[n])]
  /\ UNCHANGED <<created, up, bound, waiting>>

Message(s) ==
  \/ Create(s) \/ Leave(s) \/ Exit(s) \/ Start(s) \/ Again(s) \/ OfferSeat(s, Nobody)
  \/ \E n \in RoomIds : Join(s, n)
  \/ \E t \in Devices : Kick(s, t) \/ RemoveSeat(s, t) \/ RemoveBot(s, t) \/ OfferSeat(s, t)
  \/ \E b \in Bots : AddBot(s, b) \/ \E t \in Humans : BotTakeover(s, t, b)
Continue(i) == Release(i) \/ AfterRelease(i) \/ LeaveDone(i) \/ Evict(i) \/ ExitNext(i)
Next ==
  \/ \E s \in Sockets : Message(s) \/ Disconnect(s)
  \/ \E i \in 1..MaxWaiting : Continue(i)
  \/ \E n \in RoomIds : GameEnds(n) \/ \E d \in Devices : GracePasses(n, d)
  \/ Sweep

Spec == Init /\ [][Next]_rvars

\* Every await ends (Redis and the revocation have timeouts), time passes and the
\* sweep runs every minute.  Nobody has to send anything, and games need not end.
FairSpec ==
  /\ Spec
  /\ \A i \in 1..MaxWaiting : WF_rvars(Continue(i))
  /\ \A n \in RoomIds, d \in Devices : WF_rvars(GracePasses(n, d))
  /\ WF_rvars(Sweep)

-------------------------------------------------------------------------------
(* Properties.                                                             *)

IsRoom(r) ==
  /\ r \in [status : {"lobby", "playing"}, game : {"none", "on", "end"},
            seats : SUBSET Devices, offered : Devices \cup {Nobody}, kicked : SUBSET Devices,
            players : {r.players}]
  /\ Ids(r) \subseteq Devices /\ r.players \in [Ids(r) -> Seat]
Handler == [at : Steps, sock : Sockets \cup {Nobody}, room : 0..MaxRooms, goal : 0..MaxRooms,
            others : SUBSET Sockets]

\* Type invariant.  A room is never empty and never over its capacity.
TypeOK ==
  /\ created \in 0..MaxRooms /\ Open \subseteq 1..created /\ Cardinality(Open) <= MaxActive
  /\ \A n \in Open :
       /\ IsRoom(rooms[n])
       /\ Cardinality(Ids(rooms[n])) \in 1..MaxPlayers
  /\ up \subseteq Sockets
  /\ bound \in [Sockets -> 0..created]
  /\ waiting \in [1..MaxWaiting -> Handler]

\* The players of a playing room are the seats of its game, whatever joins, leaves,
\* kicks and takeovers ran into each other: kickPlayer (516-518) and leaveRoom (534)
\* keep a player who goes, because the engine could not miss the seat.
SeatsAreGameSeats ==
  \A n \in Open :
    LET r == rooms[n] IN
    /\ r.status = "playing" <=> r.game # "none"
    /\ r.status = "playing" => Ids(r) = r.seats

\* Who was kicked or replaced never has a connected seat in that room again
\* (types.ts:35-37, joinRoom 207).
DepartedStayOut ==
  \A n \in Open : Present(rooms[n]) \cap rooms[n].kicked = {}

\* The seat on offer is never one whose player is connected: a newcomer must not be
\* dealt the hand of somebody who is back at the table (joinRoom 216, 223).
OfferedSeatIsFree ==
  \A n \in Open : rooms[n].offered \notin Present(rooms[n])

\* Nobody who is connected loses the seat in a game while the room exists, whatever
\* the host does with seats (474, 492, 438) and also when it starts again (308-316).
ConnectedPlayersKeepSeats ==
  [][\A n \in Open : n \in DOMAIN rooms' /\ rooms[n].status = "playing" =>
       Present(rooms[n]) \subseteq rooms'[n].seats]_rvars

\* A room nobody will come back to is deleted, bots or not, lobby or game
\* (sweepStaleRooms 584-588): here when every connection is down and known to be.
NobodyLeft(n) ==
  n \in Open /\ up = {} /\ Present(rooms[n]) = {} /\ \A i \in 1..MaxWaiting : waiting[i] = Idle
AbandonedRoomsGo == \A n \in RoomIds : NobodyLeft(n) ~> n \notin Open

\* "abandoned in-progress rooms now get garbage-collected after the grace period
\* instead of leaking forever" (docs/PLAN.md:160-161): when every connection is down,
\* no room in which a game is played stays.  A handler that was waiting while its
\* socket went down seats that socket for good (socketHandlers.ts:353-388).
AbandonedGamesGo ==
  \A n \in RoomIds :
    (up = {} /\ n \in Open /\ rooms[n].status = "playing") ~> n \notin Open
===============================================================================
