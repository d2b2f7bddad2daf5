------------------------------ MODULE RoomsProofs -----------------------------
(***************************************************************************)
(* What is proved of the rooms for any number of browsers, connections,    *)
(* bots, rooms and waiting handlers.                                       *)
(***************************************************************************)
EXTENDS Rooms, FiniteSetTheorems, TLAPS

-------------------------------------------------------------------------------
(* Tables of players.                                                      *)

\* A table of players as a room has it: finitely many devices with a seat each.
IsTable(ps) ==
  /\ DOMAIN ps \subseteq Devices /\ IsFiniteSet(DOMAIN ps)
  /\ ps \in [DOMAIN ps -> Seat]

\* The connection of a player.
SocketOf(ps, d) == ps[d].socket

\* Ranking by the time of joining changes nobody's connection.
LEMMA RankedTable ==
  ASSUME NEW ps, IsTable(ps)
  PROVE  /\ IsTable(Ranked(ps)) /\ DOMAIN Ranked(ps) = DOMAIN ps
         /\ \A d \in DOMAIN ps : SocketOf(Ranked(ps), d) = SocketOf(ps, d)
<1> DEFINE rank(d) == Cardinality({e \in DOMAIN ps : ps[e].joined <= ps[d].joined})
<1>1. \A d \in DOMAIN ps : rank(d) \in Nat
  <2> TAKE d \in DOMAIN ps
  <2>1. IsFiniteSet({e \in DOMAIN ps : ps[e].joined <= ps[d].joined})
    BY FS_Subset DEF IsTable
  <2> QED BY <2>1, FS_CardinalityType
<1>2. Ranked(ps) = [d \in DOMAIN ps |-> [ps[d] EXCEPT !.joined = rank(d)]]
  BY DEF Ranked
<1>3. \A d \in DOMAIN ps : ps[d] \in Seat
  BY DEF IsTable
<1> HIDE DEF rank
<1>4. \A d \in DOMAIN ps : Ranked(ps)[d] \in Seat /\ SocketOf(Ranked(ps), d) = SocketOf(ps, d)
  BY <1>1, <1>2, <1>3 DEF Seat, SocketOf
<1> QED BY <1>2, <1>4 DEF IsTable

\* Taking devices out of a table changes nobody else's connection.
LEMMA UnseatTable ==
  ASSUME NEW ps, IsTable(ps), NEW gone
  PROVE  /\ IsTable(Unseat(ps, gone)) /\ DOMAIN Unseat(ps, gone) = DOMAIN ps \ gone
         /\ \A d \in DOMAIN ps \ gone : SocketOf(Unseat(ps, gone), d) = SocketOf(ps, d)
         /\ Cardinality(DOMAIN Unseat(ps, gone)) <= Cardinality(DOMAIN ps)
<1> DEFINE left == [d \in DOMAIN ps \ gone |-> ps[d]]
<1>1. IsFiniteSet(DOMAIN ps \ gone) /\ Cardinality(DOMAIN ps \ gone) <= Cardinality(DOMAIN ps)
  BY FS_Subset DEF IsTable
<1>2. IsTable(left) /\ DOMAIN left = DOMAIN ps \ gone
  BY <1>1 DEF IsTable
<1>3. Unseat(ps, gone) = Ranked(left)
  BY DEF Unseat
<1>4. \A d \in DOMAIN ps \ gone : SocketOf(left, d) = SocketOf(ps, d)
  BY DEF SocketOf
<1> HIDE DEF left
<1> QED BY <1>1, <1>2, <1>3, <1>4, RankedTable

\* A newcomer gets a seat and changes nobody else's.
LEMMA SeatNewestTable ==
  ASSUME NEW ps, IsTable(ps), NEW d \in Devices, NEW s \in Sockets \cup {Nobody}
  PROVE  /\ IsTable(SeatNewest(ps, d, s)) /\ DOMAIN SeatNewest(ps, d, s) = DOMAIN ps \cup {d}
         /\ SocketOf(SeatNewest(ps, d, s), d) = s
         /\ \A e \in DOMAIN ps \ {d} : SocketOf(SeatNewest(ps, d, s), e) = SocketOf(ps, e)
         /\ Cardinality(DOMAIN SeatNewest(ps, d, s))
              = IF d \in DOMAIN ps THEN Cardinality(DOMAIN ps) ELSE Cardinality(DOMAIN ps) + 1
<1> DEFINE c == Cardinality(DOMAIN ps) + 1
           new == [socket |-> s, away |-> "no", joined |-> c]
<1>1. c \in Nat
  BY FS_CardinalityType DEF IsTable
<1>2. new \in Seat
  BY <1>1 DEF Seat
<1>3. SeatNewest(ps, d, s) = [e \in DOMAIN ps \cup {d} |-> IF e = d THEN new ELSE ps[e]]
  BY DEF SeatNewest
<1>4. new.socket = s
  OBVIOUS
<1> HIDE DEF new
<1>5. SeatNewest(ps, d, s) \in [DOMAIN ps \cup {d} -> Seat]
  BY <1>2, <1>3 DEF IsTable
<1>6. /\ IsFiniteSet(DOMAIN ps \cup {d})
      /\ Cardinality(DOMAIN ps \cup {d})
           = IF d \in DOMAIN ps THEN Cardinality(DOMAIN ps) ELSE Cardinality(DOMAIN ps) + 1
  BY FS_AddElement DEF IsTable
<1> QED BY <1>3, <1>4, <1>5, <1>6 DEF IsTable, SocketOf

\* Attaching a connection to a seat, or none, changes nobody else's connection.
LEMMA AttachTable ==
  ASSUME NEW ps, IsTable(ps), NEW d, NEW s \in Sockets \cup {Nobody}
  PROVE  /\ IsTable(Attach(ps, d, s)) /\ DOMAIN Attach(ps, d, s) = DOMAIN ps
         /\ \A e \in DOMAIN ps : SocketOf(Attach(ps, d, s), e) = IF e = d THEN s ELSE SocketOf(ps, e)
<1> DEFINE a == IF s = Nobody THEN "recent" ELSE "no"
           seat == [ps[d] EXCEPT !.socket = s, !.away = a]
<1>1. \A e \in DOMAIN ps : ps[e] \in Seat
  BY DEF IsTable
<1>2. a \in {"no", "recent", "expired"}
  OBVIOUS
<1> HIDE DEF a
<1>3. d \in DOMAIN ps => seat \in Seat /\ seat.socket = s
  BY <1>1, <1>2 DEF Seat
<1>4. Attach(ps, d, s) = [ps EXCEPT ![d] = seat]
  BY DEF Attach, a
<1> HIDE DEF seat
<1>5. \A e \in DOMAIN ps :
        Attach(ps, d, s)[e] = IF e = d THEN seat ELSE ps[e]
  BY <1>4
<1>6. Attach(ps, d, s) \in [DOMAIN ps -> Seat] /\ DOMAIN Attach(ps, d, s) = DOMAIN ps
  BY <1>1, <1>3, <1>4, <1>5 DEF IsTable
<1> QED BY <1>3, <1>5, <1>6 DEF IsTable, SocketOf

\* All tables, and all records a room can be.
Tables == UNION {[D -> Seat] : D \in SUBSET Devices}
Room ==
  [status : {"lobby", "playing"}, game : {"none", "on", "end"},
   seats : SUBSET Devices, offered : Devices \cup {Nobody}, kicked : SUBSET Devices,
   players : Tables]

\* Tables have their type.
LEMMA TableType == ASSUME NEW ps, IsTable(ps) PROVE ps \in Tables
BY DEF IsTable, Tables

\* The type a room has in Rooms.
LEMMA RoomType == ASSUME NEW r \in Room PROVE IsRoom(r)
<1>1. r.players \in Tables
  BY DEF Room
<1>2. Ids(r) \subseteq Devices /\ r.players \in [Ids(r) -> Seat]
  BY <1>1 DEF Tables, Ids
<1>3. r \in [status : {"lobby", "playing"}, game : {"none", "on", "end"},
             seats : SUBSET Devices, offered : Devices \cup {Nobody}, kicked : SUBSET Devices,
             players : {r.players}]
  BY DEF Room
<1> QED BY <1>2, <1>3 DEF IsRoom

-------------------------------------------------------------------------------
(* Rooms.                                                                  *)

\* A room while it is changed: it may be empty, otherwise all is well.
RoomShape(r) ==
  /\ r \in Room /\ IsTable(r.players) /\ Cardinality(Ids(r)) <= MaxPlayers
  /\ r.status = "playing" <=> r.game # "none"
  /\ r.status = "playing" => Ids(r) = r.seats
  /\ r.status = "lobby" => r.offered = Nobody
  /\ r.offered \notin Present(r)
  /\ Present(r) \cap r.kicked = {}
\* A room as everybody sees it.
RoomInv(r) == RoomShape(r) /\ Ids(r) # {}

\* GoAway is markSocketDisconnected's and leaveRoom's way to vacate a seat.
LEMMA GoAwayShape ==
  ASSUME NEW r, RoomShape(r), NEW d
  PROVE  RoomShape(GoAway(r, d)) /\ Ids(GoAway(r, d)) = Ids(r)
         /\ Present(GoAway(r, d)) = Present(r) \ {d}
         /\ GoAway(r, d).status = r.status /\ GoAway(r, d).seats = r.seats
<1> DEFINE ps == Attach(r.players, d, Nobody)
           s == GoAway(r, d)
<1>1. /\ IsTable(ps) /\ ps \in Tables /\ DOMAIN ps = DOMAIN r.players
      /\ \A e \in DOMAIN r.players : SocketOf(ps, e) = IF e = d THEN Nobody ELSE SocketOf(r.players, e)
  BY AttachTable, TableType DEF RoomShape
<1> HIDE DEF ps
<1>2. /\ s \in Room /\ s.players = ps /\ s.status = r.status /\ s.game = r.game
      /\ s.seats = r.seats /\ s.offered = r.offered /\ s.kicked = r.kicked
  BY <1>1 DEF GoAway, RoomShape, Room, ps
<1> HIDE DEF s
<1>3. RoomShape(s) /\ Ids(s) = Ids(r) /\ Present(s) = Present(r) \ {d}
  BY <1>1, <1>2 DEF RoomShape, Ids, Present, SocketOf
<1> QED BY <1>2, <1>3 DEF s

\* Taking devices out of a lobby leaves a lobby, perhaps an empty one.
LEMMA UnseatShape ==
  ASSUME NEW r, RoomShape(r), r.status = "lobby", NEW gone
  PROVE  LET s == [r EXCEPT !.players = Unseat(@, gone)]
         IN  RoomShape(s) /\ Ids(s) = Ids(r) \ gone /\ s.status = "lobby"
<1> DEFINE ps == Unseat(r.players, gone)
           s == [r EXCEPT !.players = Unseat(@, gone)]
<1>1. /\ IsTable(ps) /\ ps \in Tables /\ DOMAIN ps = DOMAIN r.players \ gone
      /\ \A d \in DOMAIN r.players \ gone : SocketOf(ps, d) = SocketOf(r.players, d)
      /\ Cardinality(DOMAIN ps) <= Cardinality(DOMAIN r.players)
  BY UnseatTable, TableType DEF RoomShape
<1>2. Cardinality(DOMAIN ps) \in Int /\ Cardinality(DOMAIN r.players) \in Int /\ MaxPlayers \in Int
  BY <1>1, FS_CardinalityType, LimitsAssumption DEF IsTable, RoomShape
<1> HIDE DEF ps
<1>3. /\ s \in Room /\ s.players = ps /\ s.status = r.status /\ s.game = r.game
      /\ s.seats = r.seats /\ s.offered = r.offered /\ s.kicked = r.kicked
  BY <1>1 DEF RoomShape, Room, ps
<1> HIDE DEF s
<1>4. RoomShape(s) /\ Ids(s) = Ids(r) \ gone /\ s.status = "lobby"
  BY <1>1, <1>2, <1>3 DEF RoomShape, Ids, Present, SocketOf
<1> QED BY <1>4 DEF s

\* A player who is back.
LEMMA BackInv ==
  ASSUME NEW r, RoomInv(r), NEW d \in Humans, d \in Ids(r), MayJoin(r, d), NEW s \in Sockets
  PROVE  RoomInv(Back(r, d, s)) /\ Back(r, d, s).seats = r.seats
<1> DEFINE ps == Attach(r.players, d, s)
           of == IF r.offered = d THEN Nobody ELSE r.offered
           b == Back(r, d, s)
<1>1. /\ IsTable(ps) /\ ps \in Tables /\ DOMAIN ps = DOMAIN r.players
      /\ \A e \in DOMAIN r.players : SocketOf(ps, e) = IF e = d THEN s ELSE SocketOf(r.players, e)
  BY AttachTable, TableType DEF RoomInv, RoomShape
<1>2. /\ of \in Devices \cup {Nobody} /\ of \notin Present(r) \cup {d}
      /\ r.status = "lobby" => of = Nobody
  BY DevicesAssumption DEF Devices, RoomInv, RoomShape, Room, Present, Ids, IsTable, SocketOf
<1> HIDE DEF ps, of
<1>3. /\ b \in Room /\ b.players = ps /\ b.status = r.status /\ b.game = r.game
      /\ b.seats = r.seats /\ b.offered = of /\ b.kicked = r.kicked
  BY <1>1, <1>2 DEF Back, RoomInv, RoomShape, Room, ps, of
<1> HIDE DEF b
<1>4. Present(b) \subseteq Present(r) \cup {d} /\ Ids(b) = Ids(r)
  BY <1>1, <1>3 DEF Present, Ids, SocketOf
<1>5. RoomInv(b)
  BY <1>1, <1>2, <1>3, <1>4, DevicesAssumption DEF RoomInv, RoomShape, Ids, MayJoin
<1> QED BY <1>3, <1>5 DEF b

\* A newcomer who takes the seat on offer: Replaced keeps the seats of the game in step.
LEMMA ReplacedInv ==
  ASSUME NEW r, RoomInv(r), r.status = "playing", CanReplace(r),
         NEW d \in Humans, d \notin Ids(r), MayJoin(r, d), NEW s \in Sockets
  PROVE  RoomInv(Replaced(r, d, s)) /\ Present(r) \subseteq Replaced(r, d, s).seats
<1>0. d \in Devices /\ s \in Sockets \cup {Nobody} /\ s # Nobody
  BY DevicesAssumption DEF Devices
<1>a. IsTable(r.players)
  BY DEF RoomInv, RoomShape
<1>b. PICK left : left = Unseat(r.players, {r.offered})
  OBVIOUS
<1>c. PICK ps : ps = SeatNewest(left, d, s)
  OBVIOUS
<1> DEFINE q == Replaced(r, d, s)
<1>1. /\ IsTable(left) /\ DOMAIN left = DOMAIN r.players \ {r.offered}
      /\ \A e \in DOMAIN r.players \ {r.offered} : SocketOf(left, e) = SocketOf(r.players, e)
  BY <1>a, <1>b, UnseatTable
<1>n. /\ IsTable(ps) /\ DOMAIN ps = DOMAIN left \cup {d} /\ SocketOf(ps, d) = s
      /\ \A e \in DOMAIN left \ {d} : SocketOf(ps, e) = SocketOf(left, e)
      /\ Cardinality(DOMAIN ps)
           = IF d \in DOMAIN left THEN Cardinality(DOMAIN left) ELSE Cardinality(DOMAIN left) + 1
  <2>1. IsTable(left)
    BY <1>1
  <2>2. d \in Devices /\ s \in Sockets \cup {Nobody}
    BY <1>0
  <2>3. /\ IsTable(SeatNewest(left, d, s)) /\ DOMAIN SeatNewest(left, d, s) = DOMAIN left \cup {d}
        /\ SocketOf(SeatNewest(left, d, s), d) = s
        /\ \A e \in DOMAIN left \ {d} : SocketOf(SeatNewest(left, d, s), e) = SocketOf(left, e)
        /\ Cardinality(DOMAIN SeatNewest(left, d, s))
             = IF d \in DOMAIN left THEN Cardinality(DOMAIN left) ELSE Cardinality(DOMAIN left) + 1
    BY <2>1, <2>2, SeatNewestTable
  <2> QED BY <1>c, <2>3
<1>2. /\ IsTable(ps) /\ ps \in Tables /\ DOMAIN ps = (DOMAIN r.players \ {r.offered}) \cup {d}
      /\ SocketOf(ps, d) = s
      /\ \A e \in DOMAIN r.players \ {r.offered, d} : SocketOf(ps, e) = SocketOf(r.players, e)
  BY <1>1, <1>n, TableType
<1>3. Cardinality(DOMAIN ps) = Cardinality(DOMAIN r.players)
  <2>1. IsFiniteSet(DOMAIN r.players) /\ r.offered \in DOMAIN r.players /\ d \notin DOMAIN r.players
    BY DEF RoomInv, RoomShape, IsTable, CanReplace, Ids
  <2>2. Cardinality(DOMAIN left) = Cardinality(DOMAIN r.players) - 1
    BY <1>1, <2>1, FS_RemoveElement
  <2>3. Cardinality(DOMAIN ps) = Cardinality(DOMAIN left) + 1
    BY <1>1, <1>n, <2>1
  <2> QED BY <2>1, <2>2, <2>3, FS_CardinalityType
<1>4. r.offered \in Devices /\ r.offered \in Ids(r)
  BY DEF RoomInv, RoomShape, IsTable, CanReplace, Ids
<1>5. /\ q \in Room /\ q.players = ps /\ q.status = r.status /\ q.game = r.game
      /\ q.seats = (r.seats \ {r.offered}) \cup {d}
      /\ q.offered = Nobody /\ q.kicked = r.kicked \cup {r.offered}
  <2>1. (r.seats \ {r.offered}) \cup {d} \in SUBSET Devices
        /\ r.kicked \cup {r.offered} \in SUBSET Devices /\ Nobody \in Devices \cup {Nobody}
    BY <1>0, <1>4 DEF RoomInv, RoomShape, Room
  <2> QED BY <1>2, <1>b, <1>c, <2>1 DEF Replaced, RoomInv, RoomShape, Room
<1> HIDE DEF q
<1>6. Ids(q) = (Ids(r) \ {r.offered}) \cup {d} /\ Present(q) \subseteq (Present(r) \ {r.offered}) \cup {d}
  BY <1>2, <1>5 DEF Ids, Present, SocketOf
<1>7. Nobody \notin Present(q)
  BY <1>5, DevicesAssumption DEF Present, Ids, Room, Tables, SocketOf
<1>8. RoomInv(q)
  BY <1>0, <1>2, <1>3, <1>4, <1>5, <1>6, <1>7 DEF RoomInv, RoomShape, Ids, MayJoin
<1>9. Present(r) \subseteq q.seats
  <2>1. r.offered \notin Present(r) /\ Present(r) \subseteq Ids(r) /\ Ids(r) = r.seats
    BY DEF RoomInv, RoomShape, Present, SocketOf
  <2> QED BY <1>5, <2>1
<1> QED BY <1>8, <1>9 DEF q

\* A newcomer in the lobby, over a connection or (addBot) without one.
LEMMA NewcomerInv ==
  ASSUME NEW r, RoomInv(r), r.status = "lobby", Cardinality(Ids(r)) < MaxPlayers,
         NEW d \in Devices, d \notin Ids(r), d \notin r.kicked, NEW s \in Sockets \cup {Nobody}
  PROVE  RoomInv([r EXCEPT !.players = SeatNewest(@, d, s)])
<1> DEFINE ps == SeatNewest(r.players, d, s)
           q == [r EXCEPT !.players = SeatNewest(@, d, s)]
<1>1. /\ IsTable(ps) /\ ps \in Tables /\ DOMAIN ps = DOMAIN r.players \cup {d}
      /\ SocketOf(ps, d) = s
      /\ \A e \in DOMAIN r.players \ {d} : SocketOf(ps, e) = SocketOf(r.players, e)
      /\ Cardinality(DOMAIN ps) = Cardinality(DOMAIN r.players) + 1
  <2>1. IsTable(r.players) /\ d \notin DOMAIN r.players
    BY DEF RoomInv, RoomShape, Ids
  <2> QED BY <2>1, SeatNewestTable, TableType
<1>2. Cardinality(DOMAIN r.players) \in Int /\ MaxPlayers \in Int
  BY FS_CardinalityType, LimitsAssumption DEF IsTable, RoomInv, RoomShape
<1> HIDE DEF ps
<1>3. /\ q \in Room /\ q.players = ps /\ q.status = r.status /\ q.game = r.game
      /\ q.seats = r.seats /\ q.offered = r.offered /\ q.kicked = r.kicked
  BY <1>1 DEF RoomInv, RoomShape, Room, ps
<1> HIDE DEF q
<1>4. Ids(q) = Ids(r) \cup {d} /\ Present(q) \subseteq Present(r) \cup {d}
  BY <1>1, <1>3 DEF Ids, Present, SocketOf
<1>5. Cardinality(Ids(q)) <= MaxPlayers
  BY <1>1, <1>2, <1>3 DEF Ids
<1>6. q.offered \notin Present(q)
  BY <1>3, <1>4, DevicesAssumption DEF RoomInv, RoomShape
<1>7. RoomInv(q)
  BY <1>1, <1>3, <1>4, <1>5, <1>6 DEF RoomInv, RoomShape, Ids
<1> QED BY <1>7 DEF q

\* Whoever joinRoom lets in, the room is well afterwards and nobody lost a seat.
LEMMA JoinedInv ==
  ASSUME NEW n, n \in Open, RoomInv(rooms[n]), NEW d \in Humans, NEW s \in Sockets, Joins(n, d)
  PROVE  LET q == Joined(rooms[n], d, s) IN
         /\ RoomInv(q)
         /\ rooms[n].status = "playing" => Present(rooms[n]) \subseteq q.seats
<1> DEFINE r == rooms[n]
<1>0. MayJoin(r, d)
  BY DEF Joins
<1>1. CASE d \in Ids(r)
  <2>1. RoomInv(Back(r, d, s)) /\ Back(r, d, s).seats = r.seats
    BY <1>0, <1>1, BackInv
  <2>2. r.status = "playing" => Present(r) \subseteq r.seats
    BY DEF RoomInv, RoomShape, Present, SocketOf
  <2> QED BY <1>1, <2>1, <2>2 DEF Joined
<1>2. CASE d \notin Ids(r) /\ r.status = "playing"
  <2>1. CanReplace(r)
    BY <1>2 DEF Joins
  <2> QED BY <1>0, <1>2, <2>1, ReplacedInv DEF Joined
<1>3. CASE d \notin Ids(r) /\ r.status # "playing"
  <2>1. r.status = "lobby" /\ Cardinality(Ids(r)) < MaxPlayers
    BY <1>3 DEF Joins
  <2>2. d \in Devices /\ d \notin r.kicked /\ s \in Sockets \cup {Nobody}
    BY <1>0, DevicesAssumption DEF Devices, MayJoin
  <2>3. RoomInv([r EXCEPT !.players = SeatNewest(@, d, s)])
    BY <1>3, <2>1, <2>2, NewcomerInv
  <2> QED BY <1>3, <2>3 DEF Joined
<1> QED BY <1>1, <1>2, <1>3

\* leaveRoom keeps the seat in a game and may empty a lobby.
LEMMA LeftShape ==
  ASSUME NEW r, RoomInv(r), NEW d
  PROVE  /\ RoomShape(Left(r, d))
         /\ r.status = "playing" => RoomInv(Left(r, d)) /\ Present(r) \subseteq Left(r, d).seats
<1>1. CASE r.status = "playing"
  <2>1. Present(r) \subseteq r.seats
    BY <1>1 DEF RoomInv, RoomShape, Present
  <2>2. CASE d \in Ids(r)
    <3>1. /\ RoomShape(GoAway(r, d)) /\ Ids(GoAway(r, d)) = Ids(r)
          /\ GoAway(r, d).seats = r.seats
      BY GoAwayShape DEF RoomInv
    <3> QED BY <1>1, <2>1, <2>2, <3>1 DEF Left, RoomInv
  <2>3. CASE d \notin Ids(r)
    BY <1>1, <2>1, <2>3 DEF Left, RoomInv
  <2> QED BY <2>2, <2>3
<1>2. CASE r.status # "playing"
  <2>1. RoomShape(r) /\ r.status = "lobby"
    BY <1>2 DEF RoomInv, RoomShape, Room
  <2>2. RoomShape([r EXCEPT !.players = Unseat(@, {d})])
    BY <2>1, UnseatShape
  <2> QED BY <1>2, <2>2 DEF Left
<1> QED BY <1>1, <1>2

\* kickPlayer bars the player and vacates or removes the seat; somebody else stays.
LEMMA KickedInv ==
  ASSUME NEW r, RoomInv(r), NEW t \in Ids(r), NEW h \in Ids(r), h # t
  PROVE  /\ RoomInv(Kicked(r, t))
         /\ r.status = "playing" => Present(r) \subseteq Kicked(r, t).seats
<1>1. IsTable(r.players) /\ t \in Devices
  BY DEF RoomInv, RoomShape, IsTable, Ids
<1>2. PICK q : q = Kicked(r, t)
  OBVIOUS
<1>3. CASE r.status = "playing"
  <2>1. PICK ps : ps = Attach(r.players, t, Nobody)
    OBVIOUS
  <2>2. /\ IsTable(ps) /\ ps \in Tables /\ DOMAIN ps = DOMAIN r.players
        /\ \A e \in DOMAIN r.players : SocketOf(ps, e) = IF e = t THEN Nobody ELSE SocketOf(r.players, e)
    BY <1>1, <2>1, AttachTable, TableType
  <2>3. /\ q \in Room /\ q.players = ps /\ q.status = r.status /\ q.game = r.game
        /\ q.seats = r.seats /\ q.offered = r.offered /\ q.kicked = r.kicked \cup {t}
    <3>1. r.kicked \cup {t} \in SUBSET Devices
      BY <1>1 DEF RoomInv, RoomShape, Room
    <3> QED BY <1>2, <1>3, <2>1, <2>2, <3>1 DEF Kicked, GoAway, RoomInv, RoomShape, Room
  <2>4. Ids(q) = Ids(r) /\ Present(q) = Present(r) \ {t}
    BY <2>2, <2>3 DEF Ids, Present, SocketOf
  <2>5. RoomInv(q) /\ Present(r) \subseteq q.seats
    BY <1>3, <2>2, <2>3, <2>4 DEF RoomInv, RoomShape, Ids, Present
  <2> QED BY <1>2, <2>5
<1>4. CASE r.status # "playing"
  <2>0. r.status = "lobby"
    BY <1>4 DEF RoomInv, RoomShape, Room
  <2>1. PICK ps : ps = Unseat(r.players, {t})
    OBVIOUS
  <2>2. /\ IsTable(ps) /\ ps \in Tables /\ DOMAIN ps = DOMAIN r.players \ {t}
        /\ \A e \in DOMAIN r.players \ {t} : SocketOf(ps, e) = SocketOf(r.players, e)
        /\ Cardinality(DOMAIN ps) <= Cardinality(DOMAIN r.players)
    BY <1>1, <2>1, UnseatTable, TableType
  <2>3. Cardinality(DOMAIN ps) \in Int /\ Cardinality(DOMAIN r.players) \in Int /\ MaxPlayers \in Int
    BY <1>1, <2>2, FS_CardinalityType, LimitsAssumption DEF IsTable
  <2>4. /\ q \in Room /\ q.players = ps /\ q.status = r.status /\ q.game = r.game
        /\ q.seats = r.seats /\ q.offered = r.offered /\ q.kicked = r.kicked \cup {t}
    <3>1. r.kicked \cup {t} \in SUBSET Devices
      BY <1>1 DEF RoomInv, RoomShape, Room
    <3> QED BY <1>2, <1>4, <2>1, <2>2, <3>1 DEF Kicked, RoomInv, RoomShape, Room
  <2>5. Ids(q) = Ids(r) \ {t} /\ Present(q) = Present(r) \ {t}
    BY <2>2, <2>4 DEF Ids, Present, SocketOf
  <2>6. RoomInv(q)
    BY <2>0, <2>2, <2>3, <2>4, <2>5 DEF RoomInv, RoomShape, Ids
  <2> QED BY <1>2, <1>4, <2>6
<1> QED BY <1>3, <1>4

\* startRoom, in the lobby or in a game: the seats are those who are connected.
LEMMA StartedInv ==
  ASSUME NEW r, RoomInv(r), Cardinality(Active(r)) \in 2..MaxPlayers
  PROVE  RoomInv(Started(r)) /\ Present(r) \subseteq Started(r).seats
<1>1. IsTable(r.players) /\ Active(r) \subseteq DOMAIN r.players
  BY DEF RoomInv, RoomShape, Active, Ids
<1>2. PICK q : q = Started(r)
  OBVIOUS
<1>3. PICK ps : ps = Unseat(r.players, Ids(r) \ Active(r))
  OBVIOUS
<1>4. /\ IsTable(ps) /\ ps \in Tables /\ DOMAIN ps = Active(r)
      /\ \A e \in Active(r) : SocketOf(ps, e) = SocketOf(r.players, e)
  <2>1. DOMAIN r.players \ (Ids(r) \ Active(r)) = Active(r)
    BY <1>1 DEF Ids
  <2> QED BY <1>1, <1>3, <2>1, UnseatTable, TableType
<1>5. /\ q \in Room /\ q.players = ps /\ q.status = "playing" /\ q.game = "on"
      /\ q.seats = Active(r) /\ q.offered = r.offered /\ q.kicked = r.kicked
  <2>1. Active(r) \in SUBSET Devices
    BY <1>1 DEF IsTable
  <2> QED BY <1>2, <1>3, <1>4, <2>1 DEF Started, RoomInv, RoomShape, Room
<1>6. Ids(q) = Active(r) /\ Present(q) = Present(r) /\ Present(r) \subseteq Active(r)
  BY <1>1, <1>4, <1>5 DEF Ids, Present, Active, SocketOf
<1>7. Active(r) # {} /\ Cardinality(Active(r)) <= MaxPlayers
  BY FS_EmptySet, LimitsAssumption
<1>8. RoomInv(q)
  BY <1>4, <1>5, <1>6, <1>7 DEF RoomInv, RoomShape
<1> QED BY <1>2, <1>5, <1>6, <1>8

\* removePlayerFromRoom takes an empty seat out of the room and of the game.
LEMMA SeatRemovedInv ==
  ASSUME NEW r, RoomInv(r), r.status = "playing", NEW t \in Ids(r), SeatIsEmpty(r, t),
         NEW h \in Ids(r), h # t
  PROVE  RoomInv(SeatRemoved(r, t)) /\ Present(r) \subseteq SeatRemoved(r, t).seats
<1>1. IsTable(r.players) /\ t \in Devices /\ t \notin Present(r)
  BY DEF RoomInv, RoomShape, IsTable, Ids, SeatIsEmpty, Present
<1>2. PICK q : q = SeatRemoved(r, t)
  OBVIOUS
<1>3. PICK ps : ps = Unseat(r.players, {t})
  OBVIOUS
<1>4. PICK of : of = IF r.offered = t THEN Nobody ELSE r.offered
  OBVIOUS
<1>5. /\ IsTable(ps) /\ ps \in Tables /\ DOMAIN ps = DOMAIN r.players \ {t}
      /\ \A e \in DOMAIN r.players \ {t} : SocketOf(ps, e) = SocketOf(r.players, e)
      /\ Cardinality(DOMAIN ps) <= Cardinality(DOMAIN r.players)
  BY <1>1, <1>3, UnseatTable, TableType
<1>6. Cardinality(DOMAIN ps) \in Int /\ Cardinality(DOMAIN r.players) \in Int /\ MaxPlayers \in Int
  BY <1>1, <1>5, FS_CardinalityType, LimitsAssumption DEF IsTable
<1>7. of \in Devices \cup {Nobody} /\ of \notin Present(r)
  BY <1>4, DevicesAssumption DEF RoomInv, RoomShape, Room, Present, Ids, IsTable
<1>8. /\ q \in Room /\ q.players = ps /\ q.status = r.status /\ q.game = r.game
      /\ q.seats = r.seats \ {t} /\ q.offered = of /\ q.kicked = r.kicked \cup {t}
  <2>1. r.kicked \cup {t} \in SUBSET Devices /\ r.seats \ {t} \in SUBSET Devices
    BY <1>1 DEF RoomInv, RoomShape, Room
  <2> QED BY <1>2, <1>3, <1>4, <1>5, <1>7, <2>1 DEF SeatRemoved, RoomInv, RoomShape, Room
<1>9. Ids(q) = Ids(r) \ {t} /\ Present(q) = Present(r)
  BY <1>1, <1>5, <1>8 DEF Ids, Present, SocketOf
<1>10. Cardinality(Ids(q)) <= MaxPlayers
  BY <1>5, <1>6, <1>8 DEF RoomInv, RoomShape, Ids
<1>11. RoomInv(q)
  BY <1>1, <1>5, <1>7, <1>8, <1>9, <1>10 DEF RoomInv, RoomShape
<1>12. Present(r) \subseteq q.seats
  BY <1>8, <1>9, <1>11 DEF RoomInv, RoomShape, Present
<1> QED BY <1>2, <1>11, <1>12

\* The table after botTakeover: the bot in the place of the player, without a connection.
LEMMA BotTable ==
  ASSUME NEW ps, IsTable(ps), NEW t \in DOMAIN ps, NEW b \in Devices \ DOMAIN ps
  PROVE  LET new == InPlaceOf(ps, t, b)
         IN  /\ IsTable(new) /\ DOMAIN new = (DOMAIN ps \ {t}) \cup {b}
             /\ SocketOf(new, b) = Nobody
             /\ \A d \in DOMAIN ps \ {t} : SocketOf(new, d) = SocketOf(ps, d)
             /\ Cardinality(DOMAIN new) = Cardinality(DOMAIN ps)
<1> DEFINE seat == [socket |-> Nobody, away |-> "no", joined |-> ps[t].joined]
           new == [d \in (DOMAIN ps \ {t}) \cup {b} |-> IF d = b THEN seat ELSE ps[d]]
<1>0. InPlaceOf(ps, t, b) = new
  BY DEF InPlaceOf
<1>1. ps[t] \in Seat /\ ps \in [DOMAIN ps -> Seat]
  BY DEF IsTable
<1>2. seat \in Seat /\ seat.socket = Nobody
  BY <1>1 DEF Seat
<1> HIDE DEF seat
<1>3. new \in [(DOMAIN ps \ {t}) \cup {b} -> Seat]
  BY <1>1, <1>2
<1>4. /\ IsFiniteSet((DOMAIN ps \ {t}) \cup {b}) /\ (DOMAIN ps \ {t}) \cup {b} \subseteq Devices
      /\ Cardinality((DOMAIN ps \ {t}) \cup {b}) = Cardinality(DOMAIN ps)
  <2>1. IsFiniteSet(DOMAIN ps) /\ DOMAIN ps \subseteq Devices /\ Cardinality(DOMAIN ps) \in Nat
    BY FS_CardinalityType DEF IsTable
  <2>2. /\ IsFiniteSet(DOMAIN ps \ {t})
        /\ Cardinality(DOMAIN ps \ {t}) = Cardinality(DOMAIN ps) - 1
    BY <2>1, FS_RemoveElement
  <2>3. /\ IsFiniteSet((DOMAIN ps \ {t}) \cup {b})
        /\ Cardinality((DOMAIN ps \ {t}) \cup {b}) = Cardinality(DOMAIN ps \ {t}) + 1
    BY <2>2, FS_AddElement
  <2> QED BY <2>1, <2>2, <2>3
<1>5. /\ SocketOf(new, b) = Nobody
      /\ \A d \in DOMAIN ps \ {t} : SocketOf(new, d) = SocketOf(ps, d)
  BY <1>2 DEF SocketOf
<1> QED BY <1>0, <1>3, <1>4, <1>5 DEF IsTable

\* botTakeover gives an empty seat to a fresh bot, in the room and in the game.
LEMMA TakenOverInv ==
  ASSUME NEW r, RoomInv(r), r.status = "playing", NEW t \in Ids(r), SeatIsEmpty(r, t),
         NEW b \in Bots, b \notin Ids(r)
  PROVE  RoomInv(TakenOver(r, t, b)) /\ Present(r) \subseteq TakenOver(r, t, b).seats
<1>1. /\ IsTable(r.players) /\ t \in Devices /\ t \notin Present(r) /\ b \in Devices
      /\ t \in DOMAIN r.players /\ b \notin DOMAIN r.players
  BY DEF RoomInv, RoomShape, IsTable, Ids, SeatIsEmpty, Present, Devices
<1>2. PICK q : q = TakenOver(r, t, b)
  OBVIOUS
<1>3. PICK ps : ps = InPlaceOf(r.players, t, b)
  OBVIOUS
<1>4. PICK of : of = IF r.offered = t THEN Nobody ELSE r.offered
  OBVIOUS
<1>5. /\ IsTable(ps) /\ ps \in Tables /\ DOMAIN ps = (DOMAIN r.players \ {t}) \cup {b}
      /\ SocketOf(ps, b) = Nobody
      /\ \A e \in DOMAIN r.players \ {t} : SocketOf(ps, e) = SocketOf(r.players, e)
      /\ Cardinality(DOMAIN ps) = Cardinality(DOMAIN r.players)
  BY <1>1, <1>3, BotTable, TableType
<1>6. of \in Devices \cup {Nobody} /\ of \notin Present(r)
  BY <1>4, DevicesAssumption DEF RoomInv, RoomShape, Room, Present, Ids, IsTable
<1>7. /\ q \in Room /\ q.players = ps /\ q.status = r.status /\ q.game = r.game
      /\ q.seats = (r.seats \ {t}) \cup {b} /\ q.offered = of /\ q.kicked = r.kicked \cup {t}
  <2>1. r.kicked \cup {t} \in SUBSET Devices /\ (r.seats \ {t}) \cup {b} \in SUBSET Devices
    BY <1>1 DEF RoomInv, RoomShape, Room
  <2>2. q = [r EXCEPT !.players = ps, !.seats = (@ \ {t}) \cup {b}, !.kicked = @ \cup {t},
                      !.offered = of]
    BY <1>2, <1>3, <1>4 DEF TakenOver
  <2> QED BY <1>5, <1>6, <2>1, <2>2 DEF RoomInv, RoomShape, Room
<1>8. Ids(q) = (Ids(r) \ {t}) \cup {b} /\ Present(q) = Present(r)
  BY <1>1, <1>5, <1>7 DEF Ids, Present, SocketOf
<1>9. RoomInv(q)
  BY <1>1, <1>5, <1>6, <1>7, <1>8 DEF RoomInv, RoomShape, Ids
<1>10. Present(r) \subseteq q.seats
  BY <1>7, <1>8, <1>9 DEF RoomInv, RoomShape, Present
<1> QED BY <1>2, <1>9, <1>10

\* setReplacementSeat offers an empty seat or none.
LEMMA OfferedInv ==
  ASSUME NEW r, RoomInv(r), r.status = "playing", NEW t,
         t = Nobody \/ (t \in Ids(r) /\ SeatIsEmpty(r, t))
  PROVE  /\ RoomInv([r EXCEPT !.offered = t])
         /\ Present(r) \subseteq [r EXCEPT !.offered = t].seats
<1>1. t \in Devices \cup {Nobody} /\ t \notin Present(r)
  BY DevicesAssumption DEF RoomInv, RoomShape, IsTable, Ids, SeatIsEmpty, Present
<1>2. PICK q : q = [r EXCEPT !.offered = t]
  OBVIOUS
<1>3. /\ q \in Room /\ q.players = r.players /\ q.status = r.status /\ q.game = r.game
      /\ q.seats = r.seats /\ q.offered = t /\ q.kicked = r.kicked
  BY <1>1, <1>2 DEF RoomInv, RoomShape, Room
<1>4. Ids(q) = Ids(r) /\ Present(q) = Present(r)
  BY <1>3 DEF Ids, Present
<1>5. RoomInv(q) /\ Present(r) \subseteq q.seats
  BY <1>1, <1>3, <1>4 DEF RoomInv, RoomShape, Present
<1> QED BY <1>2, <1>5

\* A game that ends, or a new one after it, leaves the seats alone.
LEMMA GameInv ==
  ASSUME NEW r, RoomInv(r), r.game # "none", NEW g \in {"on", "end"}
  PROVE  /\ RoomInv([r EXCEPT !.game = g])
         /\ Present(r) \subseteq [r EXCEPT !.game = g].seats
<1>1. PICK q : q = [r EXCEPT !.game = g]
  OBVIOUS
<1>2. /\ q \in Room /\ q.players = r.players /\ q.status = r.status /\ q.game = g
      /\ q.seats = r.seats /\ q.offered = r.offered /\ q.kicked = r.kicked
  BY <1>1 DEF RoomInv, RoomShape, Room
<1>3. Ids(q) = Ids(r) /\ Present(q) = Present(r)
  BY <1>2 DEF Ids, Present
<1>4. RoomInv(q) /\ Present(r) \subseteq q.seats
  BY <1>2, <1>3 DEF RoomInv, RoomShape, Present
<1> QED BY <1>1, <1>4

\* Time changes nobody's connection.
LEMMA GraceInv ==
  ASSUME NEW r, RoomInv(r), NEW d \in Ids(r)
  PROVE  LET q == [r EXCEPT !.players[d].away = "expired"]
         IN  RoomInv(q) /\ Present(r) = Present(q) /\ q.seats = r.seats
<1>1. PICK seat : seat = [r.players[d] EXCEPT !.away = "expired"]
  OBVIOUS
<1>2. PICK ps : ps = [r.players EXCEPT ![d] = seat]
  OBVIOUS
<1>3. PICK q : q = [r EXCEPT !.players = ps]
  OBVIOUS
<1>4. d \in DOMAIN r.players /\ r.players \in [DOMAIN r.players -> Seat] /\ IsTable(r.players)
  BY DEF RoomInv, RoomShape, IsTable, Ids
<1>5. seat \in Seat /\ seat.socket = r.players[d].socket
  <2>1. r.players[d] \in Seat
    BY <1>4
  <2> QED BY <1>1, <2>1 DEF Seat
<1>6. /\ ps \in [DOMAIN r.players -> Seat] /\ DOMAIN ps = DOMAIN r.players
      /\ \A e \in DOMAIN r.players : ps[e] = IF e = d THEN seat ELSE r.players[e]
  BY <1>2, <1>4, <1>5
<1>7. /\ IsTable(ps) /\ ps \in Tables
      /\ \A e \in DOMAIN r.players : SocketOf(ps, e) = SocketOf(r.players, e)
  <2>1. IsTable(ps)
    BY <1>4, <1>6 DEF IsTable
  <2>2. \A e \in DOMAIN r.players : SocketOf(ps, e) = SocketOf(r.players, e)
    BY <1>5, <1>6 DEF SocketOf
  <2> QED BY <2>1, <2>2, TableType
<1>8. /\ q \in Room /\ q.players = ps /\ q.status = r.status /\ q.game = r.game
      /\ q.seats = r.seats /\ q.offered = r.offered /\ q.kicked = r.kicked
  BY <1>3, <1>7 DEF RoomInv, RoomShape, Room
<1>9. Ids(q) = Ids(r) /\ Present(q) = Present(r)
  BY <1>6, <1>7, <1>8 DEF Ids, Present, SocketOf
<1>10. RoomInv(q)
  BY <1>6, <1>7, <1>8, <1>9 DEF RoomInv, RoomShape, Ids
<1>11. q = [r EXCEPT !.players[d].away = "expired"]
  BY <1>1, <1>2, <1>3
<1> QED BY <1>8, <1>9, <1>10, <1>11

\* sweepStaleRooms frees seats of lobbies only, and deletes a room that becomes empty.
LEMMA SweptInv ==
  ASSUME NEW r, RoomInv(r), ~Abandoned(Swept(r))
  PROVE  RoomInv(Swept(r)) /\ (r.status = "playing" => Swept(r) = r)
<1>1. CASE r.status = "lobby"
  <2>1. RoomShape(Swept(r))
    BY <1>1, UnseatShape DEF Swept, RoomInv
  <2>2. Ids(Swept(r)) # {}
    BY DEF Abandoned
  <2> QED BY <1>1, <2>1, <2>2 DEF RoomInv
<1>2. CASE r.status # "lobby"
  BY <1>2 DEF Swept
<1> QED BY <1>1, <1>2

-------------------------------------------------------------------------------
(* The map of rooms.                                                       *)

RoomsOK(rs) == rs = [n \in DOMAIN rs |-> rs[n]] /\ \A n \in DOMAIN rs : RoomInv(rs[n])
\* Nobody who is connected is without a seat in the game that goes on.
KeepSeats(rs, new) ==
  \A n \in DOMAIN rs : n \in DOMAIN new /\ rs[n].status = "playing" =>
    Present(rs[n]) \subseteq new[n].seats
\* What every step but room:create does to the rooms.
GoodStep(rs, new) == RoomsOK(new) /\ DOMAIN new \subseteq DOMAIN rs /\ KeepSeats(rs, new)

\* In a game those who are connected have seats.
LEMMA PresentSeated ==
  ASSUME NEW r, RoomInv(r), r.status = "playing"
  PROVE  Present(r) \subseteq r.seats
BY DEF RoomInv, RoomShape, Present

\* Nothing happens to the rooms.
LEMMA SameRooms == ASSUME RoomsOK(rooms) PROVE GoodStep(rooms, rooms)
BY PresentSeated DEF GoodStep, RoomsOK, KeepSeats

\* One room changes.
LEMMA WithGood ==
  ASSUME RoomsOK(rooms), NEW n \in Open, NEW r, RoomInv(r),
         rooms[n].status = "playing" => Present(rooms[n]) \subseteq r.seats
  PROVE  GoodStep(rooms, With(n, r))
<1>1. /\ With(n, r) = [m \in Open |-> IF m = n THEN r ELSE rooms[m]]
      /\ \A m \in Open : RoomInv(rooms[m])
  BY DEF With, RoomsOK, Open
<1>2. RoomsOK(With(n, r)) /\ DOMAIN With(n, r) = Open
  BY <1>1 DEF RoomsOK
<1>3. KeepSeats(rooms, With(n, r))
  BY <1>1, PresentSeated DEF KeepSeats, Open
<1> QED BY <1>2, <1>3 DEF GoodStep, Open

\* One room is closed.
LEMMA WithoutGood ==
  ASSUME RoomsOK(rooms), NEW n
  PROVE  GoodStep(rooms, Without(n))
<1>1. Without(n) = [m \in Open \ {n} |-> rooms[m]] /\ \A m \in Open : RoomInv(rooms[m])
  BY DEF Without, RoomsOK, Open
<1> QED BY <1>1, PresentSeated DEF GoodStep, RoomsOK, KeepSeats, Open

\* Somebody leaves a room that may or may not be there.
LEMMA RoomsLeftGood ==
  ASSUME RoomsOK(rooms), NEW n, NEW d
  PROVE  GoodStep(rooms, RoomsLeft(n, d))
<1>1. CASE n \in Open
  <2>1. RoomInv(rooms[n])
    BY <1>1 DEF RoomsOK, Open
  <2>2. PICK r : r = Left(rooms[n], d)
    OBVIOUS
  <2>3. /\ RoomShape(r)
        /\ rooms[n].status = "playing" => RoomInv(r) /\ Present(rooms[n]) \subseteq r.seats
    BY <2>1, <2>2, LeftShape
  <2>4. RoomsLeft(n, d) = IF Ids(r) = {} THEN Without(n) ELSE With(n, r)
    BY <1>1, <2>2 DEF RoomsLeft, WithOrWithout
  <2>5. CASE Ids(r) = {}
    BY <2>4, <2>5, WithoutGood
  <2>6. CASE Ids(r) # {}
    BY <1>1, <2>3, <2>4, <2>6, WithGood DEF RoomInv
  <2> QED BY <2>5, <2>6
<1>2. CASE n \notin Open
  BY <1>2, SameRooms DEF RoomsLeft
<1> QED BY <1>1, <1>2

\* A socket is gone: markSocketDisconnected.
LEMMA RoomsWithoutGood ==
  ASSUME RoomsOK(rooms), NEW s
  PROVE  GoodStep(rooms, RoomsWithout(s))
<1>1. CASE SeatedIn(s) = {}
  BY <1>1, SameRooms DEF RoomsWithout
<1>2. CASE SeatedIn(s) # {}
  <2>1. PICK n : n = Min(SeatedIn(s))
    OBVIOUS
  <2>2. PICK r : r = GoAway(rooms[n], CHOOSE e \in Ids(rooms[n]) : rooms[n].players[e].socket = s)
    OBVIOUS
  <2>3. RoomsWithout(s) = With(n, r)
    BY <1>2, <2>1, <2>2 DEF RoomsWithout
  <2>4. CASE n \in Open
    <3>1. RoomInv(rooms[n])
      BY <2>4 DEF RoomsOK, Open
    <3>2. RoomInv(r) /\ r.seats = rooms[n].seats
      BY <2>2, <3>1, GoAwayShape DEF RoomInv
    <3> QED BY <2>3, <2>4, <3>1, <3>2, PresentSeated, WithGood
  <2>5. CASE n \notin Open
    <3>1. With(n, r) = rooms
      BY <2>5 DEF With, RoomsOK, Open
    <3> QED BY <2>3, <3>1, SameRooms
  <2> QED BY <2>4, <2>5
<1> QED BY <1>1, <1>2

-------------------------------------------------------------------------------
(* The inductive invariant.                                                *)

\* Waiting handlers act for a socket.
HandlersOK ==
  /\ waiting \in [1..MaxWaiting -> Handler]
  /\ \A i \in 1..MaxWaiting : waiting[i].at # "idle" => waiting[i].sock \in Sockets
SocketsOK ==
  /\ created \in 0..MaxRooms /\ Open \subseteq 1..created /\ Cardinality(Open) <= MaxActive
  /\ up \subseteq Sockets /\ bound \in [Sockets -> 0..created]
IInv == RoomsOK(rooms) /\ SocketsOK /\ HandlersOK

\* A handler that ends is well.
LEMMA DoneOK == ASSUME HandlersOK, NEW i, Done(i) PROVE HandlersOK'
<1>1. Idle \in Handler /\ Idle.at = "idle"
  BY LimitsAssumption DEF Idle, Handler, Steps
<1>2. PICK v : v = Idle
  OBVIOUS
<1>3. waiting' = [waiting EXCEPT ![i] = v]
  BY <1>2 DEF Done
<1> QED BY <1>1, <1>2, <1>3 DEF HandlersOK
\* A handler that waits is well when it acts for a socket.
LEMMA WaitOK ==
  ASSUME HandlersOK, NEW i, NEW at \in Steps, NEW s \in Sockets, NEW n \in 0..MaxRooms,
         NEW goal \in 0..MaxRooms, NEW others \in SUBSET Sockets, Wait(i, at, s, n, goal, others)
  PROVE  HandlersOK'
<1>1. PICK v : v = [at |-> at, sock |-> s, room |-> n, goal |-> goal, others |-> others]
  OBVIOUS
<1>2. v \in Handler /\ v.sock \in Sockets
  BY <1>1 DEF Handler
<1>3. waiting' = [waiting EXCEPT ![i] = v]
  BY <1>1 DEF Wait
<1> QED BY <1>2, <1>3 DEF HandlersOK

\* A step that opens no room keeps the invariant if it keeps the parts.
LEMMA StepOK ==
  ASSUME IInv, GoodStep(rooms, rooms'), created' = created, up' \subseteq Sockets,
         bound' \in [Sockets -> 0..created], HandlersOK'
  PROVE  IInv' /\ KeepSeats(rooms, rooms')
<1>1. Open' \subseteq Open
  BY DEF GoodStep, Open
<1>2. IsFiniteSet(Open)
  <2>1. created \in Nat
    BY LimitsAssumption DEF IInv, SocketsOK
  <2>2. IsFiniteSet(1..created)
    BY <2>1, FS_Interval
  <2> QED BY <2>2, FS_Subset DEF IInv, SocketsOK
<1>3. Cardinality(Open') <= Cardinality(Open) /\ Cardinality(Open') \in Int /\ Cardinality(Open) \in Int
  BY <1>1, <1>2, FS_Subset, FS_CardinalityType
<1>4. Cardinality(Open') <= MaxActive
  BY <1>3, LimitsAssumption DEF IInv, SocketsOK
<1> QED BY <1>1, <1>4 DEF IInv, GoodStep, SocketsOK

\* A room is well; a socket that is bound to an open room knows its number.
LEMMA OpenRoom ==
  ASSUME IInv, NEW n \in Open PROVE RoomInv(rooms[n]) /\ n \in 1..created /\ n \in 1..MaxRooms
<1>1. RoomInv(rooms[n])
  BY DEF IInv, RoomsOK, Open
<1>2. n \in 1..created /\ created \in 0..MaxRooms /\ MaxRooms \in Nat
  BY LimitsAssumption DEF IInv, SocketsOK
<1> QED BY <1>1, <1>2

\* room:create opens a room for one player, if there is room for it.
LEMMA CreateOK ==
  ASSUME IInv, NEW s \in Sockets, CreateNow(s), up' = up, HandlersOK'
  PROVE  IInv' /\ KeepSeats(rooms, rooms')
<1>1. CASE Cardinality(Open) >= MaxActive
  <2>1. rooms' = rooms /\ created' = created /\ bound' = bound
    BY <1>1 DEF CreateNow
  <2> QED BY <2>1, SameRooms, StepOK DEF IInv, SocketsOK
<1>2. CASE ~(Cardinality(Open) >= MaxActive)
  <2>1. PICK none : none = [d \in {} |-> 0]
    OBVIOUS
  <2>2. IsTable(none) /\ DOMAIN none = {}
    BY <2>1, FS_EmptySet DEF IsTable
  <2>3. DeviceOf[s] \in Devices /\ s \in Sockets \cup {Nobody}
    BY SocketsAssumption, DevicesAssumption DEF Devices
  <2>4. PICK ps : ps = SeatNewest(none, DeviceOf[s], s)
    OBVIOUS
  <2>5. /\ IsTable(ps) /\ ps \in Tables /\ DOMAIN ps = {DeviceOf[s]}
        /\ Cardinality(DOMAIN ps) = 1
    <3>1. IsTable(ps) /\ DOMAIN ps = DOMAIN none \cup {DeviceOf[s]}
      BY <2>2, <2>3, <2>4, SeatNewestTable
    <3>2. DOMAIN ps = {DeviceOf[s]}
      BY <2>2, <3>1
    <3>3. Cardinality(DOMAIN ps) = 1
      BY <3>2, FS_Singleton
    <3> QED BY <3>1, <3>2, <3>3, TableType
  <2>6. PICK r : r = [status |-> "lobby", game |-> "none", seats |-> {}, offered |-> Nobody,
                      kicked |-> {}, players |-> ps]
    OBVIOUS
  <2>7. /\ r \in Room /\ r.players = ps /\ r.status = "lobby" /\ r.game = "none"
        /\ r.offered = Nobody /\ r.kicked = {}
    BY <2>5, <2>6 DEF Room
  <2>8. Present(r) \subseteq {DeviceOf[s]} /\ Ids(r) = {DeviceOf[s]}
    BY <2>5, <2>7 DEF Present, Ids
  <2>9. RoomInv(r)
    BY <2>3, <2>5, <2>7, <2>8, LimitsAssumption, DevicesAssumption DEF RoomInv, RoomShape, Ids
  <2>10. /\ created' = created + 1 /\ created < MaxRooms
         /\ rooms' = [n \in Open \cup {created + 1} |-> IF n \in Open THEN rooms[n] ELSE r]
         /\ bound' = [bound EXCEPT ![s] = created + 1]
    BY <1>2, <2>1, <2>4, <2>6 DEF CreateNow
  <2>11. created \in Nat /\ created + 1 \in 0..MaxRooms /\ created + 1 \notin Open
    BY <2>10, LimitsAssumption DEF IInv, SocketsOK
  <2>12. RoomsOK(rooms') /\ KeepSeats(rooms, rooms') /\ Open' = Open \cup {created + 1}
    <3>1. /\ DOMAIN rooms' = Open \cup {created + 1} /\ rooms' = [n \in DOMAIN rooms' |-> rooms'[n]]
          /\ \A n \in Open : rooms'[n] = rooms[n]
      BY <2>10
    <3>2. rooms'[created + 1] = r
      BY <2>10, <2>11
    <3>3. \A n \in Open : RoomInv(rooms[n])
      BY DEF IInv, RoomsOK, Open
    <3>4. \A n \in DOMAIN rooms' : RoomInv(rooms'[n])
      BY <2>9, <3>1, <3>2, <3>3
    <3>5. KeepSeats(rooms, rooms')
      BY <3>1, <3>3, PresentSeated DEF KeepSeats, Open
    <3> QED BY <3>1, <3>4, <3>5 DEF RoomsOK, Open
  <2>13. Cardinality(Open') <= MaxActive
    <3>1. IsFiniteSet(1..created)
      BY <2>11, FS_Interval
    <3>2. IsFiniteSet(Open)
      BY <3>1, FS_Subset DEF IInv, SocketsOK
    <3>3. Cardinality(Open) \in Nat /\ Cardinality(Open') = Cardinality(Open) + 1
      BY <2>11, <2>12, <3>2, FS_AddElement, FS_CardinalityType
    <3> QED BY <1>2, <3>3, LimitsAssumption
  <2>14. bound' \in [Sockets -> 0..created']
    BY <2>10, <2>11 DEF IInv, SocketsOK
  <2> QED BY <2>10, <2>11, <2>12, <2>13, <2>14 DEF IInv, SocketsOK
<1> QED BY <1>1, <1>2

-------------------------------------------------------------------------------
(* One lemma per action.                                                   *)

\* The parts of the invariant the actions use.
LEMMA Parts ==
  ASSUME IInv
  PROVE  /\ RoomsOK(rooms) /\ HandlersOK /\ up \subseteq Sockets /\ created \in 0..MaxRooms
         /\ bound \in [Sockets -> 0..created] /\ 0..created \subseteq 0..MaxRooms
         /\ 0 \in 0..created
<1>1. created \in 0..MaxRooms /\ MaxRooms \in Nat
  BY LimitsAssumption DEF IInv, SocketsOK
<1> QED BY <1>1 DEF IInv, SocketsOK

\* joinRoom as room:join calls it, for a socket that may be gone.
LEMMA JoinNowOK ==
  ASSUME IInv, NEW i, NEW s \in Sockets, NEW n, JoinNow(i, s, n), up' = up
  PROVE  IInv' /\ KeepSeats(rooms, rooms')
<1> USE Parts
<1>1. CASE Joins(n, DeviceOf[s])
  <2>1. PICK d : d = DeviceOf[s]
    OBVIOUS
  <2>2. d \in Humans /\ n \in Open /\ Joins(n, d)
    BY <1>1, <2>1, SocketsAssumption DEF Joins
  <2>3. RoomInv(rooms[n]) /\ n \in 1..created
    BY <2>2, OpenRoom
  <2>4. PICK r : r = Joined(rooms[n], d, s)
    OBVIOUS
  <2>5. rooms' = With(n, r) /\ bound' = [bound EXCEPT ![s] = n] /\ created' = created
    BY <1>1, <2>1, <2>4 DEF JoinNow
  <2>6. GoodStep(rooms, rooms')
    BY <2>2, <2>3, <2>4, <2>5, JoinedInv, WithGood
  <2>7. HandlersOK'
    <3>1. PICK earlier : earlier = IF d \in Ids(rooms[n])
                                   THEN {rooms[n].players[d].socket} \ {s, Nobody} ELSE {}
      OBVIOUS
    <3>2. earlier \in SUBSET Sockets
      <4>1. d \in Ids(rooms[n]) => rooms[n].players[d].socket \in Sockets \cup {Nobody}
        BY <2>3 DEF RoomInv, RoomShape, IsTable, Ids, Seat
      <4> QED BY <3>1, <4>1
    <3>3. Done(i) \/ Wait(i, "evict", s, 0, 0, earlier)
      BY <1>1, <2>1, <3>1 DEF JoinNow
    <3> QED BY <3>2, <3>3, DoneOK, WaitOK DEF Steps
  <2>8. bound' \in [Sockets -> 0..created]
    BY <2>3, <2>5
  <2> QED BY <2>5, <2>6, <2>7, <2>8, StepOK
<1>2. CASE ~Joins(n, DeviceOf[s])
  <2>1. rooms' = rooms /\ bound' = bound /\ created' = created /\ Done(i)
    BY <1>2 DEF JoinNow
  <2> QED BY <2>1, DoneOK, SameRooms, StepOK
<1> QED BY <1>1, <1>2

\* room:create and room:join, after whatever had to be released.
LEMMA ProceedOK ==
  ASSUME IInv, NEW i, NEW s \in Sockets, NEW goal, Proceed(i, s, goal), up' = up
  PROVE  IInv' /\ KeepSeats(rooms, rooms')
<1>1. CASE goal = 0
  BY <1>1, Parts, DoneOK, CreateOK DEF Proceed
<1>2. CASE goal # 0
  BY <1>2, JoinNowOK DEF Proceed
<1> QED BY <1>1, <1>2

\* room:create and room:join up to their first wait.
LEMMA MoveToOK ==
  ASSUME IInv, NEW s \in Sockets, NEW goal \in 0..MaxRooms, MoveTo(s, goal)
  PROVE  IInv' /\ KeepSeats(rooms, rooms')
<1> USE Parts
<1>1. PICK i : i = Min(Free)
  OBVIOUS
<1>2. CASE bound[s] = 0 \/ (goal # 0 /\ bound[s] = goal)
  <2>1. Proceed(i, s, goal) /\ up' = up
    BY <1>1, <1>2 DEF MoveTo
  <2> QED BY <2>1, ProceedOK
<1>3. CASE ~(bound[s] = 0 \/ (goal # 0 /\ bound[s] = goal))
  <2>1. /\ Wait(i, "release", s, bound[s], goal, {})
        /\ rooms' = rooms /\ created' = created /\ bound' = bound /\ up' = up
    BY <1>1, <1>3 DEF MoveTo
  <2>2. bound[s] \in 0..MaxRooms /\ {} \in SUBSET Sockets /\ "release" \in Steps
    BY DEF Steps
  <2>3. HandlersOK'
    BY <2>1, <2>2, WaitOK
  <2> QED BY <2>1, <2>3, SameRooms, StepOK
<1> QED BY <1>2, <1>3

\* What a handler that waits has read.
LEMMA Waiting ==
  ASSUME IInv, NEW i \in 1..MaxWaiting, waiting[i].at # "idle"
  PROVE  /\ waiting[i].sock \in Sockets /\ waiting[i].room \in 0..MaxRooms
         /\ waiting[i].goal \in 0..MaxRooms /\ waiting[i].others \in SUBSET Sockets
BY DEF IInv, HandlersOK, Handler

\* Leaving the old lobby: the room may be anything by now.
LEMMA ReleaseOK ==
  ASSUME IInv, NEW i \in 1..MaxWaiting, Release(i)
  PROVE  IInv' /\ KeepSeats(rooms, rooms')
<1> USE Parts
<1>1. PICK s, n, goal : s = waiting[i].sock /\ n = waiting[i].room /\ goal = waiting[i].goal
  OBVIOUS
<1>2. s \in Sockets /\ goal \in 0..MaxRooms
  BY <1>1, Waiting DEF Release
<1>3. /\ rooms' = RoomsLeft(n, DeviceOf[s]) /\ bound' = [bound EXCEPT ![s] = 0]
      /\ Wait(i, "write", s, 0, goal, {}) /\ created' = created /\ up' = up
  BY <1>1 DEF Release
<1>4. GoodStep(rooms, rooms')
  BY <1>3, RoomsLeftGood
<1>5. HandlersOK'
  <2>1. "write" \in Steps /\ {} \in SUBSET Sockets /\ 0 \in 0..MaxRooms
    BY DEF Steps
  <2> QED BY <1>2, <1>3, <2>1, WaitOK
<1>6. bound' \in [Sockets -> 0..created]
  BY <1>2, <1>3
<1> QED BY <1>3, <1>4, <1>5, <1>6, StepOK

\* The end of room:leave.
LEMMA LeaveDoneOK ==
  ASSUME IInv, NEW i \in 1..MaxWaiting, LeaveDone(i)
  PROVE  IInv' /\ KeepSeats(rooms, rooms')
<1> USE Parts
<1>1. PICK s, n : s = waiting[i].sock /\ n = waiting[i].room
  OBVIOUS
<1>2. s \in Sockets
  BY <1>1, Waiting DEF LeaveDone
<1>3. /\ rooms' = RoomsLeft(n, DeviceOf[s]) /\ bound' = [bound EXCEPT ![s] = 0]
      /\ Done(i) /\ created' = created /\ up' = up
  BY <1>1 DEF LeaveDone
<1>4. GoodStep(rooms, rooms') /\ HandlersOK'
  BY <1>3, RoomsLeftGood, DoneOK
<1>5. bound' \in [Sockets -> 0..created]
  BY <1>2, <1>3
<1> QED BY <1>3, <1>4, <1>5, StepOK

\* Creating or joining after the release, perhaps for a socket that is gone.
LEMMA AfterReleaseOK ==
  ASSUME IInv, NEW i \in 1..MaxWaiting, AfterRelease(i)
  PROVE  IInv' /\ KeepSeats(rooms, rooms')
<1>1. waiting[i].sock \in Sockets
  BY Waiting DEF AfterRelease
<1> QED BY <1>1, ProceedOK DEF AfterRelease

\* room:leave up to its wait.
LEMMA LeaveOK ==
  ASSUME IInv, NEW s \in Sockets, Leave(s)
  PROVE  IInv' /\ KeepSeats(rooms, rooms')
<1> USE Parts
<1>1. PICK i : i = Min(Free)
  OBVIOUS
<1>2. /\ Wait(i, "leave", s, bound[s], 0, {})
      /\ rooms' = rooms /\ created' = created /\ bound' = bound /\ up' = up
  BY <1>1 DEF Leave
<1>3. "leave" \in Steps /\ {} \in SUBSET Sockets /\ 0 \in 0..MaxRooms /\ bound[s] \in 0..MaxRooms
  BY DEF Steps
<1>4. HandlersOK'
  BY <1>2, <1>3, WaitOK
<1> QED BY <1>2, <1>4, SameRooms, StepOK

\* A host sits at the room it acts on.
LEMMA HostSits ==
  ASSUME IInv, NEW s \in Sockets, NEW n, IsHost(s, n)
  PROVE  n \in Open /\ RoomInv(rooms[n]) /\ DeviceOf[s] \in Ids(rooms[n])
<1>1. n \in Open /\ DeviceOf[s] \in Ids(rooms[n])
  BY DEF IsHost, Owns
<1> QED BY <1>1, OpenRoom

\* room:kick up to its wait.
LEMMA KickOK ==
  ASSUME IInv, NEW s \in Sockets, NEW t, Kick(s, t)
  PROVE  IInv' /\ KeepSeats(rooms, rooms')
<1> USE Parts
<1>1. PICK n, i : n = bound[s] /\ i = Min(Free)
  OBVIOUS
<1>2. IsHost(s, n) /\ t # DeviceOf[s] /\ t \in Ids(rooms[n])
  BY <1>1 DEF Kick
<1>3. n \in Open /\ RoomInv(rooms[n]) /\ DeviceOf[s] \in Ids(rooms[n])
  BY <1>2, HostSits
<1>4. PICK r : r = Kicked(rooms[n], t)
  OBVIOUS
<1>5. RoomInv(r) /\ (rooms[n].status = "playing" => Present(rooms[n]) \subseteq r.seats)
  BY <1>2, <1>3, <1>4, KickedInv
<1>6. PICK victim : victim = {rooms[n].players[t].socket} \ {Nobody}
  OBVIOUS
<1>7. /\ rooms' = With(n, r) /\ created' = created /\ bound' = bound /\ up' = up
      /\ waiting' = waiting \/ Wait(i, "evict", s, 0, 0, victim)
  BY <1>1, <1>4, <1>6 DEF Kick
<1>8. victim \in SUBSET Sockets
  <2>1. rooms[n].players[t].socket \in Sockets \cup {Nobody}
    BY <1>2, <1>3 DEF RoomInv, RoomShape, IsTable, Ids, Seat
  <2> QED BY <1>6, <2>1
<1>9. HandlersOK'
  <2>1. CASE waiting' = waiting
    BY <2>1 DEF HandlersOK
  <2>2. CASE Wait(i, "evict", s, 0, 0, victim)
    <3>1. "evict" \in Steps /\ 0 \in 0..MaxRooms
      BY DEF Steps
    <3> QED BY <1>8, <2>2, <3>1, WaitOK
  <2> QED BY <1>7, <2>1, <2>2
<1>10. GoodStep(rooms, rooms')
  BY <1>3, <1>5, <1>7, WithGood
<1> QED BY <1>7, <1>9, <1>10, StepOK

\* The socket that lost its seat is disconnected, if it is still there.
LEMMA EvictOK ==
  ASSUME IInv, NEW i \in 1..MaxWaiting, Evict(i)
  PROVE  IInv' /\ KeepSeats(rooms, rooms')
<1> USE Parts
<1>1. PICK s \in waiting[i].others :
        /\ \/ up' = up \ {s} /\ bound' = [bound EXCEPT ![s] = 0] /\ rooms' = RoomsWithout(s)
           \/ UNCHANGED <<rooms, up, bound>>
        /\ Done(i) /\ created' = created
  BY DEF Evict
<1>2. s \in Sockets
  BY Waiting DEF Evict
<1>3. GoodStep(rooms, rooms')
  BY <1>1, RoomsWithoutGood, SameRooms
<1>4. up' \subseteq Sockets /\ bound' \in [Sockets -> 0..created]
  BY <1>1, <1>2
<1> QED BY <1>1, <1>3, <1>4, DoneOK, StepOK

\* game:exit deletes the room.
LEMMA ExitOK ==
  ASSUME IInv, NEW s \in Sockets, Exit(s)
  PROVE  IInv' /\ KeepSeats(rooms, rooms')
<1> USE Parts
<1>1. PICK n, i : n = bound[s] /\ i = Min(Free)
  OBVIOUS
<1>2. n \in Open /\ RoomInv(rooms[n])
  BY <1>1, HostSits DEF Exit
<1>3. PICK others : others = {rooms[n].players[d].socket : d \in Present(rooms[n])}
  OBVIOUS
<1>4. others \in SUBSET Sockets
  <2>1. \A d \in Present(rooms[n]) : rooms[n].players[d].socket \in Sockets
    BY <1>2 DEF RoomInv, RoomShape, IsTable, Ids, Seat, Present
  <2> QED BY <1>3, <2>1
<1>5. /\ rooms' = Without(n) /\ created' = created /\ bound' = bound /\ up' = up
      /\ Wait(i, "exit", s, 0, 0, others)
  BY <1>1, <1>3 DEF Exit
<1>6. HandlersOK'
  <2>1. "exit" \in Steps /\ 0 \in 0..MaxRooms
    BY DEF Steps
  <2> QED BY <1>4, <1>5, <2>1, WaitOK
<1> QED BY <1>5, <1>6, WithoutGood, StepOK

\* game:exit unbinds one player after the other.
LEMMA ExitNextOK ==
  ASSUME IInv, NEW i \in 1..MaxWaiting, ExitNext(i)
  PROVE  IInv' /\ KeepSeats(rooms, rooms')
<1> USE Parts
<1>1. PICK s \in waiting[i].others :
        /\ bound' = [bound EXCEPT ![s] = IF s \in up THEN 0 ELSE @]
        /\ Done(i) \/ Wait(i, "exit", waiting[i].sock, 0, 0, waiting[i].others \ {s})
        /\ rooms' = rooms /\ created' = created /\ up' = up
  BY DEF ExitNext
<1>2. s \in Sockets /\ waiting[i].sock \in Sockets /\ waiting[i].others \ {s} \in SUBSET Sockets
  BY Waiting DEF ExitNext
<1>3. bound' \in [Sockets -> 0..created]
  BY <1>1, <1>2
<1>4. HandlersOK'
  <2>1. "exit" \in Steps /\ 0 \in 0..MaxRooms
    BY DEF Steps
  <2> QED BY <1>1, <1>2, <2>1, DoneOK, WaitOK
<1> QED BY <1>1, <1>3, <1>4, SameRooms, StepOK

\* A message of the host that is handled at once changes one room.
LEMMA HostMessageOK ==
  ASSUME IInv, NEW s \in Sockets, HostMessage(s), NEW r, RoomInv(r),
         rooms[bound[s]].status = "playing" => Present(rooms[bound[s]]) \subseteq r.seats,
         rooms' = With(bound[s], r)
  PROVE  IInv' /\ KeepSeats(rooms, rooms')
<1> USE Parts
<1>1. PICK n : n = bound[s]
  OBVIOUS
<1>2. n \in Open
  BY <1>1, HostSits DEF HostMessage
<1>3. GoodStep(rooms, rooms')
  BY <1>1, <1>2, WithGood
<1>4. created' = created /\ up' = up /\ bound' = bound /\ waiting' = waiting
  BY DEF HostMessage
<1>5. HandlersOK'
  BY <1>4 DEF HandlersOK
<1> QED BY <1>3, <1>4, <1>5, StepOK

\* The room a host acts on.
LEMMA HostRoom ==
  ASSUME IInv, NEW s \in Sockets, HostMessage(s)
  PROVE  /\ bound[s] \in Open /\ RoomInv(rooms[bound[s]]) /\ DeviceOf[s] \in Ids(rooms[bound[s]])
         /\ DeviceOf[s] \in Humans
BY HostSits, SocketsAssumption DEF HostMessage

\* room:start, which the host may also send in a game.
LEMMA StartOK ==
  ASSUME IInv, NEW s \in Sockets, Start(s)
  PROVE  IInv' /\ KeepSeats(rooms, rooms')
<1>1. PICK r : r = rooms[bound[s]]
  OBVIOUS
<1>2. RoomInv(r)
  BY <1>1, HostRoom DEF Start
<1>3. RoomInv(Started(r)) /\ Present(r) \subseteq Started(r).seats
  BY <1>1, <1>2, StartedInv DEF Start
<1> QED BY <1>1, <1>3, HostMessageOK DEF Start

\* room:add-bot.
LEMMA AddBotOK ==
  ASSUME IInv, NEW s \in Sockets, NEW b \in Bots, AddBot(s, b)
  PROVE  IInv' /\ KeepSeats(rooms, rooms')
<1>1. PICK r : r = rooms[bound[s]]
  OBVIOUS
<1>2. RoomInv(r) /\ bound[s] \in Open
  BY <1>1, HostRoom DEF AddBot
<1>3. PICK q : q = [r EXCEPT !.players = SeatNewest(@, b, Nobody)]
  OBVIOUS
<1>4. /\ r.status = "lobby" /\ Cardinality(Ids(r)) < MaxPlayers
      /\ b \notin Ids(r) /\ b \notin r.kicked /\ b \in Devices
  BY <1>1, <1>2 DEF AddBot, FreshBot, Devices
<1>5. RoomInv(q)
  BY <1>2, <1>3, <1>4, NewcomerInv
<1>6. HostMessage(s) /\ rooms' = With(bound[s], q)
  BY <1>1, <1>3 DEF AddBot
<1> QED BY <1>1, <1>4, <1>5, <1>6, HostMessageOK

\* room:remove-seat.
LEMMA RemoveSeatOK ==
  ASSUME IInv, NEW s \in Sockets, NEW t, RemoveSeat(s, t)
  PROVE  IInv' /\ KeepSeats(rooms, rooms')
<1>1. PICK r : r = rooms[bound[s]]
  OBVIOUS
<1>2. RoomInv(r) /\ DeviceOf[s] \in Ids(r)
  BY <1>1, HostRoom DEF RemoveSeat
<1>3. r.status = "playing" /\ t # DeviceOf[s] /\ t \in Ids(r) /\ SeatIsEmpty(r, t)
  BY <1>1 DEF RemoveSeat
<1>4. RoomInv(SeatRemoved(r, t)) /\ Present(r) \subseteq SeatRemoved(r, t).seats
  BY <1>2, <1>3, SeatRemovedInv
<1> QED BY <1>1, <1>4, HostMessageOK DEF RemoveSeat

\* room:remove-bot in the lobby: the host stays.
LEMMA RemoveBotOK ==
  ASSUME IInv, NEW s \in Sockets, NEW t, RemoveBot(s, t)
  PROVE  IInv' /\ KeepSeats(rooms, rooms')
<1>1. PICK r : r = rooms[bound[s]]
  OBVIOUS
<1>2. RoomInv(r) /\ DeviceOf[s] \in Ids(r) /\ DeviceOf[s] \in Humans
  BY <1>1, HostRoom DEF RemoveBot
<1>3. PICK q : q = [r EXCEPT !.players = Unseat(@, {t})]
  OBVIOUS
<1>4. r.status = "lobby" /\ t \in Bots /\ HostMessage(s) /\ rooms' = With(bound[s], q)
  BY <1>1, <1>3 DEF RemoveBot, IsBot
<1>5. RoomShape(q) /\ Ids(q) = Ids(r) \ {t}
  BY <1>2, <1>3, <1>4, UnseatShape DEF RoomInv
<1>6. RoomInv(q)
  BY <1>2, <1>4, <1>5, DevicesAssumption DEF RoomInv
<1> QED BY <1>1, <1>4, <1>6, HostMessageOK

\* room:bot-takeover.
LEMMA BotTakeoverOK ==
  ASSUME IInv, NEW s \in Sockets, NEW t, NEW b \in Bots, BotTakeover(s, t, b)
  PROVE  IInv' /\ KeepSeats(rooms, rooms')
<1>1. PICK r : r = rooms[bound[s]]
  OBVIOUS
<1>2. RoomInv(r) /\ bound[s] \in Open
  BY <1>1, HostRoom DEF BotTakeover
<1>3. r.status = "playing" /\ t \in Ids(r) /\ SeatIsEmpty(r, t) /\ b \notin Ids(r)
  BY <1>1, <1>2 DEF BotTakeover, FreshBot
<1>4. RoomInv(TakenOver(r, t, b)) /\ Present(r) \subseteq TakenOver(r, t, b).seats
  BY <1>2, <1>3, TakenOverInv
<1> QED BY <1>1, <1>4, HostMessageOK DEF BotTakeover

\* room:replacement.
LEMMA OfferSeatOK ==
  ASSUME IInv, NEW s \in Sockets, NEW t, OfferSeat(s, t)
  PROVE  IInv' /\ KeepSeats(rooms, rooms')
<1>1. PICK r : r = rooms[bound[s]]
  OBVIOUS
<1>2. RoomInv(r)
  BY <1>1, HostRoom DEF OfferSeat
<1>3. PICK q : q = [r EXCEPT !.offered = t]
  OBVIOUS
<1>4. /\ r.status = "playing" /\ (t = Nobody \/ (t \in Ids(r) /\ SeatIsEmpty(r, t)))
      /\ HostMessage(s) /\ rooms' = With(bound[s], q)
  BY <1>1, <1>3 DEF OfferSeat
<1>5. RoomInv(q) /\ Present(r) \subseteq q.seats
  BY <1>2, <1>3, <1>4, OfferedInv
<1> QED BY <1>1, <1>4, <1>5, HostMessageOK

\* game:new and game:continue.
LEMMA AgainOK ==
  ASSUME IInv, NEW s \in Sockets, Again(s)
  PROVE  IInv' /\ KeepSeats(rooms, rooms')
<1>1. PICK r : r = rooms[bound[s]]
  OBVIOUS
<1>2. RoomInv(r)
  BY <1>1, HostRoom DEF Again
<1>3. PICK q : q = [r EXCEPT !.game = "on"]
  OBVIOUS
<1>4. r.game = "end" /\ HostMessage(s) /\ rooms' = With(bound[s], q)
  BY <1>1, <1>3 DEF Again
<1>5. RoomInv(q) /\ Present(r) \subseteq q.seats
  BY <1>2, <1>3, <1>4, GameInv
<1> QED BY <1>1, <1>4, <1>5, HostMessageOK

\* A room changes by itself.
LEMMA ItselfOK ==
  ASSUME IInv, NEW n \in Open, NEW r, RoomInv(r),
         rooms[n].status = "playing" => Present(rooms[n]) \subseteq r.seats,
         rooms' = With(n, r), UNCHANGED <<created, up, bound, waiting>>
  PROVE  IInv' /\ KeepSeats(rooms, rooms')
<1> USE Parts
<1>1. GoodStep(rooms, rooms')
  BY WithGood
<1>2. HandlersOK'
  BY DEF HandlersOK
<1> QED BY <1>1, <1>2, StepOK

\* The last move of a game.
LEMMA GameEndsOK ==
  ASSUME IInv, NEW n, GameEnds(n)
  PROVE  IInv' /\ KeepSeats(rooms, rooms')
<1>1. PICK r, q : r = rooms[n] /\ q = [r EXCEPT !.game = "end"]
  OBVIOUS
<1>2. n \in Open /\ r.game = "on" /\ rooms' = With(n, q) /\ UNCHANGED <<created, up, bound, waiting>>
  BY <1>1 DEF GameEnds
<1>3. RoomInv(r)
  BY <1>1, <1>2, OpenRoom
<1>4. RoomInv(q) /\ Present(r) \subseteq q.seats
  BY <1>1, <1>2, <1>3, GameInv
<1> QED BY <1>1, <1>2, <1>4, ItselfOK

\* Ten minutes have passed for somebody.
LEMMA GracePassesOK ==
  ASSUME IInv, NEW n, NEW d, GracePasses(n, d)
  PROVE  IInv' /\ KeepSeats(rooms, rooms')
<1>1. PICK r, q : r = rooms[n] /\ q = [r EXCEPT !.players[d].away = "expired"]
  OBVIOUS
<1>2. /\ n \in Open /\ d \in Ids(r) /\ rooms' = With(n, q)
      /\ UNCHANGED <<created, up, bound, waiting>>
  BY <1>1 DEF GracePasses
<1>3. RoomInv(r)
  BY <1>1, <1>2, OpenRoom
<1>4. RoomInv(q) /\ q.seats = r.seats
  BY <1>1, <1>2, <1>3, GraceInv
<1> QED BY <1>1, <1>2, <1>3, <1>4, PresentSeated, ItselfOK

\* A connection breaks.
LEMMA DisconnectOK ==
  ASSUME IInv, NEW s \in Sockets, Disconnect(s)
  PROVE  IInv' /\ KeepSeats(rooms, rooms')
<1> USE Parts
<1>1. /\ up' = up \ {s} /\ bound' = [bound EXCEPT ![s] = 0] /\ rooms' = RoomsWithout(s)
      /\ created' = created /\ waiting' = waiting
  BY DEF Disconnect
<1>2. HandlersOK'
  BY <1>1 DEF HandlersOK
<1> QED BY <1>1, <1>2, RoomsWithoutGood, StepOK

\* The sweep.
LEMMA SweepOK ==
  ASSUME IInv, Sweep
  PROVE  IInv' /\ KeepSeats(rooms, rooms')
<1> USE Parts
<1>1. PICK stay : stay = {m \in Open : ~Abandoned(Swept(rooms[m]))}
  OBVIOUS
<1>2. rooms' = [n \in stay |-> Swept(rooms[n])] /\ UNCHANGED <<created, up, bound, waiting>>
  BY <1>1 DEF Sweep
<1>3. \A n \in stay : /\ n \in Open /\ RoomInv(rooms[n]) /\ RoomInv(Swept(rooms[n]))
                      /\ rooms[n].status = "playing" => Swept(rooms[n]) = rooms[n]
  BY <1>1, OpenRoom, SweptInv
<1>4. RoomsOK(rooms')
  BY <1>2, <1>3 DEF RoomsOK
<1>5. KeepSeats(rooms, rooms')
  BY <1>2, <1>3, PresentSeated DEF KeepSeats
<1>6. GoodStep(rooms, rooms')
  BY <1>2, <1>3, <1>4, <1>5 DEF GoodStep, Open
<1>7. HandlersOK'
  BY <1>2 DEF HandlersOK
<1> QED BY <1>2, <1>6, <1>7, StepOK

-------------------------------------------------------------------------------
(* The theorems.                                                           *)

\* Whatever a browser sends keeps the invariant.
LEMMA MessageOK ==
  ASSUME IInv, NEW s \in Sockets, Message(s)
  PROVE  IInv' /\ KeepSeats(rooms, rooms')
<1>1. CASE Create(s)
  BY <1>1, Parts, MoveToOK DEF Create
<1>2. CASE \E n \in RoomIds : Join(s, n)
  <2>1. \A n \in RoomIds : n \in 0..MaxRooms
    BY LimitsAssumption DEF RoomIds
  <2> QED BY <1>2, <2>1, MoveToOK DEF Join
<1>3. CASE Leave(s) \/ Exit(s) \/ Start(s) \/ Again(s) \/ OfferSeat(s, Nobody)
  BY <1>3, LeaveOK, ExitOK, StartOK, AgainOK, OfferSeatOK
<1>4. CASE \E t \in Devices : Kick(s, t) \/ RemoveSeat(s, t) \/ RemoveBot(s, t) \/ OfferSeat(s, t)
  BY <1>4, KickOK, RemoveSeatOK, RemoveBotOK, OfferSeatOK
<1>5. CASE \E b \in Bots : AddBot(s, b) \/ \E t \in Humans : BotTakeover(s, t, b)
  BY <1>5, AddBotOK, BotTakeoverOK
<1> QED BY <1>1, <1>2, <1>3, <1>4, <1>5 DEF Message

\* The invariant is inductive, and no step takes a seat from who is connected.
LEMMA NextOK ==
  ASSUME IInv, [Next]_rvars
  PROVE  IInv' /\ KeepSeats(rooms, rooms')
<1>1. CASE UNCHANGED rvars
  <2>1. rooms' = rooms /\ created' = created /\ up' = up /\ bound' = bound /\ waiting' = waiting
    BY <1>1 DEF rvars
  <2>2. HandlersOK'
    BY <2>1, Parts DEF HandlersOK
  <2> QED BY <2>1, <2>2, Parts, SameRooms, StepOK
<1>2. CASE \E s \in Sockets : Message(s) \/ Disconnect(s)
  BY <1>2, MessageOK, DisconnectOK
<1>3. CASE \E i \in 1..MaxWaiting : Continue(i)
  BY <1>3, ReleaseOK, AfterReleaseOK, LeaveDoneOK, EvictOK, ExitNextOK DEF Continue
<1>4. CASE \E n \in RoomIds : GameEnds(n) \/ \E d \in Devices : GracePasses(n, d)
  BY <1>4, GameEndsOK, GracePassesOK
<1>5. CASE Sweep
  BY <1>5, SweepOK
<1> QED BY <1>1, <1>2, <1>3, <1>4, <1>5 DEF Next

\* The server starts without rooms and without handlers.
LEMMA InitOK == ASSUME Init PROVE IInv
<1>1. Open = {} /\ RoomsOK(rooms)
  BY DEF Init, Open, RoomsOK
<1>2. SocketsOK
  BY <1>1, FS_EmptySet, LimitsAssumption DEF Init, SocketsOK
<1>3. HandlersOK
  <2>1. PICK v : v = Idle
    OBVIOUS
  <2>2. v \in Handler /\ v.at = "idle"
    BY <2>1, LimitsAssumption DEF Idle, Handler, Steps
  <2>3. waiting = [i \in 1..MaxWaiting |-> v]
    BY <2>1 DEF Init
  <2> QED BY <2>2, <2>3 DEF HandlersOK
<1> QED BY <1>1, <1>2, <1>3 DEF IInv

\* The invariant holds for ever.
LEMMA Inductive == Spec => []IInv
<1>1. Init => IInv
  BY InitOK
<1>2. IInv /\ [Next]_rvars => IInv'
  BY NextOK
<1> QED BY <1>1, <1>2, PTL DEF Spec

\* The types, and that no room is empty or over its capacity (joinRoom 244).
THEOREM RoomsTyped == Spec => []TypeOK
<1>1. IInv => TypeOK
  <2> SUFFICES ASSUME IInv PROVE TypeOK
    OBVIOUS
  <2>1. \A n \in Open : IsRoom(rooms[n]) /\ Cardinality(Ids(rooms[n])) \in 1..MaxPlayers
    <3> TAKE n \in Open
    <3>1. RoomInv(rooms[n])
      BY OpenRoom
    <3>2. IsRoom(rooms[n])
      BY <3>1, RoomType DEF RoomInv, RoomShape
    <3>3. IsFiniteSet(Ids(rooms[n])) /\ Ids(rooms[n]) # {} /\ Cardinality(Ids(rooms[n])) <= MaxPlayers
      BY <3>1 DEF RoomInv, RoomShape, IsTable, Ids
    <3>4. Cardinality(Ids(rooms[n])) \in Nat /\ Cardinality(Ids(rooms[n])) # 0
      BY <3>3, FS_CardinalityType, FS_EmptySet
    <3> QED BY <3>2, <3>3, <3>4, LimitsAssumption
  <2> QED BY <2>1 DEF IInv, SocketsOK, HandlersOK, TypeOK
<1> QED BY <1>1, Inductive, PTL

\* Players and seats of a game never drift apart (kickPlayer, leaveRoom, startRoom,
\* botTakeover, removePlayerFromRoom, joinRoom).
THEOREM SeatsMatchTheGame == Spec => []SeatsAreGameSeats
<1>1. IInv => SeatsAreGameSeats
  BY OpenRoom DEF SeatsAreGameSeats, RoomInv, RoomShape
<1> QED BY <1>1, Inductive, PTL

\* Who was kicked or replaced is never back at the table (kickedDeviceIds).
THEOREM DepartedNeverBack == Spec => []DepartedStayOut
<1>1. IInv => DepartedStayOut
  BY OpenRoom DEF DepartedStayOut, RoomInv, RoomShape
<1> QED BY <1>1, Inductive, PTL

\* A newcomer is never dealt the hand of somebody who is back (replacementForDeviceId).
THEOREM OfferedSeatsAreFree == Spec => []OfferedSeatIsFree
<1>1. IInv => OfferedSeatIsFree
  BY OpenRoom DEF OfferedSeatIsFree, RoomInv, RoomShape
<1> QED BY <1>1, Inductive, PTL

\* Nobody who is connected loses the seat in a game, in any step.
THEOREM NobodyLosesTheSeat == Spec => ConnectedPlayersKeepSeats
<1>1. IInv /\ [Next]_rvars =>
        [\A n \in Open : n \in DOMAIN rooms' /\ rooms[n].status = "playing" =>
           Present(rooms[n]) \subseteq rooms'[n].seats]_rvars
  BY NextOK DEF KeepSeats, Open
<1> QED BY <1>1, Inductive, PTL DEF Spec, ConnectedPlayersKeepSeats
===============================================================================
