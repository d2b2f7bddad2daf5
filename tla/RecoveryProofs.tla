----------------------------- MODULE RecoveryProofs -----------------------------
(***************************************************************************)
(* Proofs about Recovery.  The room, its queued writes and its snapshot    *)
(* are reasoned about first (order, and what an exit leaves), then the     *)
(* tokens of a browser with one tab, whose record always proves its seat.  *)
(***************************************************************************)
EXTENDS Recovery, SequenceTheorems, TLAPS

-------------------------------------------------------------------------------
(* Types.                                                                  *)

Rooms == [ver : Nat, hash : Nat \cup {NoHash}, sock : Holders]
Values == Snapshots \cup {None}
Operations == [value : Values, wakes : SUBSET Slots]
\* What a handler waits for: Redis or the queue, as a join; the revocation of a
\* changed room; the revocations and the deletion of an exit.
JoinStates == {"get", "queue", "unread", "write", "written"}
HandlerStates == JoinStates \cup {"idle", "revoke", "exit", "deleting", "deleted"}
Handlers == [at : HandlerStates, tab : Holders, pair : Pair, conn : BOOLEAN, wanted : BOOLEAN,
             room : Rooms \cup {None}, evict : Tabs \cup {Nobody}]
TabStates == [net : BOOLEAN, member : BOOLEAN, asked : BOOLEAN, pair : Pair, timer : BOOLEAN,
              req : {"none", "wait", "sent", "served", "ok", "no", "lost"}]

Typed ==
  /\ saved \in Values /\ late \subseteq Values /\ queue \in Seq(Operations)
  /\ mem \in Rooms \cup {None}
  /\ handlers \in [Slots -> Handlers]
  /\ record \in Pair \cup {NoRecord} /\ drawn \in Nat
  /\ tab \in [Tabs -> TabStates]
  /\ clean \in BOOLEAN /\ exited \in BOOLEAN

-------------------------------------------------------------------------------
(* The invariants.                                                         *)

\* A room that was changed is in memory while its write waits for a revocation, or its
\* handler holds on to it.
ChangesHeld == mem = None => \A i \in Slots : handlers[i].at = "revoke" => handlers[i].room # None

\* The revocations and the deletion of an exit come after it.
ExitStates == {"exit", "deleting", "deleted"}
ExitsAreKnown == \A i \in Slots : handlers[i].at \in ExitStates => exited

Live == clean /\ ~exited
\* Nothing is written for a room that is not in memory.
NothingToWrite == Live /\ mem = None => queue = <<>>

\* The deletion is to come, or is the last operation, or is done.
LastDeletes == queue # <<>> /\ queue[Len(queue)].value = None
Forgetting ==
  clean /\ exited /\ mem = None =>
    \/ \E i \in Slots : handlers[i].at = "exit"
    \/ LastDeletes
    \/ queue = <<>> /\ saved = None

\* An operation wakes handlers that wait, and each of them has one such operation.
WakesWaiting ==
  \A k \in 1..Len(queue) :
    /\ \A i \in queue[k].wakes : handlers[i].at \in {"write", "queue", "deleting"}
    /\ \A j \in 1..Len(queue) : j # k => queue[j].wakes \cap queue[k].wakes = {}

RoomInv ==
  /\ Typed /\ ChangesHeld /\ ExitsAreKnown /\ NothingToWrite /\ WritesInOrder /\ Forgetting
  /\ WakesWaiting

\* The record holds the last two tokens that were drawn.
RecordIsNewest ==
  IF record = NoRecord THEN drawn = 0
  ELSE drawn >= 2 /\ record.current = drawn - 1 /\ record.pending = drawn
\* A join carries tokens drawn one after the other.
JoinsCarryPairs ==
  \A i \in Slots : handlers[i].at \in JoinStates =>
    /\ handlers[i].tab \in Tabs /\ handlers[i].evict = Nobody
    /\ handlers[i].pair.current >= 1 /\ handlers[i].pair.pending = handlers[i].pair.current + 1
    /\ handlers[i].pair.pending <= drawn
\* A request that is not given up carries the record.
RequestsCarryRecord ==
  \A t \in Tabs : tab[t].req \in {"wait", "sent", "served", "ok"} =>
    record # NoRecord /\ tab[t].pair = record
\* At most one join is awaited, with the record.
Awaited(i) == handlers[i].at \in JoinStates /\ handlers[i].wanted
AwaitedCarriesRecord ==
  \A i \in Slots : Awaited(i) =>
    /\ tab[handlers[i].tab].req = "served" /\ handlers[i].pair = record /\ record # NoRecord
    /\ \A k \in Slots : Awaited(k) => k = i
\* No seat answers to a token that was drawn before the record's, and none to nothing
\* once a token was confirmed.
Proven ==
  {h \in {NoHash} : drawn <= 2} \cup
  (IF record = NoRecord THEN {} ELSE {record.current, record.pending})
\* In memory, in Redis and in the queue.
HashesIn(S) ==
  /\ mem # None => mem.hash \in S
  /\ saved # None => saved.hash \in S
  /\ \A k \in 1..Len(queue) : queue[k].value # None => queue[k].value.hash \in S
\* A join that was written has left nothing older behind.
WriteFollowed(i) ==
  \A k \in 1..Len(queue) : i \in queue[k].wakes =>
    \A j \in k..Len(queue) : queue[j].value # None => queue[j].value.hash = record.pending
AnswersConfirm ==
  /\ \A t \in Tabs : tab[t].req = "ok" => HashesIn({record.pending})
  /\ \A i \in Slots : Awaited(i) /\ handlers[i].at = "written" => HashesIn({record.pending})
  /\ \A i \in Slots : Awaited(i) /\ handlers[i].at = "write" =>
       mem # None /\ mem.hash = record.pending /\ WriteFollowed(i)

Tokens ==
  /\ RecordIsNewest /\ JoinsCarryPairs /\ RequestsCarryRecord /\ AwaitedCarriesRecord
  /\ HashesIn(Proven) /\ AnswersConfirm
TokenInv == Live => Tokens

-------------------------------------------------------------------------------
(* Rooms, snapshots and the queue.                                         *)

\* A changed room is a room one version on, and a room has a snapshot.
LEMMA RoomTyped ==
  ASSUME NEW room \in Rooms
  PROVE  /\ Changed(room) \in Rooms /\ Changed(room).ver = room.ver + 1
         /\ Changed(room).hash = room.hash /\ Changed(room).sock = room.sock
         /\ Snapshot(room) \in Snapshots
         /\ Snapshot(room).ver = room.ver /\ Snapshot(room).hash = room.hash
         /\ room.ver \in Nat /\ room.hash \in Nat \cup {NoHash} /\ room.sock \in Holders
         /\ room # None /\ Snapshot(room) # None
<1>1. room # None /\ \A snap \in Snapshots : snap # None
  BY NothingAssumption DEF Rooms, Snapshots, Holders
<1>2. Snapshot(room) \in Snapshots /\ Snapshot(room).ver = room.ver /\ Snapshot(room).hash = room.hash
  BY DEF Snapshot, Snapshots, Rooms
<1> QED BY <1>1, <1>2 DEF Changed, Rooms

\* A restored room has the version and the hash of its snapshot.
LEMMA RestoredTyped ==
  ASSUME NEW snap \in Snapshots
  PROVE  /\ Restored(snap) \in Rooms /\ Restored(snap).ver = snap.ver
         /\ Restored(snap).hash = snap.hash /\ snap.ver \in Nat /\ snap # None
BY NothingAssumption DEF Restored, Snapshots, Rooms, Holders

\* An operation is added to the queue.
LEMMA QueueLonger ==
  ASSUME queue \in Seq(Operations), NEW value \in Values, NEW who \in SUBSET Slots,
         queue' = Enqueued(value, who)
  PROVE  /\ queue' \in Seq(Operations) /\ Len(queue') = Len(queue) + 1 /\ Len(queue) \in Nat
         /\ queue' # <<>>
         /\ \A k \in 1..Len(queue) : queue'[k] = queue[k]
         /\ queue'[Len(queue) + 1].value = value /\ queue'[Len(queue) + 1].wakes = who
<1> DEFINE op == Operation(value, who)
<1>1. op \in Operations /\ op.value = value /\ op.wakes = who
  BY DEF Operation, Operations
<1>2. queue' = Append(queue, op)
  BY DEF Enqueued
<1> HIDE DEF op
<1>3. /\ queue' \in Seq(Operations) /\ Len(queue') = Len(queue) + 1 /\ queue' # <<>>
      /\ \A k \in 1..Len(queue) : queue'[k] = queue[k]
      /\ queue'[Len(queue) + 1] = op
  BY <1>1, <1>2, AppendProperties
<1> QED BY <1>1, <1>3

\* The first operation leaves the queue.
LEMMA QueueShorter ==
  ASSUME queue \in Seq(Operations), queue # <<>>, queue' = Tail(queue)
  PROVE  /\ queue' \in Seq(Operations) /\ Len(queue') = Len(queue) - 1 /\ Len(queue) \in Nat \ {0}
         /\ \A k \in 1..Len(queue') : k + 1 \in 1..Len(queue) /\ queue'[k] = queue[k + 1]
         /\ Ending = queue[1] /\ 1 \in 1..Len(queue)
BY HeadTailProperties DEF Ending

\* What the queue will leave in Redis does not change.
SameValues ==
  /\ queue' \in Seq(Operations) /\ Len(queue') = Len(queue) /\ Len(queue) \in Nat
  /\ \A k \in 1..Len(queue) : queue'[k].value = queue[k].value

\* A queued operation writes a value and wakes slots.
LEMMA QueueTyped ==
  ASSUME queue \in Seq(Operations)
  PROVE  /\ Len(queue) \in Nat
         /\ \A k \in 1..Len(queue) : queue[k].value \in Values /\ queue[k].wakes \subseteq Slots
<1> SUFFICES ASSUME NEW k \in 1..Len(queue) PROVE queue[k].value \in Values /\ queue[k].wakes \subseteq Slots
  OBVIOUS
<1>1. queue[k] \in Operations
  OBVIOUS
<1> QED BY <1>1 DEF Operations

\* A queue that stays holds the same values.
LEMMA QueueUnchanged ==
  ASSUME queue \in Seq(Operations), queue' = queue
  PROVE  SameValues
BY DEF SameValues

\* A reader waits for the last operation.
LEMMA QueueJoined ==
  ASSUME queue \in Seq(Operations), queue # <<>>, NEW i \in Slots, queue' = Behind(i)
  PROVE  /\ SameValues
         /\ \A k \in 1..(Len(queue) - 1) : queue'[k].wakes = queue[k].wakes
         /\ queue'[Len(queue)].wakes = queue[Len(queue)].wakes \cup {i}
<1> DEFINE n == Len(queue)
<1>1. n \in Nat /\ n >= 1 /\ n \in 1..n
  OBVIOUS
<1>2. queue[n] \in Operations
  BY <1>1
<1> DEFINE op == [queue[n] EXCEPT !.wakes = @ \cup {i}]
<1>3. op \in Operations /\ op.value = queue[n].value /\ op.wakes = queue[n].wakes \cup {i}
  BY <1>2 DEF Operations
<1>4. queue' = [queue EXCEPT ![n] = op]
  BY <1>1, <1>2 DEF Behind
<1> HIDE DEF op
<1>5. queue' \in Seq(Operations) /\ Len(queue') = n
  BY <1>1, <1>3, <1>4, ExceptSeq
<1>6. queue'[n] = op /\ \A k \in 1..(n - 1) : queue'[k] = queue[k]
  BY <1>1, <1>4
<1>7. \A k \in 1..n : k = n \/ k \in 1..(n - 1)
  BY <1>1
<1> QED BY <1>1, <1>3, <1>5, <1>6, <1>7 DEF SameValues

-------------------------------------------------------------------------------
(* Handlers and tabs.                                                      *)

\* The parts of a handler, and what remains a handler when parts change.
LEMMA HandlerTyped ==
  ASSUME NEW h \in Handlers
  PROVE  /\ h.at \in HandlerStates /\ h.tab \in Holders /\ h.pair \in Pair
         /\ h.conn \in BOOLEAN /\ h.wanted \in BOOLEAN /\ h.room \in Rooms \cup {None}
         /\ h.evict \in Tabs \cup {Nobody}
         /\ \A at \in HandlerStates : [h EXCEPT !.at = at] \in Handlers
         /\ \A e \in Tabs \cup {Nobody} : [h EXCEPT !.at = "write", !.evict = e] \in Handlers
         /\ [h EXCEPT !.wanted = FALSE] \in Handlers
         /\ \A room \in Rooms : [h EXCEPT !.room = room] \in Handlers
         /\ \A b \in BOOLEAN : [h EXCEPT !.conn = b] \in Handlers
         /\ \A p \in Pair : [h EXCEPT !.pair = p] \in Handlers
<1>1. "write" \in HandlerStates
  BY DEF HandlerStates, JoinStates
<1> QED BY <1>1 DEF Handlers

\* A handler whose own connection, or the one it is to close, is gone.
LEMMA DisconnectedTyped ==
  ASSUME NEW h \in Handlers, NEW t \in Tabs
  PROVE  LET g == Disconnected(h, t)
             u == [g EXCEPT !.wanted = FALSE]
         IN  /\ g \in Handlers /\ u \in Handlers /\ u.wanted = FALSE /\ g.wanted = h.wanted
             /\ g.at = h.at /\ g.tab = h.tab /\ g.pair = h.pair /\ g.room = h.room
             /\ u.at = h.at /\ u.tab = h.tab /\ u.pair = h.pair /\ u.room = h.room
             /\ g.evict \in {h.evict, Nobody} /\ u.evict \in {h.evict, Nobody}
<1> DEFINE conn == IF h.tab = t THEN FALSE ELSE h.conn
           evict == IF h.evict = t THEN Nobody ELSE h.evict
           g == [h EXCEPT !.conn = conn, !.evict = evict]
<1>1. conn \in BOOLEAN /\ evict \in Tabs \cup {Nobody} /\ evict \in {h.evict, Nobody}
  BY DEF Handlers
<1>2. Disconnected(h, t) = g
  BY DEF Disconnected
<1> HIDE DEF conn, evict
<1>3. g \in Handlers
  BY <1>1 DEF Handlers
<1>4. /\ g.at = h.at /\ g.tab = h.tab /\ g.pair = h.pair /\ g.room = h.room
      /\ g.wanted = h.wanted /\ g.evict = evict
  BY DEF Handlers
<1> HIDE DEF g
<1>5. [g EXCEPT !.wanted = FALSE] \in Handlers
  BY <1>3 DEF Handlers
<1>6. LET u == [g EXCEPT !.wanted = FALSE]
      IN  /\ u.at = g.at /\ u.tab = g.tab /\ u.pair = g.pair /\ u.room = g.room
          /\ u.wanted = FALSE /\ u.evict = g.evict
  BY <1>3 DEF Handlers
<1> QED BY <1>1, <1>2, <1>3, <1>4, <1>5, <1>6

\* Idle slots and new handlers.
LEMMA NewHandlerTyped ==
  /\ Idle \in Handlers /\ Idle.at = "idle" /\ Idle.tab = Nobody /\ Idle.room = None
  /\ \A at \in HandlerStates, t \in Holders :
       /\ Handler(at, t) \in Handlers /\ Handler(at, t).at = at /\ Handler(at, t).tab = t
       /\ Handler(at, t).room = None
<1>1. "idle" \in HandlerStates /\ Nobody \in Holders
  BY DEF HandlerStates, JoinStates, Holders
<1>2. NoPair \in Pair
  BY DEF NoPair, Pair
<1>3. Idle \in Handlers /\ Idle.at = "idle" /\ Idle.tab = Nobody /\ Idle.room = None
  BY <1>1, <1>2 DEF Idle, Handlers
<1> QED BY <1>1, <1>2, <1>3 DEF Idle, Handler, Handlers

Reqs == {"none", "wait", "sent", "served", "ok", "no", "lost"}

\* The parts of a tab, and what remains a tab when parts change.
LEMMA TabTyped ==
  ASSUME NEW s \in TabStates
  PROVE  /\ s.net \in BOOLEAN /\ s.member \in BOOLEAN /\ s.asked \in BOOLEAN /\ s.pair \in Pair
         /\ s.timer \in BOOLEAN /\ s.req \in Reqs
         /\ \A r \in Reqs : [s EXCEPT !.req = r] \in TabStates
         /\ \A r \in Reqs, p \in Pair : [s EXCEPT !.pair = p, !.req = r] \in TabStates
         /\ \A r \in Reqs, m, a \in BOOLEAN :
              [s EXCEPT !.req = r, !.member = m, !.asked = a] \in TabStates
         /\ \A r \in Reqs, m, n \in BOOLEAN :
              [s EXCEPT !.net = n, !.member = m, !.req = r] \in TabStates
         /\ \A r \in Reqs, n \in BOOLEAN : [s EXCEPT !.net = n, !.req = r] \in TabStates
         /\ \A m, a \in BOOLEAN : [s EXCEPT !.member = m, !.asked = a] \in TabStates
         /\ \A r \in Reqs, a \in BOOLEAN : [s EXCEPT !.req = r, !.asked = a] \in TabStates
         /\ \A b \in BOOLEAN : /\ [s EXCEPT !.net = b] \in TabStates
                               /\ [s EXCEPT !.member = b] \in TabStates
                               /\ [s EXCEPT !.timer = b] \in TabStates
BY DEF TabStates, Reqs

\* A tab that was just opened.
LEMMA QuietTyped == Quiet \in TabStates
<1>1. NoPair \in Pair
  BY DEF NoPair, Pair
<1> QED BY <1>1 DEF Quiet, TabStates

\* A tab that lost its connection.
LEMMA OfflineTyped == \A s \in TabStates : Offline(s) \in TabStates
<1> SUFFICES ASSUME NEW s \in TabStates PROVE Offline(s) \in TabStates
  OBVIOUS
<1>1. s.req \in Reqs /\ "lost" \in Reqs
  BY TabTyped DEF Reqs
<1>2. CASE s.req \in {"sent", "served", "ok", "no"}
  <2>1. Offline(s) = [s EXCEPT !.net = FALSE, !.req = "lost"]
    BY <1>2 DEF Offline
  <2> QED BY <2>1, <1>1 DEF TabStates, Reqs
<1>3. CASE s.req \notin {"sent", "served", "ok", "no"}
  <2>1. Offline(s) = [s EXCEPT !.net = FALSE, !.req = s.req]
    BY <1>3 DEF Offline
  <2> QED BY <2>1, <1>1 DEF TabStates, Reqs
<1> QED BY <1>2, <1>3

\* A browser that joins has a record from then on.
LEMMA PairTyped ==
  ASSUME record \in Pair \cup {NoRecord}, drawn \in Nat
  PROVE  /\ Prepared(record, drawn) \in Pair /\ DrawnToPrepare(record) \in Nat
         /\ Committed(record, drawn) \in Pair \cup {NoRecord}
<1>1. [current |-> drawn + 1, pending |-> drawn + 2] \in Pair
  BY DEF Pair
<1>2. record # NoRecord => record \in Pair /\ [current |-> record.pending, pending |-> drawn + 1] \in Pair
  BY DEF Pair
<1> QED BY <1>1, <1>2 DEF Prepared, DrawnToPrepare, Committed

-------------------------------------------------------------------------------
(* The room keeps its types.                                               *)

StoreTyped ==
  saved \in Values /\ late \subseteq Values /\ queue \in Seq(Operations) /\ mem \in Rooms \cup {None}
RestTyped ==
  /\ handlers \in [Slots -> Handlers]
  /\ record \in Pair \cup {NoRecord} /\ drawn \in Nat
  /\ tab \in [Tabs -> TabStates]
  /\ clean \in BOOLEAN /\ exited \in BOOLEAN

\* The types of the server's variables and of the others together are all types.
LEMMA TypedParts == Typed <=> StoreTyped /\ RestTyped
BY DEF Typed, StoreTyped, RestTyped

\* The room is written as it is now.
LEMMA RoomWritten ==
  ASSUME StoreTyped, UNCHANGED <<saved, late>>, mem' \in Rooms, NEW who \in SUBSET Slots,
         queue' = Enqueued(Snapshot(mem'), who)
  PROVE  StoreTyped'
<1>1. Snapshot(mem') \in Snapshots
  BY RoomTyped
<1> DEFINE snap == Snapshot(mem')
<1>2. snap \in Values
  BY <1>1 DEF Values
<1> HIDE DEF snap
<1>3. queue' = Enqueued(snap, who)
  BY DEF snap
<1>4. queue' \in Seq(Operations)
  BY <1>2, <1>3, QueueLonger DEF StoreTyped
<1> QED BY <1>4 DEF StoreTyped

\* A join gets the seat: the room is written, and its handler waits for that.
LEMMA SeatGiven ==
  ASSUME StoreTyped, handlers \in [Slots -> Handlers], NEW i \in Slots, NEW h \in Handlers,
         NEW room \in Rooms, GiveSeat(i, h, room)
  PROVE  /\ mem' \in Rooms /\ mem'.ver = room.ver + 1 /\ mem'.hash = h.pair.pending
         /\ queue' = Enqueued(Snapshot(mem'), {i})
         /\ \E e \in (Tabs \ {h.tab}) \cup {Nobody} :
              handlers' = [handlers EXCEPT ![i] = [h EXCEPT !.at = "write", !.evict = e]]
         /\ handlers' \in [Slots -> Handlers]
<1>1. h.pair \in Pair /\ h.tab \in Holders /\ h.pair.pending \in Nat
  BY HandlerTyped DEF Pair
<1> DEFINE holder == IF h.conn THEN h.tab ELSE Ghost
           seated == [room EXCEPT !.hash = h.pair.pending, !.sock = holder]
<1>2. holder \in Holders
  BY <1>1 DEF Holders
<1>3. seated \in Rooms /\ seated.ver = room.ver /\ seated.hash = h.pair.pending
  BY <1>1, <1>2 DEF Rooms
<1>4. mem' = Changed(seated)
  BY DEF GiveSeat
<1> HIDE DEF seated
<1>5. mem' \in Rooms /\ mem'.ver = room.ver + 1 /\ mem'.hash = h.pair.pending
  BY <1>3, <1>4, RoomTyped
<1>6. queue' = Enqueued(Snapshot(mem'), {i})
  BY <1>4 DEF GiveSeat
<1>7. PICK e \in (Tabs \ {h.tab}) \cup {Nobody} :
        handlers' = [handlers EXCEPT ![i] = [h EXCEPT !.at = "write", !.evict = e]]
  <2> DEFINE before == IF room.sock \in Tabs \ {h.tab} THEN room.sock ELSE Nobody
  <2>1. before \in (Tabs \ {h.tab}) \cup {Nobody}
    OBVIOUS
  <2>2. handlers' = [handlers EXCEPT ![i] = [h EXCEPT !.at = "write", !.evict = before]]
    BY DEF GiveSeat
  <2> QED BY <2>1, <2>2
<1>8. [h EXCEPT !.at = "write", !.evict = e] \in Handlers
  BY <1>7, HandlerTyped
<1>9. handlers' \in [Slots -> Handlers]
  BY <1>7, <1>8
<1> QED BY <1>5, <1>6, <1>7, <1>9

\* A join that waited for Redis gets the seat or is refused.
LEMMA Decided ==
  ASSUME Typed, NEW i \in Slots, NEW room \in Rooms \cup {None}, Decide(i, handlers[i], room)
  PROVE  \/ room \in Rooms /\ Accepts(room, handlers[i].pair) /\ GiveSeat(i, handlers[i], room)
            /\ UNCHANGED tab
         \/ /\ mem' = room /\ UNCHANGED queue
            /\ handlers' = [handlers EXCEPT ![i] = Idle] /\ Answer(handlers[i].tab, handlers[i], "no")
BY DEF Decide, Accepts, Refuse

\* A refusal leaves tabs.
LEMMA AnswerTyped ==
  ASSUME RestTyped, NEW t, NEW h, Answer(t, h, "no")
  PROVE  tab' \in [Tabs -> TabStates]
<1>1. CASE t \in Tabs /\ h.wanted /\ tab[t].req = "served"
  <2>1. tab[t] \in TabStates /\ "no" \in Reqs
    BY <1>1 DEF RestTyped, Reqs
  <2>2. [tab[t] EXCEPT !.req = "no"] \in TabStates
    BY <2>1, TabTyped
  <2>3. tab' = [tab EXCEPT ![t] = [tab[t] EXCEPT !.req = "no"]]
    BY <1>1 DEF Answer
  <2> QED BY <1>1, <2>2, <2>3 DEF RestTyped
<1>2. CASE ~(t \in Tabs /\ h.wanted /\ tab[t].req = "served")
  BY <1>2 DEF Answer, RestTyped
<1> QED BY <1>1, <1>2

\* A join that is decided keeps the types, with any room it may be decided on.
LEMMA DecideTyped ==
  ASSUME Typed, NEW i \in Slots, NEW room \in Rooms \cup {None}, Decide(i, handlers[i], room),
         UNCHANGED <<saved, late, record, drawn, exited>>, clean' \in BOOLEAN
  PROVE  Typed'
<1>1. StoreTyped /\ RestTyped /\ handlers \in [Slots -> Handlers] /\ handlers[i] \in Handlers
  BY TypedParts DEF RestTyped
<1>2. CASE room \in Rooms /\ GiveSeat(i, handlers[i], room) /\ UNCHANGED tab
  <2>1. mem' \in Rooms /\ queue' = Enqueued(Snapshot(mem'), {i}) /\ handlers' \in [Slots -> Handlers]
    BY <1>1, <1>2, SeatGiven
  <2>2. StoreTyped'
    BY <1>1, <2>1, RoomWritten
  <2> QED BY <1>1, <1>2, <2>1, <2>2, TypedParts DEF RestTyped, Typed, StoreTyped
<1>3. CASE /\ mem' = room /\ UNCHANGED queue
           /\ handlers' = [handlers EXCEPT ![i] = Idle] /\ Answer(handlers[i].tab, handlers[i], "no")
  <2>1. tab' \in [Tabs -> TabStates]
    BY <1>1, <1>3, AnswerTyped
  <2>2. handlers' \in [Slots -> Handlers]
    BY <1>1, <1>3, NewHandlerTyped
  <2> QED BY <1>1, <1>3, <2>1, <2>2 DEF Typed, RestTyped, StoreTyped
<1> QED BY <1>2, <1>3, Decided

\* A tab asks for its seat.
LEMMA JoinPerformed ==
  ASSUME RestTyped, NEW t \in Tabs, NEW s \in TabStates, PerformJoin(t, s)
  PROVE  /\ record' \in Pair \cup {NoRecord} /\ drawn' \in Nat /\ tab' \in [Tabs -> TabStates]
         /\ record' = Prepared(record, drawn) /\ drawn' = drawn + DrawnToPrepare(record)
         /\ \E r \in {"sent", "wait"} : tab' = [tab EXCEPT ![t] = [s EXCEPT !.pair = record', !.req = r]]
<1>1. Prepared(record, drawn) \in Pair /\ DrawnToPrepare(record) \in Nat
  BY PairTyped DEF RestTyped
<1>2. record' = Prepared(record, drawn) /\ drawn' = drawn + DrawnToPrepare(record)
  BY DEF PerformJoin
<1>3. PICK r \in {"sent", "wait"} : tab' = [tab EXCEPT ![t] = [s EXCEPT !.pair = record', !.req = r]]
  BY DEF PerformJoin
<1>4. [s EXCEPT !.pair = record', !.req = r] \in TabStates
  BY <1>1, <1>2, <1>3, TabTyped DEF Reqs
<1> DEFINE asking == [s EXCEPT !.pair = record', !.req = r]
<1>5. asking \in TabStates /\ tab' = [tab EXCEPT ![t] = asking]
  BY <1>3, <1>4
<1> HIDE DEF asking
<1>6. tab' \in [Tabs -> TabStates]
  BY <1>5 DEF RestTyped
<1>7. record' \in Pair \cup {NoRecord} /\ drawn' \in Nat
  BY <1>1, <1>2 DEF RestTyped
<1> QED BY <1>2, <1>3, <1>6, <1>7

\* One lemma per action: opening the room keeps the types...
LEMMA JoinRoomTyped ==
  ASSUME Typed, NEW t \in Tabs, JoinRoom(t)
  PROVE  Typed'
<1> DEFINE asking == [tab[t] EXCEPT !.member = TRUE, !.asked = TRUE]
<1>1. RestTyped /\ tab \in [Tabs -> TabStates] /\ tab[t] \in TabStates
  BY TypedParts DEF RestTyped
<1>2. asking \in TabStates
  BY <1>1 DEF TabStates
<1>3. \/ PerformJoin(t, asking)
      \/ tab' = [tab EXCEPT ![t] = asking] /\ UNCHANGED <<record, drawn>>
  BY DEF JoinRoom
<1>4. UNCHANGED <<pvars, mem, handlers, exited, clean>>
  BY DEF JoinRoom
<1> HIDE DEF asking
<1>5. record' \in Pair \cup {NoRecord} /\ drawn' \in Nat /\ tab' \in [Tabs -> TabStates]
  BY <1>1, <1>2, <1>3, JoinPerformed DEF RestTyped
<1> QED BY <1>4, <1>5 DEF Typed, pvars

\* ...and so does a connection...
LEMMA ConnectTyped ==
  ASSUME Typed, NEW t \in Tabs, Connect(t)
  PROVE  Typed'
<1> DEFINE online == [tab[t] EXCEPT !.net = TRUE]
<1>1. RestTyped /\ tab \in [Tabs -> TabStates] /\ tab[t] \in TabStates
  BY TypedParts DEF RestTyped
<1>2. online \in TabStates /\ online.req \in Reqs
  BY <1>1 DEF TabStates, Reqs
<1>3. \/ PerformJoin(t, online)
      \/ /\ tab' = [tab EXCEPT ![t] = [online EXCEPT !.req = IF online.req = "wait" THEN "sent" ELSE online.req]]
         /\ UNCHANGED <<record, drawn>>
  BY DEF Connect
<1>4. UNCHANGED <<pvars, mem, handlers, exited, clean>>
  BY DEF Connect, history
<1> HIDE DEF online
<1>5. CASE PerformJoin(t, online)
  <2>1. record' \in Pair \cup {NoRecord} /\ drawn' \in Nat /\ tab' \in [Tabs -> TabStates]
    BY <1>1, <1>2, <1>5, JoinPerformed
  <2> QED BY <1>4, <2>1 DEF Typed, pvars
<1>6. CASE /\ tab' = [tab EXCEPT ![t] = [online EXCEPT !.req = IF online.req = "wait" THEN "sent" ELSE online.req]]
           /\ UNCHANGED <<record, drawn>>
  <2> DEFINE req == IF online.req = "wait" THEN "sent" ELSE online.req
  <2>1. req \in Reqs
    BY <1>2 DEF Reqs
  <2>2. [online EXCEPT !.req = req] \in TabStates
    BY <1>2, <2>1 DEF TabStates, Reqs
  <2>3. tab' \in [Tabs -> TabStates]
    BY <1>1, <1>6, <2>2
  <2> QED BY <1>4, <1>6, <2>3 DEF Typed, pvars
<1> QED BY <1>3, <1>5, <1>6

\* ...a join that is given up...
LEMMA TimeOutTyped ==
  ASSUME Typed, NEW t \in Tabs, TimeOut(t)
  PROVE  Typed'
<1> DEFINE stopped == [tab[t] EXCEPT !.req = "none", !.asked = FALSE]
<1>1. tab \in [Tabs -> TabStates] /\ tab[t] \in TabStates /\ handlers \in [Slots -> Handlers]
  BY DEF Typed
<1>2. stopped \in TabStates
  BY <1>1 DEF TabStates
<1>3. /\ tab' = [tab EXCEPT ![t] = ScheduleRejoin(stopped)]
      /\ handlers' = [i \in Slots |-> IF handlers[i].tab = t
                        THEN [handlers[i] EXCEPT !.wanted = FALSE] ELSE handlers[i]]
      /\ UNCHANGED <<pvars, mem, record, drawn, history>>
  BY DEF TimeOut
<1> HIDE DEF stopped
<1>4. ScheduleRejoin(stopped) \in TabStates
  BY <1>2 DEF ScheduleRejoin, TabStates
<1>5. tab' \in [Tabs -> TabStates]
  BY <1>1, <1>3, <1>4
<1>6. \A i \in Slots : [handlers[i] EXCEPT !.wanted = FALSE] \in Handlers
  BY <1>1, HandlerTyped
<1>7. handlers' \in [Slots -> Handlers]
  BY <1>1, <1>3, <1>6
<1> QED BY <1>3, <1>5, <1>7 DEF Typed, pvars, history

\* ...the rejoin timer...
LEMMA RejoinTyped ==
  ASSUME Typed, NEW t \in Tabs, RejoinFires(t)
  PROVE  Typed'
<1> DEFINE fired == [tab[t] EXCEPT !.timer = FALSE]
<1>1. RestTyped /\ tab \in [Tabs -> TabStates] /\ tab[t] \in TabStates
  BY TypedParts DEF RestTyped
<1>2. fired \in TabStates
  BY <1>1 DEF TabStates
<1>3. \/ PerformJoin(t, fired)
      \/ tab' = [tab EXCEPT ![t] = fired] /\ UNCHANGED <<record, drawn>>
  BY DEF RejoinFires
<1>4. UNCHANGED <<pvars, mem, handlers, exited, clean>>
  BY DEF RejoinFires, history
<1> HIDE DEF fired
<1>5. record' \in Pair \cup {NoRecord} /\ drawn' \in Nat /\ tab' \in [Tabs -> TabStates]
  BY <1>1, <1>2, <1>3, JoinPerformed DEF RestTyped
<1> QED BY <1>4, <1>5 DEF Typed, pvars

\* ...an answer to a join...
LEMMA AnsweredTyped ==
  ASSUME Typed, NEW t \in Tabs, AcceptReceived(t) \/ RefusalReceived(t) \/ JoinRefused(t)
  PROVE  Typed'
<1>1. tab \in [Tabs -> TabStates] /\ tab[t] \in TabStates
  BY DEF Typed
<1>2. /\ [tab[t] EXCEPT !.req = "none", !.member = TRUE, !.asked = FALSE] \in TabStates
      /\ [tab[t] EXCEPT !.req = "none", !.asked = FALSE,
                        !.member = tab[t].member /\ ~tab[t].asked] \in TabStates
      /\ [tab[t] EXCEPT !.req = "no"] \in TabStates
  BY <1>1 DEF TabStates
<1>3. CASE AcceptReceived(t)
  <2>1. tab' = [tab EXCEPT ![t] = [tab[t] EXCEPT !.req = "none", !.member = TRUE, !.asked = FALSE]]
    BY <1>3 DEF AcceptReceived
  <2>2. tab' \in [Tabs -> TabStates]
    BY <1>1, <1>2, <2>1
  <2>3. record' \in Pair \cup {NoRecord} /\ drawn' \in Nat
    BY <1>3, PairTyped DEF AcceptReceived, Typed
  <2> QED BY <1>3, <2>2, <2>3 DEF AcceptReceived, Typed, pvars, history
<1>4. CASE RefusalReceived(t)
  <2>1. tab' = [tab EXCEPT ![t] = [tab[t] EXCEPT !.req = "none", !.asked = FALSE,
                  !.member = tab[t].member /\ ~tab[t].asked]]
    BY <1>4 DEF RefusalReceived
  <2>2. tab' \in [Tabs -> TabStates]
    BY <1>1, <1>2, <2>1
  <2> QED BY <1>4, <2>2 DEF RefusalReceived, Typed, pvars, history
<1>5. CASE JoinRefused(t)
  <2>1. tab' = [tab EXCEPT ![t] = [tab[t] EXCEPT !.req = "no"]]
    BY <1>5 DEF JoinRefused
  <2>2. tab' \in [Tabs -> TabStates]
    BY <1>1, <1>2, <2>1
  <2> QED BY <1>5, <2>2 DEF JoinRefused, Typed, pvars, history
<1> QED BY <1>3, <1>4, <1>5

\* The handler of a join that begins.
LEMMA NewJoin ==
  ASSUME NEW t \in Tabs, NEW p \in Pair
  PROVE  LET h == [Handler("get", t) EXCEPT !.pair = p]
         IN  /\ h \in Handlers /\ h.tab = t /\ h.pair = p /\ h.at = "get" /\ h.wanted = TRUE
             /\ h.evict = Nobody
             /\ [h EXCEPT !.at = "queue"] \in Handlers
<1> DEFINE new == Handler("get", t)
<1>1. new \in Handlers /\ new.at = "get" /\ new.tab = t
  BY NewHandlerTyped DEF HandlerStates, JoinStates, Holders
<1>2. new.wanted = TRUE /\ new.evict = Nobody
  BY DEF Handler, Idle
<1> HIDE DEF new
<1> DEFINE h == [new EXCEPT !.pair = p]
<1>3. h \in Handlers
  BY <1>1, HandlerTyped
<1>4. h.tab = t /\ h.pair = p /\ h.at = "get" /\ h.wanted = TRUE /\ h.evict = Nobody
  BY <1>1, <1>2 DEF Handlers
<1>5. "queue" \in HandlerStates
  BY DEF HandlerStates, JoinStates
<1> HIDE DEF h
<1>6. [h EXCEPT !.at = "queue"] \in Handlers
  BY <1>3, <1>5, HandlerTyped
<1> USE DEF h, new
<1> QED BY <1>3, <1>4, <1>6

\* ...a join that arrives...
LEMMA JoinTyped ==
  ASSUME Typed, NEW t \in Tabs, NEW i \in Slots, Join(i, t)
  PROVE  Typed'
<1> DEFINE h == [Handler("get", t) EXCEPT !.pair = tab[t].pair]
<1>1. /\ StoreTyped /\ RestTyped /\ handlers \in [Slots -> Handlers] /\ tab \in [Tabs -> TabStates]
      /\ tab[t] \in TabStates
  BY TypedParts DEF RestTyped
<1>2. tab[t].pair \in Pair
  BY <1>1, TabTyped
<1>3. h \in Handlers /\ [h EXCEPT !.at = "queue"] \in Handlers
  BY <1>2, NewJoin
<1>4. [tab[t] EXCEPT !.req = "served"] \in TabStates
  BY <1>1, TabTyped DEF Reqs
<1>5. tab' = [tab EXCEPT ![t] = [tab[t] EXCEPT !.req = "served"]]
  BY DEF Join
<1>6. tab' \in [Tabs -> TabStates]
  BY <1>1, <1>4, <1>5
<1>7. UNCHANGED <<saved, late, record, drawn, exited, clean>>
  BY DEF Join
<1>8. CASE mem # None
  <2>1. GiveSeat(i, h, mem) /\ mem \in Rooms
    BY <1>1, <1>8 DEF Join, StoreTyped
  <2> HIDE DEF h
  <2>2. mem' \in Rooms /\ queue' = Enqueued(Snapshot(mem'), {i}) /\ handlers' \in [Slots -> Handlers]
    BY <1>1, <1>3, <2>1, SeatGiven
  <2>3. StoreTyped'
    BY <1>1, <1>7, <2>2, RoomWritten
  <2> QED BY <1>1, <1>6, <1>7, <2>2, <2>3 DEF Typed, RestTyped, StoreTyped
<1>9. CASE mem = None
  <2>1. /\ UNCHANGED mem
        /\ \/ handlers' = [handlers EXCEPT ![i] = h] /\ UNCHANGED queue
           \/ /\ handlers' = [handlers EXCEPT ![i] = [h EXCEPT !.at = "queue"]]
              /\ queue # <<>> /\ queue' = Behind(i)
    BY <1>9 DEF Join
  <2> HIDE DEF h
  <2>2. queue' \in Seq(Operations)
    BY <1>1, <2>1, QueueJoined DEF SameValues, StoreTyped
  <2>3. handlers' \in [Slots -> Handlers]
    BY <1>1, <1>3, <2>1
  <2> QED BY <1>1, <1>6, <1>7, <2>1, <2>2, <2>3 DEF Typed, RestTyped, StoreTyped
<1> QED BY <1>8, <1>9

\* ...the end of a load...
LEMMA LoadTyped ==
  ASSUME Typed, NEW i \in Slots, Loaded(i) \/ NotLoaded(i)
  PROVE  Typed'
<1>1. AfterLoad \in Rooms \cup {None}
  <2>1. saved # None => saved \in Snapshots
    BY DEF Typed, Values
  <2>2. saved # None => Restored(saved) \in Rooms
    BY <2>1, RestoredTyped
  <2> QED BY <2>2 DEF AfterLoad, Typed
<1>2. CASE Loaded(i)
  <2>1. Decide(i, handlers[i], AfterLoad) /\ UNCHANGED <<saved, late, record, drawn, exited, clean>>
    BY <1>2 DEF Loaded
  <2> DEFINE room == AfterLoad
  <2>2. Decide(i, handlers[i], room) /\ room \in Rooms \cup {None}
    BY <1>1, <2>1
  <2> HIDE DEF room
  <2>3. clean' \in BOOLEAN
    BY <2>1 DEF Typed
  <2> QED BY <2>1, <2>2, <2>3, DecideTyped
<1>3. CASE NotLoaded(i)
  <2>1. Decide(i, handlers[i], mem) /\ UNCHANGED <<saved, late, record, drawn, exited>> /\ clean' = FALSE
    BY <1>3 DEF NotLoaded
  <2> QED BY <2>1, DecideTyped DEF Typed
<1> QED BY <1>2, <1>3

\* The room of a member that left the seat.
LEMMA Vacated ==
  ASSUME mem \in Rooms
  PROVE  LET room == Changed([mem EXCEPT !.sock = Nobody])
         IN  room \in Rooms /\ room.ver = mem.ver + 1 /\ room.hash = mem.hash
<1> DEFINE vacant == [mem EXCEPT !.sock = Nobody]
<1>1. vacant \in Rooms /\ vacant.ver = mem.ver /\ vacant.hash = mem.hash
  BY DEF Rooms, Holders
<1> HIDE DEF vacant
<1>2. Changed(vacant) \in Rooms /\ Changed(vacant).ver = mem.ver + 1 /\ Changed(vacant).hash = mem.hash
  BY <1>1, RoomTyped
<1> USE DEF vacant
<1> QED BY <1>2

\* What a handler that goes on does to the tabs.
LEMMA JoinedTabs ==
  ASSUME Typed, NEW i \in Slots, handlers[i].at = "written", Joined(i)
  PROVE  tab' \in [Tabs -> TabStates] /\ handlers' \in [Slots -> Handlers]
<1> DEFINE h == handlers[i]
           away == h.evict \in Tabs /\ tab[h.evict].net
           told == [tab EXCEPT ![h.tab].req = IF h.wanted /\ @ = "served" THEN "ok" ELSE @]
<1>1. handlers \in [Slots -> Handlers] /\ tab \in [Tabs -> TabStates] /\ h \in Handlers
  BY DEF Typed
<1>2. told \in [Tabs -> TabStates]
  <2>1. CASE h.tab \in Tabs
    <3> DEFINE req == IF h.wanted /\ tab[h.tab].req = "served" THEN "ok" ELSE tab[h.tab].req
    <3>1. tab[h.tab] \in TabStates /\ req \in Reqs
      BY <1>1, <2>1 DEF Reqs, TabStates
    <3>2. [tab[h.tab] EXCEPT !.req = req] \in TabStates
      BY <3>1, TabTyped
    <3>3. told = [tab EXCEPT ![h.tab] = [tab[h.tab] EXCEPT !.req = req]]
      OBVIOUS
    <3> QED BY <1>1, <2>1, <3>2, <3>3
  <2>2. CASE h.tab \notin Tabs
    <3>1. told = tab
      BY <1>1, <2>2
    <3> QED BY <1>1, <3>1
  <2> QED BY <2>1, <2>2
<1>3. /\ handlers' = [k \in Slots |->
           IF k = i THEN Idle ELSE IF away THEN Disconnected(handlers[k], h.evict) ELSE handlers[k]]
      /\ tab' = IF away THEN [told EXCEPT ![h.evict] = [Offline(told[h.evict]) EXCEPT !.member = FALSE]]
                ELSE told
  BY DEF Joined
<1> HIDE DEF told
<1>4. h.evict \in Tabs => [Offline(told[h.evict]) EXCEPT !.member = FALSE] \in TabStates
  <2>1. h.evict \in Tabs => Offline(told[h.evict]) \in TabStates
    BY <1>2, OfflineTyped
  <2> QED BY <2>1 DEF TabStates
<1>5. tab' \in [Tabs -> TabStates]
  <2> DEFINE gone == [Offline(told[h.evict]) EXCEPT !.member = FALSE]
  <2>1. h.evict \in Tabs => gone \in TabStates
    BY <1>4
  <2>2. tab' = IF away THEN [told EXCEPT ![h.evict] = gone] ELSE told
    BY <1>3
  <2> HIDE DEF gone
  <2> QED BY <1>2, <2>1, <2>2
<1>6. away => \A k \in Slots : Disconnected(handlers[k], h.evict) \in Handlers
  BY <1>1, DisconnectedTyped
<1>7. handlers' \in [Slots -> Handlers]
  BY <1>1, <1>3, <1>6, NewHandlerTyped
<1> QED BY <1>5, <1>7

\* What it does to the room: nothing, or the tab that had the seat leaves it.
LEMMA JoinedRoom ==
  ASSUME Typed, NEW i \in Slots, Joined(i)
  PROVE  \/ UNCHANGED <<mem, queue>>
         \/ /\ mem \in Rooms /\ mem' \in Rooms /\ mem'.ver = mem.ver + 1 /\ mem'.hash = mem.hash
            /\ queue' = Enqueued(Snapshot(mem'), {}) /\ handlers[i].evict \in Tabs
<1>1. \/ UNCHANGED <<mem, queue>>
      \/ /\ mem # None /\ mem' = Changed([mem EXCEPT !.sock = Nobody])
         /\ queue' = Enqueued(Snapshot(mem'), {}) /\ handlers[i].evict \in Tabs
  BY DEF Joined, Seated
<1>2. mem # None => mem \in Rooms
  BY DEF Typed
<1> QED BY <1>1, <1>2, Vacated

\* ...the end of a join...
LEMMA JoinedTyped ==
  ASSUME Typed, NEW i \in Slots, Joined(i)
  PROVE  Typed'
<1>1. tab' \in [Tabs -> TabStates] /\ handlers' \in [Slots -> Handlers]
  BY JoinedTabs DEF Joined
<1>2. UNCHANGED <<saved, late, record, drawn, clean, exited>>
  BY DEF Joined, history
<1>3. StoreTyped'
  <2>1. StoreTyped
    BY TypedParts
  <2>2. CASE UNCHANGED <<mem, queue>>
    BY <1>2, <2>1, <2>2 DEF StoreTyped
  <2>3. CASE mem' \in Rooms /\ queue' = Enqueued(Snapshot(mem'), {})
    BY <1>2, <2>1, <2>3, RoomWritten
  <2> QED BY <2>2, <2>3, JoinedRoom
<1> QED BY <1>1, <1>2, <1>3 DEF Typed, StoreTyped

\* ...a change of the room, which is one version on and queued at once...
LEMMA ChangeTyped ==
  ASSUME Typed, Change
  PROVE  Typed' /\ mem \in Rooms /\ mem' = Changed(mem) /\ queue' = Enqueued(Snapshot(mem'), {})
<1>1. /\ mem # None /\ mem' = Changed(mem) /\ queue' = Enqueued(Snapshot(mem'), {})
      /\ UNCHANGED <<saved, late, handlers, browser, history>>
  BY DEF Change
<1>2. StoreTyped /\ mem \in Rooms
  BY <1>1, TypedParts DEF Typed
<1>3. mem' \in Rooms
  BY <1>1, <1>2, RoomTyped
<1>4. StoreTyped'
  BY <1>1, <1>2, <1>3, RoomWritten
<1> QED BY <1>1, <1>2, <1>4 DEF Typed, StoreTyped, browser, history

\* ...a change that waits for a revocation...
LEMMA ChangeSlowlyTyped ==
  ASSUME Typed, NEW i \in Slots, ChangeSlowly(i)
  PROVE  Typed'
<1>1. /\ mem # None /\ mem' = Changed(mem)
      /\ handlers' = [handlers EXCEPT ![i] = Handler("revoke", Nobody)]
      /\ UNCHANGED <<pvars, browser, history>>
  BY DEF ChangeSlowly
<1>2. mem' \in Rooms
  BY <1>1, RoomTyped DEF Typed
<1>3. Handler("revoke", Nobody) \in Handlers
  BY NewHandlerTyped DEF HandlerStates, Holders
<1>4. handlers' \in [Slots -> Handlers]
  BY <1>1, <1>3 DEF Typed
<1> QED BY <1>1, <1>2, <1>4 DEF Typed, pvars, browser, history

\* ...and is written then, as the room in memory unless an exit came between...
LEMMA WriteChangeTyped ==
  ASSUME Typed, ChangesHeld, NEW i \in Slots, WriteChange(i)
  PROVE  /\ Typed' /\ UNCHANGED mem
         /\ \E room \in Rooms : /\ queue' = Enqueued(Snapshot(room), {})
                                /\ clean' => mem = room
<1> DEFINE room == IF handlers[i].room = None THEN mem ELSE handlers[i].room
<1>1. /\ handlers[i].at = "revoke" /\ queue' = Enqueued(Snapshot(room), {})
      /\ handlers' = [handlers EXCEPT ![i] = Idle]
      /\ clean' = (clean /\ handlers[i].room = None)
      /\ UNCHANGED <<saved, late, mem, browser, exited>>
  BY DEF WriteChange
<1>2. handlers[i] \in Handlers /\ handlers[i].room \in Rooms \cup {None} /\ mem \in Rooms \cup {None}
  BY HandlerTyped DEF Typed
<1>3. room \in Rooms
  BY <1>1, <1>2 DEF ChangesHeld
<1>4. clean' => mem = room
  BY <1>1
<1> HIDE DEF room
<1>5. Snapshot(room) \in Values
  BY <1>3, RoomTyped DEF Values
<1> DEFINE snap == Snapshot(room)
<1>6. snap \in Values /\ queue' = Enqueued(snap, {})
  BY <1>1, <1>5
<1> HIDE DEF snap
<1>7. queue' \in Seq(Operations)
  BY <1>6, QueueLonger DEF Typed
<1>8. handlers' \in [Slots -> Handlers]
  BY <1>1, NewHandlerTyped DEF Typed
<1>9. clean' \in BOOLEAN
  BY <1>1
<1> QED BY <1>1, <1>3, <1>4, <1>7, <1>8, <1>9 DEF Typed, browser

\* ...an exit...
LEMMA ExitTyped ==
  ASSUME Typed, NEW i \in Slots, Exit(i)
  PROVE  Typed'
<1> DEFINE new == Handler("exit", mem.sock)
           connected == mem.sock \in Tabs
           leaver == [new EXCEPT !.conn = connected]
<1>1. /\ mem # None /\ exited' = TRUE /\ mem' = None
      /\ handlers' = [k \in Slots |->
           IF k = i THEN leaver
           ELSE IF handlers[k].at = "revoke" /\ handlers[k].room = None
           THEN [handlers[k] EXCEPT !.room = mem] ELSE handlers[k]]
      /\ UNCHANGED <<pvars, browser, clean>>
  BY DEF Exit
<1>2. mem \in Rooms /\ mem.sock \in Holders
  BY <1>1, RoomTyped DEF Typed
<1>3. new \in Handlers
  BY <1>2, NewHandlerTyped DEF HandlerStates
<1> HIDE DEF new
<1>31. connected \in BOOLEAN
  OBVIOUS
<1> HIDE DEF connected
<1>4. leaver \in Handlers
  BY <1>3, <1>31 DEF Handlers
<1> HIDE DEF leaver
<1>5. \A k \in Slots : handlers[k] \in Handlers /\ [handlers[k] EXCEPT !.room = mem] \in Handlers
  BY <1>2, HandlerTyped DEF Typed
<1>6. handlers' \in [Slots -> Handlers]
  BY <1>1, <1>4, <1>5
<1> QED BY <1>1, <1>6 DEF Typed, pvars, browser

\* ...its deletion...
LEMMA ExitDeleteTyped ==
  ASSUME Typed, NEW i \in Slots, ExitDelete(i)
  PROVE  Typed'
<1>1. /\ queue' = Enqueued(None, {i}) /\ handlers' = [handlers EXCEPT ![i].at = "deleting"]
      /\ UNCHANGED <<saved, late, mem, browser, history>>
  BY DEF ExitDelete
<1>2. None \in Values /\ queue \in Seq(Operations)
  BY DEF Values, Typed
<1>3. queue' \in Seq(Operations)
  BY <1>1, <1>2, QueueLonger
<1>4. handlers[i] \in Handlers /\ "deleting" \in HandlerStates
  BY DEF Typed, HandlerStates
<1>5. [handlers[i] EXCEPT !.at = "deleting"] \in Handlers
  BY <1>4, HandlerTyped
<1>6. handlers' \in [Slots -> Handlers]
  BY <1>1, <1>5 DEF Typed
<1> QED BY <1>1, <1>3, <1>6 DEF Typed, browser, history

\* ...its answer...
LEMMA ExitToldTyped ==
  ASSUME Typed, NEW i \in Slots, ExitTold(i)
  PROVE  Typed'
<1> DEFINE t == handlers[i].tab
<1>1. /\ handlers' = [handlers EXCEPT ![i] = Idle]
      /\ \/ tab' = [tab EXCEPT ![t] = [tab[t] EXCEPT !.member = FALSE]] /\ record' = NoRecord
         \/ UNCHANGED <<tab, record>>
      /\ UNCHANGED <<pvars, mem, drawn, history>>
  BY DEF ExitTold
<1>2. handlers' \in [Slots -> Handlers]
  BY <1>1, NewHandlerTyped DEF Typed
<1>3. tab \in [Tabs -> TabStates] /\ (t \in Tabs => [tab[t] EXCEPT !.member = FALSE] \in TabStates)
  <2>1. tab \in [Tabs -> TabStates]
    BY DEF Typed
  <2> HIDE DEF t
  <2>2. ASSUME t \in Tabs PROVE [tab[t] EXCEPT !.member = FALSE] \in TabStates
    <3> DEFINE it == tab[t]
    <3>1. it \in TabStates
      BY <2>1, <2>2
    <3> HIDE DEF it
    <3>2. [it EXCEPT !.member = FALSE] \in TabStates
      BY <3>1 DEF TabStates
    <3> QED BY <3>2 DEF it
  <2> QED BY <2>1, <2>2
<1>4. tab' \in [Tabs -> TabStates]
  BY <1>1, <1>3
<1> QED BY <1>1, <1>2, <1>4 DEF Typed, pvars, history

\* Whoever waited for an operation goes on.
LEMMA WokenUp ==
  ASSUME handlers \in [Slots -> Handlers], NEW ok \in BOOLEAN, WakeUp(ok)
  PROVE  /\ handlers' \in [Slots -> Handlers]
         /\ \A i \in Slots :
              /\ i \notin Ending.wakes => handlers'[i] = handlers[i]
              /\ \E at \in HandlerStates : handlers'[i] = [handlers[i] EXCEPT !.at = at]
              /\ i \in Ending.wakes => handlers'[i].at =
                   CASE handlers[i].at = "write" -> "written"
                     [] handlers[i].at = "deleting" -> "deleted"
                     [] handlers[i].at = "queue" -> IF ok THEN "get" ELSE "unread"
                     [] OTHER -> handlers[i].at
<1>1. handlers' = [i \in Slots |-> IF i \in Ending.wakes THEN Woken(handlers[i], ok) ELSE handlers[i]]
  BY DEF WakeUp
<1> DEFINE next(i) == CASE handlers[i].at = "write" -> "written"
                        [] handlers[i].at = "deleting" -> "deleted"
                        [] handlers[i].at = "queue" -> IF ok THEN "get" ELSE "unread"
                        [] OTHER -> handlers[i].at
<1>2. ASSUME NEW i \in Slots
      PROVE  /\ next(i) \in HandlerStates /\ Woken(handlers[i], ok) = [handlers[i] EXCEPT !.at = next(i)]
             /\ Woken(handlers[i], ok) \in Handlers /\ Woken(handlers[i], ok).at = next(i)
             /\ handlers[i] = [handlers[i] EXCEPT !.at = handlers[i].at]
             /\ handlers[i].at \in HandlerStates
  <2>1. handlers[i] \in Handlers /\ handlers[i].at \in HandlerStates
    BY HandlerTyped
  <2>2. next(i) \in HandlerStates
    BY <2>1 DEF HandlerStates, JoinStates
  <2>3. handlers[i] = [handlers[i] EXCEPT !.at = handlers[i].at]
    BY <2>1 DEF Handlers
  <2>4. Woken(handlers[i], ok) = [handlers[i] EXCEPT !.at = next(i)]
    BY <2>3 DEF Woken
  <2> DEFINE s == next(i)
  <2>5. s \in HandlerStates /\ Woken(handlers[i], ok) = [handlers[i] EXCEPT !.at = s]
    BY <2>2, <2>4
  <2> HIDE DEF s
  <2>6. Woken(handlers[i], ok) \in Handlers
    <3>1. [handlers[i] EXCEPT !.at = s] \in Handlers
      <4> HIDE DEF next
      <4> QED BY <2>1, <2>5 DEF Handlers
    <3> QED BY <2>5, <3>1
  <2>7. Woken(handlers[i], ok).at = s
    BY <2>1, <2>5 DEF Handlers
  <2> USE DEF s
  <2> QED BY <2>1, <2>2, <2>3, <2>4, <2>6, <2>7
<1> HIDE DEF next
<1>3. handlers' \in [Slots -> Handlers]
  BY <1>1, <1>2
<1>4. ASSUME NEW i \in Slots
      PROVE  /\ i \notin Ending.wakes => handlers'[i] = handlers[i]
             /\ \E at \in HandlerStates : handlers'[i] = [handlers[i] EXCEPT !.at = at]
             /\ i \in Ending.wakes => handlers'[i].at = next(i)
  BY <1>1, <1>2
<1> USE DEF next
<1> QED BY <1>3, <1>4

\* ...the end of an operation in Redis, or a late one...
LEMMA RedisTyped ==
  ASSUME Typed, RedisDone \/ RedisFails \/ RedisLate
  PROVE  Typed'
<1>1. queue \in Seq(Operations) /\ handlers \in [Slots -> Handlers]
  BY DEF Typed
<1>2. ASSUME queue # <<>>
      PROVE  Tail(queue) \in Seq(Operations) /\ Ending.value \in Values
  <2>1. Tail(queue) \in Seq(Operations) /\ Ending \in Operations
    BY <1>1, <1>2, HeadTailProperties DEF Ending
  <2> QED BY <2>1 DEF Operations
<1>3. CASE RedisDone
  <2>1. queue # <<>> /\ saved' = Ending.value /\ queue' = Tail(queue) /\ UNCHANGED late /\ WakeUp(TRUE)
    BY <1>3 DEF RedisDone, Lands
  <2>2. handlers' \in [Slots -> Handlers]
    BY <1>1, <2>1, WokenUp
  <2>3. UNCHANGED <<mem, browser, history>>
    BY <1>3 DEF RedisDone
  <2> QED BY <1>2, <2>1, <2>2, <2>3 DEF Typed, browser, history
<1>4. CASE RedisFails
  <2>1. /\ queue # <<>> /\ queue' = Tail(queue) /\ WakeUp(FALSE)
        /\ late' \in {late, late \cup {Ending.value}} /\ UNCHANGED saved
    BY <1>4 DEF RedisFails, Fails
  <2>2. handlers' \in [Slots -> Handlers]
    BY <1>1, <2>1, WokenUp
  <2>3. UNCHANGED <<mem, browser, exited>> /\ clean' = FALSE
    BY <1>4 DEF RedisFails
  <2>4. late' \subseteq Values
    BY <1>2, <2>1 DEF Typed
  <2> QED BY <1>2, <2>1, <2>2, <2>3, <2>4 DEF Typed, browser
<1>5. CASE RedisLate
  <2>1. /\ \E value \in late : saved' = value /\ late' = late \ {value}
        /\ UNCHANGED <<queue, mem, handlers, browser, exited>> /\ clean' = FALSE
    BY <1>5 DEF RedisLate, LandsLate
  <2>2. saved' \in Values /\ late' \subseteq Values
    BY <2>1 DEF Typed
  <2> QED BY <2>1, <2>2 DEF Typed, browser
<1> QED BY <1>3, <1>4, <1>5

\* A tab whose connection breaks leaves its seat.
LEMMA DropRoom ==
  ASSUME Typed, NEW t \in Tabs, NEW reload, Drop(t, reload)
  PROVE  \/ UNCHANGED <<mem, queue>>
         \/ /\ mem \in Rooms /\ mem' \in Rooms /\ mem'.ver = mem.ver + 1 /\ mem'.hash = mem.hash
            /\ queue' = Enqueued(Snapshot(mem'), {})
<1>1. \/ UNCHANGED <<mem, queue>>
      \/ /\ mem # None /\ mem' = Changed([mem EXCEPT !.sock = Nobody])
         /\ queue' = Enqueued(Snapshot(mem'), {})
  BY DEF Drop, Seated
<1>2. mem # None => mem \in Rooms
  BY DEF Typed
<1> QED BY <1>1, <1>2, Vacated

\* ...a lost connection or a reload...
LEMMA DropTyped ==
  ASSUME Typed, NEW t \in Tabs, NEW reload, Drop(t, reload)
  PROVE  Typed'
<1>1. /\ tab' = [tab EXCEPT ![t] = IF reload THEN Quiet ELSE Offline(tab[t])]
      /\ \A i \in Slots : handlers'[i] \in {Disconnected(handlers[i], t),
                                           [Disconnected(handlers[i], t) EXCEPT !.wanted = FALSE]}
      /\ handlers' = [i \in Slots |-> handlers'[i]]
      /\ UNCHANGED <<saved, late, record, drawn, history>>
  BY DEF Drop
<1>2. Quiet \in TabStates /\ Offline(tab[t]) \in TabStates
  BY QuietTyped, OfflineTyped DEF Typed
<1>3. tab' \in [Tabs -> TabStates]
  BY <1>1, <1>2 DEF Typed
<1>4. \A i \in Slots : /\ Disconnected(handlers[i], t) \in Handlers
                       /\ [Disconnected(handlers[i], t) EXCEPT !.wanted = FALSE] \in Handlers
  BY DisconnectedTyped DEF Typed
<1>5. handlers' \in [Slots -> Handlers]
  BY <1>1, <1>4
<1>6. StoreTyped'
  <2>1. StoreTyped
    BY TypedParts
  <2>2. CASE UNCHANGED <<mem, queue>>
    BY <1>1, <2>1, <2>2 DEF StoreTyped
  <2>3. CASE mem' \in Rooms /\ queue' = Enqueued(Snapshot(mem'), {})
    <3>1. UNCHANGED <<saved, late>> /\ {} \in SUBSET Slots
      BY <1>1
    <3> QED BY <2>1, <2>3, <3>1, RoomWritten
  <2> QED BY <2>2, <2>3, DropRoom
<1> QED BY <1>1, <1>3, <1>5, <1>6 DEF Typed, StoreTyped, history

\* ...and a crash.
LEMMA CrashTyped ==
  ASSUME Typed, Crash
  PROVE  Typed'
<1>1. /\ mem' = None /\ queue' = <<>> /\ UNCHANGED saved
      /\ handlers' = [i \in Slots |-> Idle] /\ tab' = [t \in Tabs |-> Offline(tab[t])]
      /\ clean' = (clean /\ ~exited)
      /\ UNCHANGED <<record, drawn, exited>>
  BY DEF Crash, QueueIsLost
<1>2. late' \subseteq Values
  <2>1. late' \in {late} \cup {late \cup {queue[k].value} : k \in 1..Len(queue) \cap {1}}
    BY DEF Crash, QueueIsLost
  <2>2. \A k \in 1..Len(queue) : queue[k].value \in Values
    BY QueueTyped DEF Typed
  <2> QED BY <2>1, <2>2 DEF Typed
<1>3. handlers' \in [Slots -> Handlers]
  BY <1>1, NewHandlerTyped
<1>4. tab' \in [Tabs -> TabStates]
  BY <1>1, OfflineTyped DEF Typed
<1>5. queue' \in Seq(Operations)
  BY <1>1
<1> QED BY <1>1, <1>2, <1>3, <1>4, <1>5 DEF Typed

\* The types hold initially.
LEMMA InitTyped ==
  ASSUME Init
  PROVE  Typed
<1> DEFINE snap == [ver |-> 1, hash |-> NoHash]
           op == Operation(snap, {})
<1>1. snap \in Values /\ mem \in Rooms
  BY DEF Init, Values, Snapshots, Rooms, Holders
<1> HIDE DEF snap
<1>2. op \in Operations
  BY <1>1 DEF Operation, Operations
<1>3. queue = <<op>>
  BY DEF Init, snap
<1> HIDE DEF op
<1>4. queue \in Seq(Operations)
  BY <1>2, <1>3
<1>5. handlers \in [Slots -> Handlers] /\ tab \in [Tabs -> TabStates]
  BY NewHandlerTyped, QuietTyped DEF Init
<1> QED BY <1>1, <1>4, <1>5 DEF Init, Typed, Values

\* The actions, one by one.
Steps ==
  \/ \E t \in Tabs : \/ JoinRoom(t) \/ Connect(t) \/ TimeOut(t) \/ RejoinFires(t)
                     \/ AcceptReceived(t) \/ RefusalReceived(t) \/ JoinRefused(t)
  \/ \E t \in Tabs, i \in Slots : Join(i, t)
  \/ \E t \in Tabs, reload \in BOOLEAN : Drop(t, reload)
  \/ \E i \in Slots : \/ Loaded(i) \/ NotLoaded(i) \/ Joined(i) \/ ChangeSlowly(i)
                      \/ WriteChange(i) \/ Exit(i) \/ ExitDelete(i) \/ ExitTold(i)
  \/ Change \/ RedisDone \/ RedisFails \/ RedisLate \/ Crash

\* The disjuncts of Next by name.
LEMMA NextSteps == Next => Steps
<1>1. TRUE \in BOOLEAN /\ FALSE \in BOOLEAN
  OBVIOUS
<1> QED BY <1>1 DEF Next, Client, Serve, Continue, Redis, Steps

\* Every step keeps the types.
LEMMA TypedKept ==
  ASSUME Typed, ChangesHeld, [Next]_vars
  PROVE  Typed'
<1>1. CASE UNCHANGED vars
  BY <1>1 DEF vars, pvars, browser, history, Typed
<1>2. CASE Steps
  BY <1>2, JoinRoomTyped, ConnectTyped, TimeOutTyped, RejoinTyped, AnsweredTyped, JoinTyped,
     LoadTyped, JoinedTyped, ChangeTyped, ChangeSlowlyTyped, WriteChangeTyped, ExitTyped,
     ExitDeleteTyped, ExitToldTyped, RedisTyped, DropTyped, CrashTyped DEF Steps
<1> QED BY <1>1, <1>2, NextSteps

\* Steps of the browser, and of handlers, that leave the room alone.
LEMMA BrowserSteps ==
  ASSUME NEW t \in Tabs,
         \/ JoinRoom(t) \/ Connect(t) \/ TimeOut(t) \/ RejoinFires(t)
         \/ AcceptReceived(t) \/ RefusalReceived(t) \/ JoinRefused(t)
  PROVE  UNCHANGED <<saved, queue, late, mem, clean, exited>>
BY DEF JoinRoom, Connect, TimeOut, RejoinFires, AcceptReceived, RefusalReceived, JoinRefused,
       pvars, history

\* How the room in memory changes.
MemoryStep ==
  \/ UNCHANGED mem
  \/ mem' = None
  \/ mem = None
  \/ mem \in Rooms /\ mem' \in Rooms /\ mem'.ver = mem.ver + 1

\* A join leaves memory alone, or changes the room and queues its write.
LEMMA JoinMemory ==
  ASSUME Typed, NEW t \in Tabs, NEW i \in Slots, Join(i, t)
  PROVE  /\ UNCHANGED <<saved, clean, exited>>
         /\ \/ UNCHANGED mem /\ mem = None /\ SameValues
            \/ /\ mem \in Rooms /\ mem' \in Rooms /\ mem'.ver = mem.ver + 1
               /\ queue' = Enqueued(Snapshot(mem'), {i})
<1>1. UNCHANGED <<saved, clean, exited>>
  BY DEF Join
<1>2. CASE mem = None
  <2>1. UNCHANGED mem /\ (queue = <<>> => UNCHANGED queue) /\ (queue # <<>> => queue' = Behind(i))
    BY <1>2 DEF Join
  <2>2. SameValues
    BY <2>1, QueueUnchanged, QueueJoined DEF Typed
  <2> QED BY <1>1, <1>2, <2>1, <2>2
<1>3. CASE mem # None
  <2> DEFINE h == [Handler("get", t) EXCEPT !.pair = tab[t].pair]
  <2>1. GiveSeat(i, h, mem) /\ mem \in Rooms
    BY <1>3 DEF Join, Typed
  <2>2. h \in Handlers
    BY NewJoin, TabTyped DEF Typed
  <2>3. StoreTyped /\ handlers \in [Slots -> Handlers]
    BY TypedParts DEF RestTyped
  <2> HIDE DEF h
  <2>4. mem' \in Rooms /\ mem'.ver = mem.ver + 1 /\ queue' = Enqueued(Snapshot(mem'), {i})
    BY <2>1, <2>2, <2>3, SeatGiven
  <2> QED BY <1>1, <2>1, <2>4
<1> QED BY <1>2, <1>3

\* A decided join installs the room it was decided on, or that room changed.
LEMMA DecideMemory ==
  ASSUME Typed, NEW i \in Slots, NEW room \in Rooms \cup {None}, Decide(i, handlers[i], room)
  PROVE  \/ mem' = room /\ UNCHANGED queue
         \/ /\ room \in Rooms /\ mem' \in Rooms /\ mem'.ver = room.ver + 1
            /\ queue' = Enqueued(Snapshot(mem'), {i})
<1>1. StoreTyped /\ handlers \in [Slots -> Handlers] /\ handlers[i] \in Handlers
  BY TypedParts DEF RestTyped
<1> QED BY <1>1, Decided, SeatGiven

\* After a load the room in memory wins over the snapshot.
LEMMA LoadedRoom ==
  ASSUME Typed
  PROVE  /\ AfterLoad \in Rooms \cup {None}
         /\ mem # None => AfterLoad = mem
         /\ mem = None /\ AfterLoad # None =>
              saved # None /\ AfterLoad.ver = saved.ver /\ AfterLoad.hash = saved.hash
<1>1. saved # None => saved \in Snapshots
  BY DEF Typed, Values
<1>2. saved # None =>
        Restored(saved) \in Rooms /\ Restored(saved).ver = saved.ver /\ Restored(saved).hash = saved.hash
  BY <1>1, RestoredTyped
<1> QED BY <1>2 DEF AfterLoad, Typed

\* What steps do to memory: nothing undoes a change.
LEMMA MemorySteps ==
  ASSUME Typed, [Next]_vars
  PROVE  MemoryStep
<1>1. CASE UNCHANGED vars
  BY <1>1 DEF vars, MemoryStep
<1>2. ASSUME NEW t \in Tabs,
             \/ JoinRoom(t) \/ Connect(t) \/ TimeOut(t) \/ RejoinFires(t)
             \/ AcceptReceived(t) \/ RefusalReceived(t) \/ JoinRefused(t)
      PROVE  MemoryStep
  BY <1>2, BrowserSteps DEF MemoryStep
<1>3. ASSUME NEW t \in Tabs, NEW i \in Slots, Join(i, t)
      PROVE  MemoryStep
  BY <1>3, JoinMemory DEF MemoryStep
<1>4. ASSUME NEW t \in Tabs, NEW reload \in BOOLEAN, Drop(t, reload)
      PROVE  MemoryStep
  BY <1>4, DropRoom DEF MemoryStep
<1>5. ASSUME NEW i \in Slots, Loaded(i) \/ NotLoaded(i)
      PROVE  MemoryStep
  <2> DEFINE room == IF Loaded(i) THEN AfterLoad ELSE mem
  <2>1. Decide(i, handlers[i], room)
    BY <1>5 DEF Loaded, NotLoaded
  <2>2. room \in Rooms \cup {None} /\ (mem # None => room = mem)
    BY LoadedRoom DEF Typed
  <2> HIDE DEF room
  <2> QED BY <2>1, <2>2, DecideMemory DEF MemoryStep
<1>6. ASSUME NEW i \in Slots, Joined(i)
      PROVE  MemoryStep
  BY <1>6, JoinedRoom DEF MemoryStep
<1>7. ASSUME Change \/ \E i \in Slots : ChangeSlowly(i)
      PROVE  MemoryStep
  <2>1. mem \in Rooms /\ mem' = Changed(mem)
    BY <1>7 DEF Change, ChangeSlowly, Typed
  <2> QED BY <2>1, RoomTyped DEF MemoryStep
<1>8. ASSUME NEW i \in Slots, WriteChange(i) \/ Exit(i) \/ ExitDelete(i) \/ ExitTold(i)
      PROVE  MemoryStep
  BY <1>8 DEF WriteChange, Exit, ExitDelete, ExitTold, MemoryStep
<1>9. ASSUME RedisDone \/ RedisFails \/ RedisLate \/ Crash
      PROVE  MemoryStep
  BY <1>9 DEF RedisDone, RedisFails, RedisLate, Crash, MemoryStep
<1> QED BY <1>1, <1>2, <1>3, <1>4, <1>5, <1>6, <1>7, <1>8, <1>9, NextSteps DEF Steps

-------------------------------------------------------------------------------
(* The handlers.                                                           *)

Waiting == {"write", "queue", "deleting"}
\* Whoever waits for an operation goes on waiting.
WaitersWait == \A k \in Slots : handlers[k].at \in Waiting => handlers'[k].at = handlers[k].at
\* Nobody begins to change a room or to exit one, and no exit goes on.
Calm ==
  /\ WaitersWait
  /\ \A k \in Slots :
       /\ handlers'[k].at = "revoke" => handlers[k].at = "revoke" /\ handlers'[k].room = handlers[k].room
       /\ handlers'[k].at \in ExitStates => handlers[k].at \in ExitStates
       /\ handlers[k].at = "exit" => handlers'[k].at = "exit"

\* A step after which handlers are where they were, with their rooms, is calm.
LEMMA SameHandlers ==
  ASSUME \A k \in Slots : handlers'[k].at = handlers[k].at /\ handlers'[k].room = handlers[k].room
  PROVE  Calm
BY DEF Calm, WaitersWait

\* So is one that moves a single handler, between states nobody waits for.
LEMMA OneHandler ==
  ASSUME Typed, NEW i \in Slots, NEW x, handlers' = [handlers EXCEPT ![i] = x],
         handlers[i].at \notin Waiting, handlers[i].at # "exit",
         x.at # "revoke", x.at \notin ExitStates
  PROVE  Calm
BY DEF Typed, Calm, WaitersWait

\* A new handler takes an idle slot.
LEMMA FreeSlot ==
  ASSUME NEW i \in Slots, IsNext(i)
  PROVE  handlers[i].at = "idle"
BY NewHandlerTyped DEF IsNext

\* A join is calm and waits behind the queue, or behind its own write, or not at all.
LEMMA JoinHandlers ==
  ASSUME Typed, NEW t \in Tabs, NEW i \in Slots, Join(i, t)
  PROVE  Calm /\ handlers[i].at = "idle" /\
         \/ UNCHANGED queue
         \/ handlers'[i].at \in Waiting /\
            \/ queue # <<>> /\ queue' = Behind(i)
            \/ mem' \in Rooms /\ queue' = Enqueued(Snapshot(mem'), {i})
<1> DEFINE h == [Handler("get", t) EXCEPT !.pair = tab[t].pair]
<1>1. handlers[i].at = "idle"
  BY FreeSlot DEF Join
<1>2. h \in Handlers /\ h.at = "get"
  BY NewJoin, TabTyped DEF Typed
<1>3. \A at \in HandlerStates, e \in Tabs \cup {Nobody} :
        [h EXCEPT !.at = at].at = at /\ [h EXCEPT !.at = "write", !.evict = e].at = "write"
  BY <1>2 DEF Handlers
<1>4. handlers \in [Slots -> Handlers]
  BY DEF Typed
<1>5. CASE mem # None
  <2>1. GiveSeat(i, h, mem) /\ mem \in Rooms
    BY <1>5 DEF Join, Typed
  <2>2. StoreTyped
    BY TypedParts
  <2> HIDE DEF h
  <2>3. PICK e \in (Tabs \ {h.tab}) \cup {Nobody} :
          handlers' = [handlers EXCEPT ![i] = [h EXCEPT !.at = "write", !.evict = e]]
    BY <2>1, <2>2, <1>2, <1>4, SeatGiven
  <2>4. mem' \in Rooms /\ queue' = Enqueued(Snapshot(mem'), {i})
    BY <2>1, <2>2, <1>2, <1>4, SeatGiven
  <2> DEFINE x == [h EXCEPT !.at = "write", !.evict = e]
  <2>5. x.at = "write"
    BY <1>2 DEF Handlers
  <2>6. handlers' = [handlers EXCEPT ![i] = x]
    BY <2>3
  <2> HIDE DEF x
  <2>7. Calm
    BY <1>1, <2>5, <2>6, OneHandler DEF Waiting, ExitStates
  <2>8. handlers'[i].at \in Waiting
    BY <1>4, <2>5, <2>6 DEF Waiting
  <2> QED BY <1>1, <2>4, <2>7, <2>8
<1>6. CASE mem = None /\ queue = <<>>
  <2>1. handlers' = [handlers EXCEPT ![i] = h] /\ UNCHANGED queue
    BY <1>6 DEF Join
  <2> HIDE DEF h
  <2>2. Calm
    BY <1>1, <1>2, <2>1, OneHandler DEF Waiting, ExitStates
  <2> QED BY <1>1, <2>1, <2>2
<1>7. CASE mem = None /\ queue # <<>>
  <2> DEFINE x == [h EXCEPT !.at = "queue"]
  <2>1. handlers' = [handlers EXCEPT ![i] = x] /\ queue' = Behind(i)
    BY <1>7 DEF Join
  <2> HIDE DEF h
  <2>2. x.at = "queue"
    BY <1>2 DEF Handlers
  <2> HIDE DEF x
  <2>3. Calm
    BY <1>1, <2>1, <2>2, OneHandler DEF Waiting, ExitStates
  <2>4. handlers'[i].at \in Waiting
    BY <1>4, <2>1, <2>2 DEF Waiting
  <2> QED BY <1>1, <1>7, <2>1, <2>3, <2>4
<1> QED BY <1>5, <1>6, <1>7

\* A decided join is calm and waits for its own write, or not at all.
LEMMA DecideHandlers ==
  ASSUME Typed, NEW i \in Slots, NEW room \in Rooms \cup {None}, Decide(i, handlers[i], room),
         handlers[i].at \in {"get", "unread"}
  PROVE  Calm /\ \/ UNCHANGED queue
                 \/ handlers'[i].at \in Waiting /\ mem' \in Rooms /\ queue' = Enqueued(Snapshot(mem'), {i})
<1>1. StoreTyped /\ handlers \in [Slots -> Handlers] /\ handlers[i] \in Handlers
  BY TypedParts DEF RestTyped
<1>2. CASE room \in Rooms /\ GiveSeat(i, handlers[i], room)
  <2>1. PICK e \in (Tabs \ {handlers[i].tab}) \cup {Nobody} :
          handlers' = [handlers EXCEPT ![i] = [handlers[i] EXCEPT !.at = "write", !.evict = e]]
    BY <1>1, <1>2, SeatGiven
  <2>2. mem' \in Rooms /\ queue' = Enqueued(Snapshot(mem'), {i})
    BY <1>1, <1>2, SeatGiven
  <2> DEFINE x == [handlers[i] EXCEPT !.at = "write", !.evict = e]
  <2>3. x.at = "write"
    BY <1>1 DEF Handlers
  <2>4. handlers' = [handlers EXCEPT ![i] = x]
    BY <2>1
  <2> HIDE DEF x
  <2>5. Calm
    BY <2>3, <2>4, OneHandler DEF Waiting, ExitStates
  <2>6. handlers'[i].at \in Waiting
    BY <1>1, <2>3, <2>4 DEF Waiting
  <2> QED BY <2>2, <2>5, <2>6
<1>3. CASE UNCHANGED queue /\ handlers' = [handlers EXCEPT ![i] = Idle]
  <2>1. Calm
    BY <1>3, OneHandler, NewHandlerTyped DEF Waiting, ExitStates
  <2> QED BY <1>3, <2>1
<1> QED BY <1>2, <1>3, Decided

\* The browser's own steps are calm.
LEMMA CalmBrowser ==
  ASSUME NEW t \in Tabs,
         \/ JoinRoom(t) \/ Connect(t) \/ RejoinFires(t)
         \/ AcceptReceived(t) \/ RefusalReceived(t) \/ JoinRefused(t)
  PROVE  Calm
<1>1. UNCHANGED handlers
  BY DEF JoinRoom, Connect, RejoinFires, AcceptReceived, RefusalReceived, JoinRefused
<1> QED BY <1>1, SameHandlers

\* The steps that start and end no revocation, exit or operation are calm.
LEMMA CalmHandlers ==
  ASSUME Typed,
         \/ \E t \in Tabs : TimeOut(t) \/ \E reload \in BOOLEAN : Drop(t, reload)
         \/ Change \/ RedisLate
         \/ \E i \in Slots : Joined(i) \/ WriteChange(i) \/ ExitTold(i)
  PROVE  Calm
<1>1. \A k \in Slots : handlers[k] \in Handlers
  BY DEF Typed
<1>2. ASSUME NEW t \in Tabs, TimeOut(t) \/ \E reload \in BOOLEAN : Drop(t, reload)
      PROVE  Calm
  <2>1. \A k \in Slots : \/ handlers'[k] = handlers[k]
                         \/ handlers'[k] = [handlers[k] EXCEPT !.wanted = FALSE]
                         \/ handlers'[k] = Disconnected(handlers[k], t)
                         \/ handlers'[k] = [Disconnected(handlers[k], t) EXCEPT !.wanted = FALSE]
    BY <1>2 DEF TimeOut, Drop
  <2>2. \A h \in Handlers : LET u == [h EXCEPT !.wanted = FALSE] IN u.at = h.at /\ u.room = h.room
    BY DEF Handlers
  <2>3. ASSUME NEW k \in Slots
        PROVE  handlers'[k].at = handlers[k].at /\ handlers'[k].room = handlers[k].room
    <3>1. LET g == Disconnected(handlers[k], t)
              u == [g EXCEPT !.wanted = FALSE]
          IN  /\ g.at = handlers[k].at /\ g.room = handlers[k].room
              /\ u.at = handlers[k].at /\ u.room = handlers[k].room
      BY <1>1, DisconnectedTyped
    <3>2. LET u == [handlers[k] EXCEPT !.wanted = FALSE]
          IN  u.at = handlers[k].at /\ u.room = handlers[k].room
      BY <1>1, <2>2
    <3>3. CASE handlers'[k] \in {handlers[k], [handlers[k] EXCEPT !.wanted = FALSE]}
      BY <3>2, <3>3
    <3>4. CASE handlers'[k] \in {Disconnected(handlers[k], t),
                                 [Disconnected(handlers[k], t) EXCEPT !.wanted = FALSE]}
      BY <3>1, <3>4
    <3> QED BY <2>1, <3>3, <3>4
  <2> QED BY <2>3, SameHandlers
<1>3. CASE Change \/ RedisLate
  <2>1. UNCHANGED handlers
    BY <1>3 DEF Change, RedisLate
  <2> QED BY <2>1, SameHandlers
<1>4. ASSUME NEW i \in Slots, Joined(i)
      PROVE  Calm
  <2>1. /\ handlers[i].at = "written"
        /\ \A k \in Slots : \/ k = i /\ handlers'[k] = Idle
                            \/ k # i /\ handlers'[k] = handlers[k]
                            \/ /\ k # i /\ handlers[i].evict \in Tabs
                               /\ handlers'[k] = Disconnected(handlers[k], handlers[i].evict)
    BY <1>4 DEF Joined
  <2>2. \A h \in Handlers, t \in Tabs :
          Disconnected(h, t).at = h.at /\ Disconnected(h, t).room = h.room
    BY DisconnectedTyped
  <2>3. Idle.at = "idle"
    BY NewHandlerTyped
  <2>4. ASSUME NEW k \in Slots
        PROVE  \/ k = i /\ handlers'[k].at = "idle"
               \/ handlers'[k].at = handlers[k].at /\ handlers'[k].room = handlers[k].room
    <3>1. handlers[k] \in Handlers
      BY <1>1
    <3> QED BY <2>1, <2>2, <2>3, <3>1
  <2> QED BY <2>1, <2>4 DEF Calm, WaitersWait, Waiting, ExitStates
<1>5. ASSUME NEW i \in Slots, WriteChange(i) \/ ExitTold(i)
      PROVE  Calm
  <2>1. handlers[i].at \in {"revoke", "deleted"} /\ handlers' = [handlers EXCEPT ![i] = Idle]
    BY <1>5 DEF WriteChange, ExitTold
  <2> QED BY <2>1, OneHandler, NewHandlerTyped DEF Waiting, ExitStates
<1> QED BY <1>2, <1>3, <1>4, <1>5

\* A slow change fills one idle slot.
LEMMA SlowHandlers ==
  ASSUME Typed, NEW i \in Slots, ChangeSlowly(i)
  PROVE  /\ WaitersWait /\ handlers[i].at = "idle"
         /\ \A k \in Slots : k # i => handlers'[k] = handlers[k]
         /\ handlers'[i].at = "revoke"
<1>1. handlers' = [handlers EXCEPT ![i] = Handler("revoke", Nobody)] /\ handlers[i].at = "idle"
  BY FreeSlot DEF ChangeSlowly
<1>2. Handler("revoke", Nobody).at = "revoke"
  BY NewHandlerTyped DEF HandlerStates, Holders
<1> QED BY <1>1, <1>2 DEF Typed, WaitersWait, Waiting

\* An exit fills one slot, and handlers that hold a room keep it.
LEMMA ExitHandlers ==
  ASSUME Typed, NEW i \in Slots, Exit(i)
  PROVE  /\ WaitersWait /\ handlers'[i].at = "exit" /\ mem \in Rooms
         /\ \A k \in Slots : k # i => /\ handlers'[k].at = handlers[k].at
                                      /\ handlers[k].at = "revoke" => handlers'[k].room # None
<1>1. mem # None /\ handlers[i].at = "idle"
  BY FreeSlot DEF Exit
<1>2. mem \in Rooms /\ mem.sock \in Holders
  BY <1>1, RoomTyped DEF Typed
<1> DEFINE new == Handler("exit", mem.sock)
<1>3. new \in Handlers /\ new.at = "exit"
  BY <1>2, NewHandlerTyped DEF HandlerStates
<1>4. handlers' = [k \in Slots |->
         IF k = i THEN [new EXCEPT !.conn = mem.sock \in Tabs]
         ELSE IF handlers[k].at = "revoke" /\ handlers[k].room = None
         THEN [handlers[k] EXCEPT !.room = mem] ELSE handlers[k]]
  BY DEF Exit
<1> HIDE DEF new
<1>5. handlers'[i].at = "exit"
  BY <1>3, <1>4 DEF Handlers
<1>6. ASSUME NEW k \in Slots, k # i
      PROVE  /\ handlers'[k].at = handlers[k].at
             /\ handlers[k].at = "revoke" => handlers'[k].room # None
  <2>1. handlers[k] \in Handlers /\ mem # None
    BY <1>1 DEF Typed
  <2> QED BY <1>4, <1>6, <2>1 DEF Handlers
<1>7. WaitersWait
  BY <1>1, <1>6 DEF WaitersWait, Waiting
<1> QED BY <1>2, <1>5, <1>6, <1>7

\* The deletion moves the handler of the exit alone.
LEMMA DeleteHandlers ==
  ASSUME Typed, NEW i \in Slots, ExitDelete(i)
  PROVE  /\ WaitersWait /\ handlers[i].at = "exit" /\ handlers'[i].at = "deleting"
         /\ \A k \in Slots : k # i => handlers'[k] = handlers[k]
<1>1. handlers[i].at = "exit" /\ handlers' = [handlers EXCEPT ![i].at = "deleting"]
      /\ handlers[i] \in Handlers /\ handlers \in [Slots -> Handlers]
  BY DEF ExitDelete, Typed
<1>2. handlers'[i].at = "deleting" /\ \A k \in Slots : k # i => handlers'[k] = handlers[k]
  BY <1>1 DEF Handlers
<1> QED BY <1>1, <1>2 DEF WaitersWait, Waiting

\* An operation that ends moves the handlers it wakes and no other.
LEMMA WokenHandlers ==
  ASSUME Typed, NEW ok \in BOOLEAN, WakeUp(ok)
  PROVE  \A k \in Slots :
           /\ k \notin Ending.wakes => handlers'[k] = handlers[k]
           /\ handlers'[k].room = handlers[k].room
           /\ handlers'[k].at = "revoke" => handlers[k].at = "revoke"
           /\ handlers'[k].at \in ExitStates => handlers[k].at \in ExitStates
           /\ handlers[k].at = "exit" => handlers'[k].at = "exit"
<1> SUFFICES ASSUME NEW k \in Slots
             PROVE  /\ k \notin Ending.wakes => handlers'[k] = handlers[k]
                    /\ handlers'[k].room = handlers[k].room
                    /\ handlers'[k].at = "revoke" => handlers[k].at = "revoke"
                    /\ handlers'[k].at \in ExitStates => handlers[k].at \in ExitStates
                    /\ handlers[k].at = "exit" => handlers'[k].at = "exit"
  OBVIOUS
<1>1. handlers \in [Slots -> Handlers] /\ handlers[k] \in Handlers
  BY DEF Typed
<1>2. PICK at \in HandlerStates : handlers'[k] = [handlers[k] EXCEPT !.at = at]
  BY <1>1, WokenUp
<1>3. handlers'[k].room = handlers[k].room
  BY <1>1, <1>2 DEF Handlers
<1>4. k \notin Ending.wakes => handlers'[k] = handlers[k]
  BY <1>1, WokenUp
<1>5. k \in Ending.wakes => handlers'[k].at =
                   CASE handlers[k].at = "write" -> "written"
                     [] handlers[k].at = "deleting" -> "deleted"
                     [] handlers[k].at = "queue" -> IF ok THEN "get" ELSE "unread"
                     [] OTHER -> handlers[k].at
  BY <1>1, WokenUp
<1> QED BY <1>3, <1>4, <1>5 DEF ExitStates

-------------------------------------------------------------------------------
(* Who is woken, who holds on to a room, and who exits.                    *)

\* WakesWaiting is kept when the queue stays...
LEMMA WakesUnchanged ==
  ASSUME WakesWaiting, WaitersWait, Typed, UNCHANGED queue
  PROVE  WakesWaiting'
<1>1. \A k \in 1..Len(queue) : queue[k].wakes \subseteq Slots
  BY QueueTyped DEF Typed
<1> QED BY <1>1 DEF WakesWaiting, WaitersWait, Waiting

\* ...when an operation is queued with the handlers that begin to wait...
LEMMA WakesAdded ==
  ASSUME WakesWaiting, WaitersWait, Typed, NEW value \in Values, NEW who \in SUBSET Slots,
         queue' = Enqueued(value, who),
         \A i \in who : handlers[i].at \notin Waiting /\ handlers'[i].at \in Waiting
  PROVE  WakesWaiting'
<1>1. /\ Len(queue') = Len(queue) + 1 /\ Len(queue) \in Nat
      /\ \A k \in 1..Len(queue) : queue'[k] = queue[k]
      /\ queue'[Len(queue) + 1].wakes = who
  BY QueueLonger DEF Typed
<1>2. \A k \in 1..Len(queue) : queue[k].wakes \subseteq Slots
  BY QueueTyped DEF Typed
<1>3. \A k \in 1..Len(queue) : \A i \in queue[k].wakes :
        handlers[i].at \in Waiting /\ handlers'[i].at \in Waiting /\ i \notin who
  BY <1>2 DEF WakesWaiting, WaitersWait, Waiting
<1>4. \A k \in 1..Len(queue') : k = Len(queue) + 1 \/ k \in 1..Len(queue)
  BY <1>1
<1>5. ASSUME NEW k \in 1..Len(queue')
      PROVE  /\ \A i \in queue'[k].wakes : handlers'[i].at \in Waiting
             /\ \A j \in 1..Len(queue') : j # k => queue'[j].wakes \cap queue'[k].wakes = {}
  <2>1. CASE k = Len(queue) + 1
    <3>1. \A j \in 1..Len(queue') : j # k => j \in 1..Len(queue)
      BY <1>4, <2>1
    <3> QED BY <1>1, <1>3, <2>1, <3>1
  <2>2. CASE k \in 1..Len(queue)
    <3>1. \A j \in 1..Len(queue) : j # k => queue[j].wakes \cap queue[k].wakes = {}
      BY <2>2 DEF WakesWaiting
    <3> QED BY <1>1, <1>3, <1>4, <2>2, <3>1
  <2> QED BY <1>4, <2>1, <2>2
<1> QED BY <1>5 DEF WakesWaiting, Waiting

\* ...when a join waits behind the last operation...
LEMMA WakesJoined ==
  ASSUME WakesWaiting, WaitersWait, Typed, NEW i \in Slots, queue # <<>>, queue' = Behind(i),
         handlers[i].at \notin Waiting, handlers'[i].at \in Waiting
  PROVE  WakesWaiting'
<1>1. /\ Len(queue') = Len(queue) /\ Len(queue) \in Nat
      /\ \A k \in 1..(Len(queue) - 1) : queue'[k].wakes = queue[k].wakes
      /\ queue'[Len(queue)].wakes = queue[Len(queue)].wakes \cup {i}
  BY QueueJoined DEF Typed, SameValues
<1>2. \A k \in 1..Len(queue) : queue[k].wakes \subseteq Slots
  BY QueueTyped DEF Typed
<1>3. \A k \in 1..Len(queue) : \A j \in queue[k].wakes :
        handlers[j].at \in Waiting /\ handlers'[j].at \in Waiting /\ j # i
  BY <1>2 DEF WakesWaiting, WaitersWait, Waiting
<1>4. \A k \in 1..Len(queue) : \/ k \in 1..(Len(queue) - 1) /\ queue'[k].wakes = queue[k].wakes
                               \/ k = Len(queue) /\ queue'[k].wakes = queue[k].wakes \cup {i}
  BY <1>1
<1>5. ASSUME NEW k \in 1..Len(queue)
      PROVE  /\ \A j \in queue'[k].wakes : handlers'[j].at \in Waiting
             /\ \A j \in 1..Len(queue) : j # k => queue'[j].wakes \cap queue'[k].wakes = {}
  <2>1. \A j \in 1..Len(queue) : j # k => queue[j].wakes \cap queue[k].wakes = {}
    BY DEF WakesWaiting
  <2> QED BY <1>3, <1>4, <2>1
<1> QED BY <1>1, <1>5 DEF WakesWaiting, Waiting

\* ...and when the first operation ends.
LEMMA WakesEnded ==
  ASSUME WakesWaiting, Typed, queue # <<>>, queue' = Tail(queue), NEW ok \in BOOLEAN, WakeUp(ok)
  PROVE  WakesWaiting'
<1>1. /\ Len(queue') \in Nat
      /\ \A k \in 1..Len(queue') : k + 1 \in 1..Len(queue) /\ queue'[k] = queue[k + 1]
      /\ Ending = queue[1] /\ 1 \in 1..Len(queue)
  BY QueueShorter DEF Typed
<1>2. \A k \in 1..Len(queue) : queue[k].wakes \subseteq Slots
  BY QueueTyped DEF Typed
<1>3. ASSUME NEW k \in 1..Len(queue'), NEW i \in queue'[k].wakes
      PROVE  handlers'[i].at \in Waiting
  <2>1. k + 1 \in 1..Len(queue) /\ k + 1 # 1 /\ i \in queue[k + 1].wakes /\ i \in Slots
    BY <1>1, <1>2
  <2>2. i \notin Ending.wakes /\ handlers[i].at \in Waiting
    BY <1>1, <2>1 DEF WakesWaiting, Waiting
  <2> QED BY <2>1, <2>2, WokenHandlers
<1>4. ASSUME NEW k \in 1..Len(queue'), NEW j \in 1..Len(queue'), j # k
      PROVE  queue'[j].wakes \cap queue'[k].wakes = {}
  <2>1. k + 1 \in 1..Len(queue) /\ j + 1 \in 1..Len(queue) /\ j + 1 # k + 1
    BY <1>1, <1>4
  <2> QED BY <1>1, <2>1 DEF WakesWaiting
<1> QED BY <1>3, <1>4 DEF WakesWaiting, Waiting

\* The room is written for handler i, or for no one.
LEMMA WakesWritten ==
  ASSUME WakesWaiting, WaitersWait, Typed, NEW room \in Rooms, NEW who \in SUBSET Slots,
         queue' = Enqueued(Snapshot(room), who),
         \A i \in who : handlers[i].at \notin Waiting /\ handlers'[i].at \in Waiting
  PROVE  WakesWaiting'
<1> DEFINE snap == Snapshot(room)
<1>1. snap \in Values
  BY RoomTyped DEF Values
<1>2. queue' = Enqueued(snap, who)
  OBVIOUS
<1> HIDE DEF snap
<1> QED BY <1>1, <1>2, WakesAdded

\* Every step keeps WakesWaiting.
LEMMA WakesKept ==
  ASSUME Typed, ChangesHeld, WakesWaiting, [Next]_vars
  PROVE  WakesWaiting'
<1>0. {} \in SUBSET Slots /\ \A i \in Slots : {i} \in SUBSET Slots
  OBVIOUS
<1>1. CASE UNCHANGED vars
  BY <1>1 DEF vars, pvars, WakesWaiting
<1>2. ASSUME NEW t \in Tabs,
             \/ JoinRoom(t) \/ Connect(t) \/ TimeOut(t) \/ RejoinFires(t)
             \/ AcceptReceived(t) \/ RefusalReceived(t) \/ JoinRefused(t)
      PROVE  WakesWaiting'
  <2>1. UNCHANGED queue
    BY <1>2, BrowserSteps
  <2>2. WaitersWait
    BY <1>2, CalmBrowser, CalmHandlers DEF Calm
  <2> QED BY <2>1, <2>2, WakesUnchanged
<1>3. ASSUME NEW t \in Tabs, NEW i \in Slots, Join(i, t)
      PROVE  WakesWaiting'
  <2>1. WaitersWait /\ handlers[i].at \notin Waiting
    BY <1>3, JoinHandlers DEF Calm, Waiting
  <2>2. CASE UNCHANGED queue
    BY <2>1, <2>2, WakesUnchanged
  <2>3. CASE handlers'[i].at \in Waiting /\ queue # <<>> /\ queue' = Behind(i)
    BY <2>1, <2>3, WakesJoined
  <2>4. CASE handlers'[i].at \in Waiting /\ mem' \in Rooms /\ queue' = Enqueued(Snapshot(mem'), {i})
    BY <1>0, <2>1, <2>4, WakesWritten
  <2> QED BY <1>3, <2>2, <2>3, <2>4, JoinHandlers
<1>4. ASSUME NEW t \in Tabs, NEW reload \in BOOLEAN, Drop(t, reload)
      PROVE  WakesWaiting'
  <2>1. WaitersWait
    BY <1>4, CalmHandlers DEF Calm
  <2> QED BY <1>0, <1>4, <2>1, DropRoom, WakesWritten, WakesUnchanged
<1>5. ASSUME NEW i \in Slots, Loaded(i) \/ NotLoaded(i)
      PROVE  WakesWaiting'
  <2> DEFINE room == IF Loaded(i) THEN AfterLoad ELSE mem
  <2>1. Decide(i, handlers[i], room) /\ handlers[i].at \in {"get", "unread"}
    BY <1>5 DEF Loaded, NotLoaded
  <2>2. room \in Rooms \cup {None}
    BY LoadedRoom DEF Typed
  <2> HIDE DEF room
  <2>3. Calm /\ \/ UNCHANGED queue
                \/ /\ handlers'[i].at \in Waiting /\ mem' \in Rooms
                   /\ queue' = Enqueued(Snapshot(mem'), {i})
    BY <2>1, <2>2, DecideHandlers
  <2>4. WaitersWait /\ handlers[i].at \notin Waiting
    BY <2>1, <2>3 DEF Calm, Waiting
  <2> QED BY <1>0, <2>3, <2>4, WakesUnchanged, WakesWritten
<1>6. ASSUME NEW i \in Slots, Joined(i)
      PROVE  WakesWaiting'
  <2>1. WaitersWait
    BY <1>6, CalmHandlers DEF Calm
  <2> QED BY <1>0, <1>6, <2>1, JoinedRoom, WakesWritten, WakesUnchanged
<1>7. ASSUME Change
      PROVE  WakesWaiting'
  <2>1. WaitersWait
    BY <1>7, CalmHandlers DEF Calm
  <2>2. mem' \in Rooms /\ queue' = Enqueued(Snapshot(mem'), {})
    BY <1>7, ChangeTyped, RoomTyped
  <2> QED BY <1>0, <2>1, <2>2, WakesWritten
<1>8. ASSUME NEW i \in Slots, WriteChange(i)
      PROVE  WakesWaiting'
  <2>1. WaitersWait
    BY <1>8, CalmHandlers DEF Calm
  <2>2. PICK room \in Rooms : queue' = Enqueued(Snapshot(room), {})
    BY <1>8, WriteChangeTyped
  <2> QED BY <1>0, <2>1, <2>2, WakesWritten
<1>9. ASSUME NEW i \in Slots, ChangeSlowly(i) \/ Exit(i) \/ ExitTold(i)
      PROVE  WakesWaiting'
  <2>1. WaitersWait
    BY <1>9, SlowHandlers, ExitHandlers, CalmHandlers DEF Calm
  <2>2. UNCHANGED queue
    BY <1>9 DEF ChangeSlowly, Exit, ExitTold, pvars
  <2> QED BY <2>1, <2>2, WakesUnchanged
<1>10. ASSUME NEW i \in Slots, ExitDelete(i)
       PROVE  WakesWaiting'
  <2>1. /\ WaitersWait /\ handlers[i].at \notin Waiting /\ handlers'[i].at \in Waiting
        /\ queue' = Enqueued(None, {i}) /\ None \in Values
    BY <1>10, DeleteHandlers DEF ExitDelete, Waiting, Values
  <2> QED BY <1>0, <2>1, WakesAdded
<1>11. ASSUME RedisDone \/ RedisFails
       PROVE  WakesWaiting'
  <2>1. queue # <<>> /\ queue' = Tail(queue) /\ \E ok \in BOOLEAN : WakeUp(ok)
    BY <1>11 DEF RedisDone, RedisFails, Lands, Fails
  <2> QED BY <2>1, WakesEnded
<1>12. ASSUME RedisLate
       PROVE  WakesWaiting'
  <2>1. WaitersWait /\ UNCHANGED queue
    BY <1>12, CalmHandlers DEF Calm, RedisLate, LandsLate
  <2> QED BY <2>1, WakesUnchanged
<1>13. ASSUME Crash
       PROVE  WakesWaiting'
  <2>1. queue' = <<>>
    BY <1>13 DEF Crash, QueueIsLost
  <2> QED BY <2>1 DEF WakesWaiting
<1> QED BY <1>1, <1>2, <1>3, <1>4, <1>5, <1>6, <1>7, <1>8, <1>9, <1>10, <1>11, <1>12, <1>13,
           NextSteps DEF Steps

\* Calm steps keep what is known of revocations and exits.
LEMMA HeldKept ==
  ASSUME ChangesHeld, ExitsAreKnown, Calm, mem' = None => mem = None, exited => exited'
  PROVE  ChangesHeld' /\ ExitsAreKnown'
BY DEF Calm, ChangesHeld, ExitsAreKnown

\* So does every step.
LEMMA HandlersKept ==
  ASSUME Typed, ChangesHeld, ExitsAreKnown, [Next]_vars
  PROVE  ChangesHeld' /\ ExitsAreKnown'
<1>1. CASE UNCHANGED vars
  BY <1>1 DEF vars, ChangesHeld, ExitsAreKnown, history
<1>2. ASSUME NEW t \in Tabs,
             \/ JoinRoom(t) \/ Connect(t) \/ TimeOut(t) \/ RejoinFires(t)
             \/ AcceptReceived(t) \/ RefusalReceived(t) \/ JoinRefused(t)
      PROVE  ChangesHeld' /\ ExitsAreKnown'
  <2>1. UNCHANGED mem /\ UNCHANGED exited /\ Calm
    BY <1>2, BrowserSteps, CalmBrowser, CalmHandlers
  <2> QED BY <2>1, HeldKept
<1>3. ASSUME NEW t \in Tabs, NEW i \in Slots, Join(i, t)
      PROVE  ChangesHeld' /\ ExitsAreKnown'
  <2>1. Calm /\ UNCHANGED exited /\ (mem' = None => mem = None)
    BY <1>3, JoinHandlers, JoinMemory, RoomTyped
  <2> QED BY <2>1, HeldKept
<1>4. ASSUME NEW t \in Tabs, NEW reload \in BOOLEAN, Drop(t, reload)
      PROVE  ChangesHeld' /\ ExitsAreKnown'
  <2>1. Calm /\ UNCHANGED exited /\ (mem' = None => mem = None)
    BY <1>4, CalmHandlers, DropRoom, RoomTyped DEF Drop, history
  <2> QED BY <2>1, HeldKept
<1>5. ASSUME NEW i \in Slots, Loaded(i) \/ NotLoaded(i)
      PROVE  ChangesHeld' /\ ExitsAreKnown'
  <2> DEFINE room == IF Loaded(i) THEN AfterLoad ELSE mem
  <2>1. Decide(i, handlers[i], room) /\ handlers[i].at \in {"get", "unread"} /\ UNCHANGED exited
    BY <1>5 DEF Loaded, NotLoaded
  <2>2. room \in Rooms \cup {None} /\ (mem # None => room = mem)
    BY LoadedRoom DEF Typed
  <2> HIDE DEF room
  <2>3. Calm
    BY <2>1, <2>2, DecideHandlers
  <2>4. mem' = None => mem = None
    BY <2>1, <2>2, DecideMemory, RoomTyped
  <2> QED BY <2>1, <2>3, <2>4, HeldKept
<1>6. ASSUME NEW i \in Slots, Joined(i) \/ WriteChange(i) \/ ExitTold(i)
      PROVE  ChangesHeld' /\ ExitsAreKnown'
  <2>1. Calm
    BY <1>6, CalmHandlers
  <2>2. UNCHANGED exited
    BY <1>6 DEF Joined, WriteChange, ExitTold, history
  <2>3. mem' = None => mem = None
    BY <1>6, JoinedRoom, RoomTyped DEF WriteChange, ExitTold
  <2> QED BY <2>1, <2>2, <2>3, HeldKept
<1>7. ASSUME Change \/ RedisLate
      PROVE  ChangesHeld' /\ ExitsAreKnown'
  <2>1. Calm /\ UNCHANGED exited
    BY <1>7, CalmHandlers DEF Change, RedisLate, history
  <2>2. mem' = None => mem = None
    BY <1>7, ChangeTyped, RoomTyped DEF RedisLate
  <2> QED BY <2>1, <2>2, HeldKept
<1>8. ASSUME NEW i \in Slots, ChangeSlowly(i)
      PROVE  ChangesHeld' /\ ExitsAreKnown'
  <2>1. mem # None /\ mem' = Changed(mem) /\ UNCHANGED exited
    BY <1>8 DEF ChangeSlowly, history
  <2>2. mem' # None
    BY <2>1, RoomTyped DEF Typed
  <2>3. \A k \in Slots : handlers'[k].at \in ExitStates => handlers[k].at \in ExitStates
    BY <1>8, SlowHandlers DEF ExitStates
  <2> QED BY <2>1, <2>2, <2>3 DEF ChangesHeld, ExitsAreKnown
<1>9. ASSUME NEW i \in Slots, Exit(i)
      PROVE  ChangesHeld' /\ ExitsAreKnown'
  <2>1. exited' = TRUE
    BY <1>9 DEF Exit
  <2>2. \A k \in Slots : handlers'[k].at = "revoke" => handlers'[k].room # None
    BY <1>9, ExitHandlers
  <2> QED BY <2>1, <2>2 DEF ChangesHeld, ExitsAreKnown
<1>10. ASSUME NEW i \in Slots, ExitDelete(i)
       PROVE  ChangesHeld' /\ ExitsAreKnown'
  <2>1. UNCHANGED <<mem, exited>>
    BY <1>10 DEF ExitDelete, history
  <2>2. /\ handlers[i].at = "exit" /\ handlers'[i].at = "deleting"
        /\ \A k \in Slots : k # i => handlers'[k] = handlers[k]
    BY <1>10, DeleteHandlers
  <2> QED BY <2>1, <2>2 DEF ChangesHeld, ExitsAreKnown, ExitStates
<1>11. ASSUME RedisDone \/ RedisFails
       PROVE  ChangesHeld' /\ ExitsAreKnown'
  <2>1. UNCHANGED mem /\ UNCHANGED exited /\ \E ok \in BOOLEAN : WakeUp(ok)
    BY <1>11 DEF RedisDone, RedisFails, history
  <2>2. \A k \in Slots : /\ handlers'[k].room = handlers[k].room
                         /\ handlers'[k].at = "revoke" => handlers[k].at = "revoke"
                         /\ handlers'[k].at \in ExitStates => handlers[k].at \in ExitStates
    BY <2>1, WokenHandlers
  <2> QED BY <2>1, <2>2 DEF ChangesHeld, ExitsAreKnown
<1>12. ASSUME Crash
       PROVE  ChangesHeld' /\ ExitsAreKnown'
  <2>1. \A k \in Slots : handlers'[k].at = "idle"
    BY <1>12, NewHandlerTyped DEF Crash
  <2> QED BY <2>1 DEF ChangesHeld, ExitsAreKnown, ExitStates
<1> QED BY <1>1, <1>2, <1>3, <1>4, <1>5, <1>6, <1>7, <1>8, <1>9, <1>10, <1>11, <1>12,
           NextSteps DEF Steps

-------------------------------------------------------------------------------
(* What is written, and in which order.                                    *)

\* While nothing failed and the room was not exited, a step leaves the room and what
\* is queued, or makes the room newer and writes it, or ends the first operation, or
\* is a crash.
Kept == UNCHANGED <<mem, saved>> /\ SameValues
Grown ==
  /\ UNCHANGED saved /\ mem' \in Rooms
  /\ mem # None => mem \in Rooms /\ mem'.ver >= mem.ver
  /\ mem = None => saved # None /\ mem'.ver >= saved.ver
  /\ SameValues \/ \E who \in SUBSET Slots : queue' = Enqueued(Snapshot(mem'), who)
Landed == UNCHANGED mem /\ queue # <<>> /\ saved' = Ending.value /\ queue' = Tail(queue)
Stopped == mem' = None /\ UNCHANGED saved /\ queue' = <<>>

\* As long as nothing failed and nobody exited, a step keeps the room and its writes,
\* adds one, lands one, or stops.
LEMMA RoomSteps ==
  ASSUME Typed, ChangesHeld, ExitsAreKnown, [Next]_vars, Live'
  PROVE  Live /\ (Kept \/ Grown \/ Landed \/ Stopped)
<1>0. {} \in SUBSET Slots /\ \A i \in Slots : {i} \in SUBSET Slots
  OBVIOUS
<1>s. ASSUME UNCHANGED queue
      PROVE  SameValues
  BY <1>s, QueueUnchanged DEF Typed
<1>g. ASSUME mem \in Rooms, mem' \in Rooms, mem'.ver = mem.ver + 1, UNCHANGED saved,
             UNCHANGED queue \/ \E who \in SUBSET Slots : queue' = Enqueued(Snapshot(mem'), who)
      PROVE  Grown
  BY <1>g, <1>s, RoomTyped DEF Grown
<1>1. CASE UNCHANGED vars
  BY <1>1, <1>s DEF vars, pvars, history, Kept, Live
<1>2. ASSUME NEW t \in Tabs,
             \/ JoinRoom(t) \/ Connect(t) \/ TimeOut(t) \/ RejoinFires(t)
             \/ AcceptReceived(t) \/ RefusalReceived(t) \/ JoinRefused(t)
      PROVE  Live /\ Kept
  BY <1>2, <1>s, BrowserSteps DEF Live, Kept
<1>3. ASSUME NEW t \in Tabs, NEW i \in Slots, Join(i, t)
      PROVE  Live /\ (Kept \/ Grown)
  <2>1. UNCHANGED <<saved, clean, exited>>
    BY <1>3, JoinMemory
  <2>2. CASE UNCHANGED mem /\ mem = None /\ SameValues
    BY <2>1, <2>2 DEF Kept, Live
  <2>3. CASE /\ mem \in Rooms /\ mem' \in Rooms /\ mem'.ver = mem.ver + 1
             /\ queue' = Enqueued(Snapshot(mem'), {i})
    BY <1>0, <1>g, <2>1, <2>3 DEF Live
  <2> QED BY <1>3, <2>2, <2>3, JoinMemory
<1>4. ASSUME NEW t \in Tabs, NEW reload \in BOOLEAN, Drop(t, reload)
      PROVE  Live /\ (Kept \/ Grown)
  <2>1. UNCHANGED <<saved, clean, exited>>
    BY <1>4 DEF Drop, history
  <2>2. CASE UNCHANGED <<mem, queue>>
    BY <1>s, <2>1, <2>2 DEF Kept, Live
  <2>3. CASE /\ mem \in Rooms /\ mem' \in Rooms /\ mem'.ver = mem.ver + 1
             /\ queue' = Enqueued(Snapshot(mem'), {})
    BY <1>0, <1>g, <2>1, <2>3 DEF Live
  <2> QED BY <1>4, <2>2, <2>3, DropRoom
<1>5. ASSUME NEW i \in Slots, Loaded(i)
      PROVE  Live /\ (Kept \/ Grown)
  <2> DEFINE room == AfterLoad
  <2>1. Decide(i, handlers[i], room) /\ UNCHANGED <<saved, clean, exited>>
    BY <1>5 DEF Loaded
  <2>2. /\ room \in Rooms \cup {None} /\ (mem # None => room = mem)
        /\ mem = None /\ room # None => saved # None /\ room.ver = saved.ver
    BY LoadedRoom
  <2> HIDE DEF room
  <2>3. CASE mem' = room /\ UNCHANGED queue
    <3>1. CASE room = None
      BY <1>s, <2>1, <2>2, <2>3, <3>1 DEF Kept, Live
    <3>2. CASE room # None
      <4>1. room \in Rooms /\ room.ver \in Nat /\ SameValues
        BY <1>s, <2>2, <2>3, <3>2, RoomTyped
      <4> QED BY <2>1, <2>2, <2>3, <3>2, <4>1 DEF Grown, Live
    <3> QED BY <3>1, <3>2
  <2>4. CASE /\ room \in Rooms /\ mem' \in Rooms /\ mem'.ver = room.ver + 1
             /\ queue' = Enqueued(Snapshot(mem'), {i})
    <3>1. room.ver \in Nat /\ room # None
      BY <2>4, RoomTyped
    <3> QED BY <1>0, <2>1, <2>2, <2>4, <3>1 DEF Grown, Live
  <2> QED BY <2>1, <2>2, <2>3, <2>4, DecideMemory
<1>6. ASSUME NEW i \in Slots, Joined(i)
      PROVE  Live /\ (Kept \/ Grown)
  <2>1. UNCHANGED <<saved, clean, exited>>
    BY <1>6 DEF Joined, history
  <2>2. CASE UNCHANGED <<mem, queue>>
    BY <1>s, <2>1, <2>2 DEF Kept, Live
  <2>3. CASE /\ mem \in Rooms /\ mem' \in Rooms /\ mem'.ver = mem.ver + 1
             /\ queue' = Enqueued(Snapshot(mem'), {})
    BY <1>0, <1>g, <2>1, <2>3 DEF Live
  <2> QED BY <1>6, <2>2, <2>3, JoinedRoom
<1>7. ASSUME Change \/ \E i \in Slots : ChangeSlowly(i)
      PROVE  Live /\ Grown
  <2>1. /\ mem # None /\ mem' = Changed(mem) /\ UNCHANGED <<saved, clean, exited>>
        /\ queue' = Enqueued(Snapshot(mem'), {}) \/ UNCHANGED queue
    BY <1>7 DEF Change, ChangeSlowly, pvars, history
  <2>2. mem \in Rooms /\ mem' \in Rooms /\ mem'.ver = mem.ver + 1
    BY <2>1, RoomTyped DEF Typed
  <2> QED BY <1>0, <1>g, <2>1, <2>2 DEF Live
<1>8. ASSUME NEW i \in Slots, WriteChange(i)
      PROVE  Live /\ Grown
  <2>1. PICK room \in Rooms : queue' = Enqueued(Snapshot(room), {}) /\ (clean' => mem = room)
    BY <1>8, WriteChangeTyped
  <2>2. UNCHANGED <<saved, mem, exited>> /\ (clean' => clean)
    BY <1>8 DEF WriteChange
  <2>3. mem = room /\ Live
    BY <2>1, <2>2 DEF Live
  <2>4. mem' \in Rooms /\ mem # None /\ mem'.ver >= mem.ver /\ queue' = Enqueued(Snapshot(mem'), {})
    BY <2>1, <2>2, <2>3, RoomTyped
  <2> QED BY <1>0, <2>2, <2>3, <2>4 DEF Grown
<1>9. ASSUME NEW i \in Slots, ExitTold(i)
      PROVE  Live /\ Kept
  BY <1>9, <1>s DEF ExitTold, pvars, history, Live, Kept
<1>10. ASSUME NEW i \in Slots, Exit(i) \/ ExitDelete(i) \/ NotLoaded(i)
       PROVE  FALSE
  <2>1. CASE Exit(i)
    BY <2>1 DEF Exit, Live
  <2>2. CASE ExitDelete(i)
    BY <2>2 DEF ExitDelete, ExitsAreKnown, ExitStates, Live, history
  <2>3. CASE NotLoaded(i)
    BY <2>3 DEF NotLoaded, Live
  <2> QED BY <1>10, <2>1, <2>2, <2>3
<1>11. ~RedisFails /\ ~RedisLate
  BY DEF RedisFails, RedisLate, Live
<1>12. ASSUME RedisDone
       PROVE  Live /\ Landed
  BY <1>12 DEF RedisDone, Lands, Landed, Live, history
<1>13. ASSUME Crash
       PROVE  Live /\ Stopped
  BY <1>13 DEF Crash, QueueIsLost, Stopped, Live
<1> QED BY <1>1, <1>2, <1>3, <1>4, <1>5, <1>6, <1>7, <1>8, <1>9, <1>10, <1>11, <1>12, <1>13,
           NextSteps DEF Steps

\* Saved, queued and in memory: the versions, where there are any.
LEMMA Versions ==
  ASSUME Typed
  PROVE  /\ saved # None => saved.ver \in Nat
         /\ mem # None => mem.ver \in Nat
         /\ Len(queue) \in Nat
         /\ \A k \in 1..Len(queue) : queue[k].value # None => queue[k].value.ver \in Nat
<1>1. \A snap \in Snapshots : snap.ver \in Nat
  BY DEF Snapshots
<1>2. Len(queue) \in Nat /\ \A k \in 1..Len(queue) : queue[k].value \in Values
  BY QueueTyped DEF Typed
<1> QED BY <1>1, <1>2, RoomTyped DEF Typed, Values

\* Every step keeps the order of writes.
LEMMA OrderKept ==
  ASSUME Typed, ChangesHeld, ExitsAreKnown, NothingToWrite, WritesInOrder, [Next]_vars
  PROVE  WritesInOrder' /\ NothingToWrite'
<1> SUFFICES ASSUME Live'
             PROVE  /\ NothingToWrite'
                    /\ NotNewer(saved', mem')
                    /\ \A k \in 1..Len(queue') :
                         /\ NotNewer(saved', queue'[k].value) /\ NotNewer(queue'[k].value, mem')
                         /\ \A j \in 1..(k - 1) : NotNewer(queue'[j].value, queue'[k].value)
  BY DEF WritesInOrder, NothingToWrite, Live
<1>1. Live /\ (Kept \/ Grown \/ Landed \/ Stopped)
  BY RoomSteps
<1>2. /\ NotNewer(saved, mem)
      /\ \A k \in 1..Len(queue) :
           /\ NotNewer(saved, queue[k].value) /\ NotNewer(queue[k].value, mem)
           /\ \A j \in 1..(k - 1) : NotNewer(queue[j].value, queue[k].value)
      /\ mem = None => queue = <<>>
  BY <1>1 DEF WritesInOrder, NothingToWrite, Live
<1>v. /\ saved # None => saved.ver \in Nat
      /\ mem # None => mem.ver \in Nat
      /\ Len(queue) \in Nat
      /\ \A k \in 1..Len(queue) : queue[k].value # None => queue[k].value.ver \in Nat
  BY Versions
<1>j. \A k \in 1..Len(queue) : \A j \in 1..(k - 1) : j \in 1..Len(queue)
  BY <1>v
<1>3. CASE Kept
  <2>1. /\ UNCHANGED <<mem, saved>> /\ Len(queue') = Len(queue) /\ queue' \in Seq(Operations)
        /\ \A k \in 1..Len(queue) : queue'[k].value = queue[k].value
    BY <1>3 DEF Kept, SameValues
  <2>2. NothingToWrite'
    BY <1>2, <2>1, EmptySeq DEF NothingToWrite
  <2> QED BY <1>2, <1>j, <2>1, <2>2
<1>4. CASE Grown
  <2>1. /\ UNCHANGED saved /\ mem' \in Rooms /\ mem' # None /\ mem'.ver \in Nat
        /\ mem # None => mem'.ver >= mem.ver
        /\ mem = None => saved # None /\ mem'.ver >= saved.ver
    BY <1>4, RoomTyped DEF Grown
  <2>2. NotNewer(saved', mem') /\ NothingToWrite'
    BY <1>2, <1>v, <2>1 DEF NotNewer, NothingToWrite
  <2>3. \A k \in 1..Len(queue) : NotNewer(queue[k].value, mem')
    BY <1>2, <1>v, <2>1 DEF NotNewer
  <2>4. CASE SameValues
    <3>1. Len(queue') = Len(queue) /\ \A k \in 1..Len(queue) : queue'[k].value = queue[k].value
      BY <2>4 DEF SameValues
    <3> QED BY <1>2, <1>j, <2>1, <2>2, <2>3, <3>1
  <2>5. ASSUME NEW who \in SUBSET Slots, queue' = Enqueued(Snapshot(mem'), who)
        PROVE  \A k \in 1..Len(queue') :
                 /\ NotNewer(saved', queue'[k].value) /\ NotNewer(queue'[k].value, mem')
                 /\ \A j \in 1..(k - 1) : NotNewer(queue'[j].value, queue'[k].value)
    <3> DEFINE snap == Snapshot(mem')
    <3>1. snap \in Values /\ snap.ver = mem'.ver /\ snap # None
      BY <2>1, RoomTyped DEF Values
    <3>2. queue' = Enqueued(snap, who)
      BY <2>5
    <3> HIDE DEF snap
    <3>3. /\ Len(queue') = Len(queue) + 1 /\ \A k \in 1..Len(queue) : queue'[k] = queue[k]
          /\ queue'[Len(queue) + 1].value = snap
      BY <3>1, <3>2, QueueLonger DEF Typed
    <3>4. NotNewer(saved', snap) /\ NotNewer(snap, mem')
          /\ \A j \in 1..Len(queue) : NotNewer(queue[j].value, snap)
      BY <2>1, <2>2, <2>3, <3>1 DEF NotNewer
    <3>5. ASSUME NEW k \in 1..Len(queue')
          PROVE  /\ NotNewer(saved', queue'[k].value) /\ NotNewer(queue'[k].value, mem')
                 /\ \A j \in 1..(k - 1) : NotNewer(queue'[j].value, queue'[k].value)
      <4>1. CASE k \in 1..Len(queue)
        BY <1>2, <1>j, <2>1, <2>3, <3>3, <4>1
      <4>2. CASE k = Len(queue) + 1
        <5>1. \A j \in 1..(k - 1) : j \in 1..Len(queue)
          BY <1>v, <4>2
        <5> QED BY <3>3, <3>4, <4>2, <5>1
      <4> QED BY <1>v, <3>3, <4>1, <4>2
    <3> QED BY <3>5
  <2> QED BY <1>4, <2>2, <2>4, <2>5 DEF Grown
<1>5. CASE Landed
  <2>1. UNCHANGED mem /\ saved' = queue[1].value /\ queue # <<>> /\ queue' = Tail(queue) /\ 1 \in 1..Len(queue)
    BY <1>5, QueueShorter DEF Landed, Typed
  <2>2. /\ Len(queue') = Len(queue) - 1
        /\ \A k \in 1..Len(queue') : k + 1 \in 1..Len(queue) /\ queue'[k] = queue[k + 1]
    BY <2>1, QueueShorter DEF Typed
  <2>3. NothingToWrite' /\ NotNewer(saved', mem')
    BY <1>2, <2>1 DEF NothingToWrite
  <2>4. ASSUME NEW k \in 1..Len(queue')
        PROVE  /\ NotNewer(saved', queue'[k].value) /\ NotNewer(queue'[k].value, mem')
               /\ \A j \in 1..(k - 1) : NotNewer(queue'[j].value, queue'[k].value)
    <3>1. k + 1 \in 1..Len(queue) /\ queue'[k] = queue[k + 1] /\ 1 \in 1..((k + 1) - 1)
      BY <1>v, <2>2
    <3>2. NotNewer(saved', queue'[k].value) /\ NotNewer(queue'[k].value, mem')
      BY <1>2, <2>1, <3>1
    <3>3. ASSUME NEW j \in 1..(k - 1)
          PROVE  NotNewer(queue'[j].value, queue'[k].value)
      <4>1. j \in 1..Len(queue') /\ j + 1 \in 1..((k + 1) - 1)
        BY <1>v, <2>2
      <4>2. queue'[j] = queue[j + 1]
        BY <2>2, <4>1
      <4> QED BY <1>2, <3>1, <4>1, <4>2
    <3> QED BY <3>2, <3>3
  <2> QED BY <2>3, <2>4
<1>6. CASE Stopped
  <2>1. mem' = None /\ queue' = <<>> /\ Len(queue') = 0
    BY <1>6 DEF Stopped
  <2> QED BY <2>1 DEF NothingToWrite, NotNewer
<1> QED BY <1>1, <1>3, <1>4, <1>5, <1>6

-------------------------------------------------------------------------------
(* What an exit leaves.                                                    *)

\* Calm steps that leave Redis and memory alone keep Forgetting.
LEMMA ForgottenStays ==
  ASSUME Typed, Forgetting, Calm, UNCHANGED <<saved, exited>>,
         clean' /\ mem' = None => clean /\ mem = None /\ SameValues
  PROVE  Forgetting'
<1> SUFFICES ASSUME clean', exited', mem' = None
             PROVE  \/ \E i \in Slots : handlers'[i].at = "exit"
                    \/ LastDeletes'
                    \/ queue' = <<>> /\ saved' = None
  BY DEF Forgetting
<1>1. /\ clean /\ exited /\ mem = None
      /\ queue' \in Seq(Operations) /\ Len(queue') = Len(queue) /\ Len(queue) \in Nat
      /\ \A k \in 1..Len(queue) : queue'[k].value = queue[k].value
  BY DEF SameValues
<1>2. CASE \E i \in Slots : handlers[i].at = "exit"
  BY <1>2 DEF Calm
<1>3. CASE LastDeletes
  <2>1. queue # <<>> /\ queue[Len(queue)].value = None /\ Len(queue) \in 1..Len(queue)
    BY <1>1, <1>3 DEF LastDeletes, Typed
  <2> QED BY <1>1, <2>1 DEF LastDeletes
<1>4. CASE queue = <<>> /\ saved = None
  BY <1>1, <1>4, EmptySeq
<1> QED BY <1>1, <1>2, <1>3, <1>4 DEF Forgetting

\* Every step keeps Forgetting.
LEMMA ForgettingKept ==
  ASSUME Typed, ChangesHeld, Forgetting, [Next]_vars
  PROVE  Forgetting'
<1>s. ASSUME UNCHANGED queue
      PROVE  SameValues
  BY <1>s, QueueUnchanged DEF Typed
<1>1. CASE UNCHANGED vars
  BY <1>1 DEF vars, pvars, history, Forgetting, LastDeletes
<1>2. ASSUME NEW t \in Tabs,
             \/ JoinRoom(t) \/ Connect(t) \/ TimeOut(t) \/ RejoinFires(t)
             \/ AcceptReceived(t) \/ RefusalReceived(t) \/ JoinRefused(t)
      PROVE  Forgetting'
  <2>1. Calm /\ UNCHANGED <<saved, exited, clean, mem, queue>>
    BY <1>2, BrowserSteps, CalmBrowser, CalmHandlers
  <2> QED BY <1>s, <2>1, ForgottenStays
<1>3. ASSUME NEW t \in Tabs, NEW i \in Slots, Join(i, t)
      PROVE  Forgetting'
  <2>1. Calm /\ UNCHANGED <<saved, exited, clean>> /\ (mem' = None => mem = None /\ SameValues)
    BY <1>3, JoinHandlers, JoinMemory, RoomTyped
  <2> QED BY <2>1, ForgottenStays
<1>4. ASSUME NEW t \in Tabs, NEW reload \in BOOLEAN, Drop(t, reload)
      PROVE  Forgetting'
  <2>1. Calm /\ UNCHANGED <<saved, exited, clean>>
    BY <1>4, CalmHandlers DEF Drop, history
  <2>2. mem' = None => mem = None /\ SameValues
    BY <1>4, <1>s, DropRoom, RoomTyped
  <2> QED BY <2>1, <2>2, ForgottenStays
<1>5. ASSUME NEW i \in Slots, Loaded(i)
      PROVE  Forgetting'
  <2> DEFINE room == AfterLoad
  <2>1. /\ Decide(i, handlers[i], room) /\ handlers[i].at \in {"get", "unread"}
        /\ UNCHANGED <<saved, clean, exited>>
    BY <1>5 DEF Loaded
  <2>2. room \in Rooms \cup {None} /\ (mem # None => room = mem)
    BY LoadedRoom
  <2> HIDE DEF room
  <2>3. Calm
    BY <2>1, <2>2, DecideHandlers
  <2>4. mem' = None => mem = None /\ SameValues
    BY <1>s, <2>1, <2>2, DecideMemory, RoomTyped
  <2> QED BY <2>1, <2>3, <2>4, ForgottenStays
<1>6. ASSUME NEW i \in Slots, Joined(i) \/ ExitTold(i)
      PROVE  Forgetting'
  <2>1. Calm /\ UNCHANGED <<saved, exited, clean>>
    BY <1>6, CalmHandlers DEF Joined, ExitTold, history, pvars
  <2>2. mem' = None => mem = None /\ SameValues
    BY <1>6, <1>s, JoinedRoom, RoomTyped DEF ExitTold, pvars
  <2> QED BY <2>1, <2>2, ForgottenStays
<1>7. ASSUME Change \/ \E i \in Slots : ChangeSlowly(i)
      PROVE  Forgetting'
  <2>1. mem # None /\ mem' = Changed(mem)
    BY <1>7 DEF Change, ChangeSlowly
  <2>2. mem' # None
    BY <2>1, RoomTyped DEF Typed
  <2> QED BY <2>2 DEF Forgetting
<1>8. ASSUME NEW i \in Slots, WriteChange(i)
      PROVE  Forgetting'
  <2>1. PICK room \in Rooms : clean' => mem = room
    BY <1>8, WriteChangeTyped
  <2>2. UNCHANGED mem /\ room # None
    BY <1>8, RoomTyped DEF WriteChange
  <2> QED BY <2>1, <2>2 DEF Forgetting
<1>9. ASSUME NEW i \in Slots, Exit(i)
      PROVE  Forgetting'
  BY <1>9, ExitHandlers DEF Forgetting
<1>10. ASSUME NEW i \in Slots, ExitDelete(i)
       PROVE  Forgetting'
  <2>1. queue' = Enqueued(None, {i}) /\ None \in Values /\ {i} \in SUBSET Slots
    BY <1>10 DEF ExitDelete, Values
  <2>2. queue' # <<>> /\ Len(queue') = Len(queue) + 1 /\ queue'[Len(queue) + 1].value = None
    BY <2>1, QueueLonger DEF Typed
  <2> QED BY <2>2 DEF Forgetting, LastDeletes
<1>11. ASSUME RedisDone
       PROVE  Forgetting'
  <2>1. /\ queue # <<>> /\ queue' = Tail(queue) /\ saved' = Ending.value /\ WakeUp(TRUE)
        /\ UNCHANGED <<mem, clean, exited>>
    BY <1>11 DEF RedisDone, Lands, history
  <2>2. /\ Len(queue') = Len(queue) - 1 /\ Len(queue) \in Nat \ {0} /\ queue' \in Seq(Operations)
        /\ \A k \in 1..Len(queue') : k + 1 \in 1..Len(queue) /\ queue'[k] = queue[k + 1]
        /\ Ending = queue[1]
    BY <2>1, QueueShorter DEF Typed
  <2>3. CASE \E i \in Slots : handlers[i].at = "exit"
    <3>1. \E i \in Slots : handlers'[i].at = "exit"
      BY <2>1, <2>3, WokenHandlers
    <3> QED BY <3>1 DEF Forgetting
  <2>4. CASE LastDeletes /\ Len(queue) = 1
    <3>1. queue' = <<>> /\ saved' = None
      BY <2>1, <2>2, <2>4, EmptySeq DEF LastDeletes
    <3> QED BY <3>1 DEF Forgetting
  <2>5. CASE LastDeletes /\ Len(queue) # 1
    <3>1. Len(queue') \in 1..Len(queue') /\ Len(queue') + 1 = Len(queue) /\ queue' # <<>>
      BY <2>2, <2>5
    <3>2. queue'[Len(queue')].value = None
      BY <2>2, <2>5, <3>1 DEF LastDeletes
    <3> QED BY <3>1, <3>2 DEF Forgetting, LastDeletes
  <2> QED BY <2>1, <2>3, <2>4, <2>5 DEF Forgetting
<1>12. ASSUME RedisFails \/ RedisLate \/ \E i \in Slots : NotLoaded(i)
       PROVE  Forgetting'
  BY <1>12 DEF RedisFails, RedisLate, NotLoaded, Forgetting
<1>13. ASSUME Crash
       PROVE  Forgetting'
  BY <1>13 DEF Crash, Forgetting
<1> QED BY <1>1, <1>2, <1>3, <1>4, <1>5, <1>6, <1>7, <1>8, <1>9, <1>10, <1>11, <1>12, <1>13,
           NextSteps DEF Steps

-------------------------------------------------------------------------------
(* The room's theorems.                                                    *)

\* The room's invariant holds initially.
LEMMA InitRoom ==
  ASSUME Init
  PROVE  RoomInv
<1>1. Typed
  BY InitTyped
<1>2. \A i \in Slots : handlers[i].at = "idle"
  BY NewHandlerTyped DEF Init
<1>3. ChangesHeld /\ ExitsAreKnown
  BY <1>2 DEF ChangesHeld, ExitsAreKnown, ExitStates
<1>4. mem # None /\ saved = None /\ mem.ver = 1 /\ Len(queue) = 1
  BY <1>1, RoomTyped DEF Init, Typed, Rooms, Holders
<1>5. queue[1].wakes = {} /\ queue[1].value.ver = 1
  BY DEF Init, Operation
<1>6. NothingToWrite /\ Forgetting
  BY <1>4 DEF NothingToWrite, Forgetting
<1>7. WritesInOrder
  BY <1>4, <1>5 DEF WritesInOrder, NotNewer
<1>8. WakesWaiting
  BY <1>4, <1>5 DEF WakesWaiting
<1> QED BY <1>1, <1>3, <1>6, <1>7, <1>8 DEF RoomInv

\* The room's invariant holds in every state.
LEMMA RoomInvariant == Spec => []RoomInv
<1>1. Init => RoomInv
  BY InitRoom
<1>2. RoomInv /\ [Next]_vars => RoomInv'
  BY TypedKept, HandlersKept, OrderKept, ForgettingKept, WakesKept DEF RoomInv
<1> QED BY <1>1, <1>2, PTL DEF Spec

\* Type correctness.
THEOREM RecoveryTyped == Spec => []TypeOK
<1>1. RoomInv => TypeOK
  <2> SUFFICES ASSUME Typed PROVE TypeOK
    BY DEF RoomInv
  <2>1. \A k \in 1..Len(queue) : queue[k].value \in Values /\ queue[k].wakes \subseteq Slots
    BY QueueTyped DEF Typed
  <2> QED BY <2>1 DEF Typed, TypeOK, Values, Rooms, TabStates
<1> QED BY <1>1, RoomInvariant, PTL

\* However many joins load the room at the same time, and whenever the process ends: the
\* room in memory is never replaced by an older one.
THEOREM NoChangeIsUndone == Spec => MemoryIsNotUndone
<1>1. RoomInv /\ [Next]_vars => [mem # None /\ mem' # None => mem'.ver >= mem.ver]_vars
  <2> SUFFICES ASSUME Typed, [Next]_vars, mem # None, mem' # None PROVE mem'.ver >= mem.ver
    BY DEF RoomInv
  <2>1. mem.ver \in Nat
    BY Versions
  <2> QED BY <2>1, MemorySteps DEF MemoryStep
<1> QED BY <1>1, RoomInvariant, PTL DEF Spec, MemoryIsNotUndone

\* As long as no Redis operation fails: what Redis holds, what is queued for it and the
\* room in memory are in the order in which they came to be.
THEOREM SavedInOrder == Spec => []WritesInOrder
<1>1. RoomInv => WritesInOrder
  BY DEF RoomInv
<1> QED BY <1>1, RoomInvariant, PTL

\* A room that was exited is gone from Redis when the exit is done: no write that was
\* queued or delayed brings its snapshot back.
THEOREM ExitIsFinal == Spec => []ExitedRoomIsForgotten
<1>1. RoomInv => ExitedRoomIsForgotten
  <2> SUFFICES ASSUME Forgetting, clean, exited, mem = None, queue = <<>>,
                      \A i \in Slots : handlers[i] = Idle
               PROVE  saved = None
    BY DEF RoomInv, ExitedRoomIsForgotten
  <2>1. \A i \in Slots : handlers[i].at # "exit"
    BY NewHandlerTyped
  <2> QED BY <2>1 DEF Forgetting, LastDeletes
<1> QED BY <1>1, RoomInvariant, PTL

-------------------------------------------------------------------------------
(* The tokens: hashes.                                                     *)

\* Every step leaves the hashes in a set, if it leaves the one in memory there.
LEMMA HashesStay ==
  ASSUME Typed, ChangesHeld, ExitsAreKnown, [Next]_vars, Live', NEW S, HashesIn(S),
         mem' # None => mem'.hash \in S
  PROVE  HashesIn(S)'
<1>1. Kept \/ Grown \/ Landed \/ Stopped
  BY RoomSteps
<1>2. /\ mem # None => mem.hash \in S
      /\ saved # None => saved.hash \in S
      /\ \A k \in 1..Len(queue) : queue[k].value # None => queue[k].value.hash \in S
  BY DEF HashesIn
<1> SUFFICES /\ saved' # None => saved'.hash \in S
             /\ \A k \in 1..Len(queue') : queue'[k].value # None => queue'[k].value.hash \in S
  BY DEF HashesIn
<1>3. ASSUME SameValues
      PROVE  \A k \in 1..Len(queue') : queue'[k].value # None => queue'[k].value.hash \in S
  BY <1>2, <1>3 DEF SameValues
<1>4. CASE Kept
  BY <1>2, <1>3, <1>4 DEF Kept
<1>5. CASE Grown
  <2>1. ASSUME NEW who \in SUBSET Slots, queue' = Enqueued(Snapshot(mem'), who)
        PROVE  \A k \in 1..Len(queue') : queue'[k].value # None => queue'[k].value.hash \in S
    <3> DEFINE snap == Snapshot(mem')
    <3>1. snap \in Values /\ snap.hash = mem'.hash /\ mem' # None
      BY <1>5, RoomTyped DEF Values, Grown
    <3>2. queue' = Enqueued(snap, who)
      BY <2>1
    <3> HIDE DEF snap
    <3>3. /\ Len(queue') = Len(queue) + 1 /\ Len(queue) \in Nat
          /\ \A k \in 1..Len(queue) : queue'[k] = queue[k]
          /\ queue'[Len(queue) + 1].value = snap
      BY <3>1, <3>2, QueueLonger DEF Typed
    <3>4. \A k \in 1..Len(queue') : k \in 1..Len(queue) \/ k = Len(queue) + 1
      BY <3>3
    <3> QED BY <1>2, <3>1, <3>3, <3>4
  <2> QED BY <1>2, <1>3, <1>5, <2>1 DEF Grown
<1>6. CASE Landed
  <2>1. /\ \A k \in 1..Len(queue') : k + 1 \in 1..Len(queue) /\ queue'[k] = queue[k + 1]
        /\ saved' = queue[1].value /\ 1 \in 1..Len(queue)
    BY <1>6, QueueShorter DEF Landed, Typed
  <2> QED BY <1>2, <2>1
<1>7. CASE Stopped
  BY <1>2, <1>7 DEF Stopped
<1> QED BY <1>1, <1>4, <1>5, <1>6, <1>7

\* The token a seat answers to after a join: one of the record, and the new one if the
\* seat answered to the new one before.
LEMMA SeatProven ==
  ASSUME RecordIsNewest, drawn \in Nat, record \in Pair \cup {NoRecord},
         NEW p \in Pair, p.current >= 1, p.pending = p.current + 1, p.pending <= drawn,
         NEW hash \in Proven, hash = NoHash \/ Authorized(hash, p)
  PROVE  /\ p.pending \in Proven /\ record # NoRecord
         /\ hash = record.pending => p.pending = record.pending
<1>1. p.current \in Nat /\ p.pending \in Nat
  BY DEF Pair
<1>2. record # NoRecord /\ drawn >= 2 /\ record.current = drawn - 1 /\ record.pending = drawn
  <2>1. record = NoRecord => drawn = 0
    BY DEF RecordIsNewest
  <2> QED BY <1>1, <2>1 DEF RecordIsNewest
<1>3. NoHash \notin Nat
  BY NothingAssumption
<1>4. CASE hash = NoHash
  <2>1. drawn <= 2
    BY <1>2, <1>3, <1>4 DEF Proven
  <2>2. p.pending = record.pending
    BY <1>1, <1>2, <2>1
  <2> QED BY <1>2, <2>2 DEF Proven
<1>5. CASE hash \in {p.current, p.pending}
  <2>1. hash \in {record.current, record.pending}
    BY <1>1, <1>2, <1>3, <1>5 DEF Proven
  <2>2. p.pending \in {record.current, record.pending} /\ (hash = record.pending => p.pending = record.pending)
    BY <1>1, <1>2, <1>5, <2>1
  <2> QED BY <1>2, <2>2 DEF Proven
<1> QED BY <1>4, <1>5 DEF Authorized

\* What a step does to the token the seat answers to.
HashFollows ==
  mem' # None =>
    /\ mem' \in Rooms /\ mem'.hash \in Proven
    /\ mem # None /\ mem.hash = record.pending => mem'.hash = record.pending
    /\ mem = None => /\ saved # None
                     /\ saved.hash = record.pending => mem'.hash = record.pending

\* A step that keeps the token hash of the room keeps the hash that is proved.
LEMMA SameHash ==
  ASSUME HashesIn(Proven),
         mem' # None => mem' \in Rooms /\ mem # None /\ mem'.hash = mem.hash
  PROVE  HashFollows
BY DEF HashFollows, HashesIn

\* An accepted join puts the hash of its pending token into the room.
LEMMA JoinHash ==
  ASSUME RecordIsNewest, HashesIn(Proven), Typed, NEW i \in Slots, NEW h \in Handlers,
         NEW room \in Rooms, Accepts(room, h.pair), GiveSeat(i, h, room),
         h.pair.current >= 1, h.pair.pending = h.pair.current + 1, h.pair.pending <= drawn,
         \/ room = mem
         \/ mem = None /\ saved # None /\ room.hash = saved.hash
  PROVE  HashFollows /\ mem' \in Rooms /\ mem'.hash = h.pair.pending /\ record # NoRecord
<1>1. h.pair \in Pair /\ room # None
  BY HandlerTyped, RoomTyped
<1>2. StoreTyped /\ handlers \in [Slots -> Handlers]
  BY TypedParts DEF RestTyped
<1>3. mem' \in Rooms /\ mem'.hash = h.pair.pending
  BY <1>2, SeatGiven
<1>4. room.hash \in Proven /\ (room.hash = NoHash \/ Authorized(room.hash, h.pair))
  BY <1>1 DEF HashesIn, Accepts
<1> DEFINE p == h.pair
           hash == room.hash
<1>5. /\ p \in Pair /\ p.current >= 1 /\ p.pending = p.current + 1 /\ p.pending <= drawn
      /\ hash \in Proven /\ (hash = NoHash \/ Authorized(hash, p))
      /\ drawn \in Nat /\ record \in Pair \cup {NoRecord}
  BY <1>1, <1>4 DEF Typed
<1> HIDE DEF p, hash
<1>6. p.pending \in Proven /\ record # NoRecord /\ (hash = record.pending => p.pending = record.pending)
  BY <1>5, SeatProven
<1> USE DEF p, hash
<1>7. mem'.hash \in Proven /\ (room.hash = record.pending => mem'.hash = record.pending)
  BY <1>3, <1>6
<1> HIDE DEF p, hash
<1>8. CASE room = mem
  BY <1>1, <1>3, <1>6, <1>7, <1>8 DEF HashFollows
<1>9. CASE mem = None /\ saved # None /\ room.hash = saved.hash
  BY <1>1, <1>3, <1>6, <1>7, <1>9 DEF HashFollows
<1> QED BY <1>8, <1>9

\* When the hash of the room is proved by the record, so are those in Redis and in the
\* queue.
LEMMA HashesKept ==
  ASSUME Typed, ChangesHeld, ExitsAreKnown, [Next]_vars, Live', HashesIn(Proven), HashFollows,
         UNCHANGED <<record, drawn>>
  PROVE  /\ HashesIn(Proven)'
         /\ HashesIn({record.pending}) => HashesIn({record.pending})'
<1>1. mem' # None => mem'.hash \in Proven
  BY DEF HashFollows
<1> DEFINE S == Proven
<1>2. S' = S
  BY DEF Proven
<1>3. HashesIn(S)'
  <2>1. \A X : (HashesIn(X) /\ (mem' # None => mem'.hash \in X)) =>
          /\ mem' # None => mem'.hash \in X
          /\ saved' # None => saved'.hash \in X
          /\ \A k \in 1..Len(queue') : queue'[k].value # None => queue'[k].value.hash \in X
    BY HashesStay DEF HashesIn
  <2> QED BY <1>1, <1>2, <2>1 DEF HashesIn
<1>4. ASSUME HashesIn({record.pending})
      PROVE  HashesIn({record.pending})'
  <2>1. mem' # None => mem'.hash \in {record.pending}
    BY <1>4 DEF HashesIn, HashFollows
  <2> DEFINE X == {record.pending}
  <2>2. /\ mem' # None => mem'.hash \in X
        /\ saved' # None => saved'.hash \in X
        /\ \A k \in 1..Len(queue') : queue'[k].value # None => queue'[k].value.hash \in X
    BY <1>4, <2>1, HashesStay DEF HashesIn
  <2> QED BY <2>2 DEF HashesIn
<1> QED BY <1>3, <1>4

-------------------------------------------------------------------------------
(* The tokens: joins and their answers.                                    *)

Requests == {"wait", "sent", "served", "ok"}
\* A join that goes on, or was given up.
JoinGoesOn(k) ==
  handlers'[k].at \in JoinStates =>
    /\ handlers[k].at \in JoinStates
    /\ handlers'[k].tab = handlers[k].tab /\ handlers'[k].pair = handlers[k].pair
    /\ handlers'[k].evict = handlers[k].evict
    /\ handlers'[k].wanted => handlers[k].wanted
\* A request that goes on, or has ended.
RequestGoesOn(t) ==
  tab'[t].req \in Requests => tab[t].req \in Requests /\ tab'[t].pair = tab[t].pair

\* Steps that move joins only forward keep what requests and handlers carry.
LEMMA JoinsGoOn ==
  ASSUME JoinsCarryPairs, RequestsCarryRecord, AwaitedCarriesRecord, RecordIsNewest,
         UNCHANGED <<record, drawn>>,
         \A k \in Slots : JoinGoesOn(k), \A t \in Tabs : RequestGoesOn(t),
         \A k \in Slots : Awaited(k)' => tab'[handlers'[k].tab].req = "served"
  PROVE  /\ JoinsCarryPairs' /\ RequestsCarryRecord' /\ AwaitedCarriesRecord' /\ RecordIsNewest'
<1>1. JoinsCarryPairs'
  BY DEF JoinsCarryPairs, JoinGoesOn
<1>2. RequestsCarryRecord'
  BY DEF RequestsCarryRecord, RequestGoesOn, Requests
<1>3. \A k \in Slots : Awaited(k)' => Awaited(k)
  BY DEF Awaited, JoinGoesOn
<1>4. AwaitedCarriesRecord'
  BY <1>3 DEF AwaitedCarriesRecord, Awaited, JoinGoesOn
<1>5. RecordIsNewest'
  BY DEF RecordIsNewest
<1> QED BY <1>1, <1>2, <1>4, <1>5

\* The write of a join that is awaited is followed by none with an older token.
LEMMA WriteStaysFollowed ==
  ASSUME Typed, NEW i \in Slots, WriteFollowed(i), UNCHANGED record,
         \/ UNCHANGED queue
         \/ mem' \in Rooms /\ mem'.hash = record.pending /\
            \E who \in SUBSET Slots : queue' = Enqueued(Snapshot(mem'), who)
         \/ \E x \in Slots : x # i /\ queue # <<>> /\ queue' = Behind(x)
  PROVE  WriteFollowed(i)'
<1>1. \A k \in 1..Len(queue) : i \in queue[k].wakes =>
        \A j \in k..Len(queue) : queue[j].value # None => queue[j].value.hash = record.pending
  BY DEF WriteFollowed
<1>l. Len(queue) \in Nat
  BY QueueTyped DEF Typed
<1>2. CASE UNCHANGED queue
  BY <1>1, <1>2 DEF WriteFollowed
<1>3. ASSUME mem' \in Rooms, mem'.hash = record.pending, NEW who \in SUBSET Slots,
             queue' = Enqueued(Snapshot(mem'), who)
      PROVE  WriteFollowed(i)'
  <2> DEFINE snap == Snapshot(mem')
  <2>1. snap \in Values /\ snap.hash = record.pending
    BY <1>3, RoomTyped DEF Values
  <2>2. queue' = Enqueued(snap, who)
    BY <1>3
  <2> HIDE DEF snap
  <2>3. /\ Len(queue') = Len(queue) + 1
        /\ \A k \in 1..Len(queue) : queue'[k] = queue[k]
        /\ queue'[Len(queue) + 1].value = snap
    BY <2>1, <2>2, QueueLonger DEF Typed
  <2>4. ASSUME NEW k \in 1..Len(queue'), i \in queue'[k].wakes, NEW j \in k..Len(queue'),
               queue'[j].value # None
        PROVE  queue'[j].value.hash = record.pending
    <3>1. CASE j = Len(queue) + 1
      BY <2>1, <2>3, <3>1
    <3>2. CASE j # Len(queue) + 1
      <4>1. j \in 1..Len(queue) /\ k \in 1..Len(queue) /\ j \in k..Len(queue)
        BY <1>l, <2>3, <3>2
      <4> QED BY <1>1, <2>3, <2>4, <4>1
    <3> QED BY <3>1, <3>2
  <2> QED BY <2>4 DEF WriteFollowed
<1>4. ASSUME NEW x \in Slots, x # i, queue # <<>>, queue' = Behind(x)
      PROVE  WriteFollowed(i)'
  <2>1. /\ Len(queue') = Len(queue)
        /\ \A k \in 1..Len(queue) : queue'[k].value = queue[k].value
        /\ \A k \in 1..(Len(queue) - 1) : queue'[k].wakes = queue[k].wakes
        /\ queue'[Len(queue)].wakes = queue[Len(queue)].wakes \cup {x}
    BY <1>4, QueueJoined DEF Typed, SameValues
  <2>2. ASSUME NEW k \in 1..Len(queue'), i \in queue'[k].wakes, NEW j \in k..Len(queue'),
               queue'[j].value # None
        PROVE  queue'[j].value.hash = record.pending
    <3>1. i \in queue[k].wakes
      <4>1. CASE k = Len(queue)
        BY <1>4, <2>1, <2>2, <4>1
      <4>2. CASE k # Len(queue)
        <5>1. k \in 1..(Len(queue) - 1)
          BY <1>l, <2>1, <4>2
        <5> QED BY <2>1, <2>2, <5>1
      <4> QED BY <4>1, <4>2
    <3>2. j \in 1..Len(queue) /\ j \in k..Len(queue) /\ k \in 1..Len(queue)
      BY <1>l, <2>1
    <3> QED BY <1>1, <2>1, <2>2, <3>1, <3>2
  <2> QED BY <2>2 DEF WriteFollowed
<1> QED BY <1>2, <1>3, <1>4

\* A handler that waits for nothing is woken by nothing.
LEMMA NothingFollows ==
  ASSUME WakesWaiting, NEW i \in Slots, handlers[i].at \notin Waiting
  PROVE  WriteFollowed(i)
BY DEF WakesWaiting, Waiting, WriteFollowed

\* What is written, and for whom, while nothing ends.
QueueGoesOn ==
  \/ UNCHANGED queue
  \/ mem' \in Rooms /\ \E who \in SUBSET Slots : queue' = Enqueued(Snapshot(mem'), who)
  \/ \E x \in Slots : handlers'[x].at = "queue" /\ queue # <<>> /\ queue' = Behind(x)

\* Steps that give no new answer keep that answers confirm the record.
LEMMA AnswersKept ==
  ASSUME Typed, ChangesHeld, ExitsAreKnown, WakesWaiting, [Next]_vars, Live', HashesIn(Proven),
         HashFollows, UNCHANGED <<record, drawn>>, AnswersConfirm, QueueGoesOn,
         mem' = None => mem = None,
         \A t \in Tabs : tab'[t].req = "ok" => tab[t].req = "ok" \/ HashesIn({record.pending}),
         \A k \in Slots : Awaited(k)' /\ handlers'[k].at = "written" =>
           Awaited(k) /\ handlers[k].at = "written",
         \A k \in Slots : Awaited(k)' /\ handlers'[k].at = "write" =>
           \/ Awaited(k) /\ handlers[k].at = "write"
           \/ handlers[k].at \notin Waiting /\ mem' \in Rooms /\ mem'.hash = record.pending
  PROVE  AnswersConfirm'
<1>1. HashesIn({record.pending}) => HashesIn({record.pending})'
  BY HashesKept
<1>2. \A t \in Tabs : tab'[t].req = "ok" => HashesIn({record.pending})'
  BY <1>1 DEF AnswersConfirm
<1>3. \A k \in Slots : Awaited(k)' /\ handlers'[k].at = "written" => HashesIn({record.pending})'
  BY <1>1 DEF AnswersConfirm
<1>4. ASSUME NEW k \in Slots, Awaited(k)', handlers'[k].at = "write"
      PROVE  mem' # None /\ mem'.hash = record'.pending /\ WriteFollowed(k)'
  <2>1. WriteFollowed(k) /\ mem' \in Rooms /\ mem'.hash = record.pending
    <3>1. CASE Awaited(k) /\ handlers[k].at = "write"
      <4>1. mem # None /\ mem.hash = record.pending /\ WriteFollowed(k)
        BY <3>1 DEF AnswersConfirm
      <4> QED BY <4>1 DEF HashFollows
    <3>2. CASE handlers[k].at \notin Waiting /\ mem' \in Rooms /\ mem'.hash = record.pending
      BY <3>2, NothingFollows
    <3> QED BY <1>4, <3>1, <3>2
  <2>2. mem' # None
    BY <2>1, RoomTyped
  <2>3. WriteFollowed(k)'
    BY <1>4, <2>1, WriteStaysFollowed DEF QueueGoesOn
  <2> QED BY <2>1, <2>2, <2>3
<1> QED BY <1>2, <1>3, <1>4 DEF AnswersConfirm

\* Steps after which every join and every request is what it was, or was given up.
LEMMA CalmTokens ==
  ASSUME RoomInv, Tokens, [Next]_vars, Live', UNCHANGED <<record, drawn>>, HashFollows, QueueGoesOn,
         mem' = None => mem = None,
         \A k \in Slots : JoinGoesOn(k), \A t \in Tabs : RequestGoesOn(t),
         \A k \in Slots : Awaited(k)' => tab'[handlers'[k].tab].req = "served",
         \A t \in Tabs : tab'[t].req = "ok" => tab[t].req = "ok" \/ HashesIn({record.pending}),
         \A k \in Slots : Awaited(k)' /\ handlers'[k].at = "written" =>
           Awaited(k) /\ handlers[k].at = "written",
         \A k \in Slots : Awaited(k)' /\ handlers'[k].at = "write" =>
           \/ Awaited(k) /\ handlers[k].at = "write"
           \/ handlers[k].at \notin Waiting /\ mem' \in Rooms /\ mem'.hash = record.pending
  PROVE  Tokens'
<1>1. JoinsCarryPairs' /\ RequestsCarryRecord' /\ AwaitedCarriesRecord' /\ RecordIsNewest'
  BY JoinsGoOn DEF Tokens
<1>2. HashesIn(Proven)'
  BY HashesKept DEF Tokens, RoomInv
<1>3. AnswersConfirm'
  BY AnswersKept DEF Tokens, RoomInv
<1> QED BY <1>1, <1>2, <1>3 DEF Tokens

\* Steps of others.
LEMMA StillTokens ==
  ASSUME RoomInv, Tokens, [Next]_vars, Live', UNCHANGED <<record, drawn, tab>>, HashFollows, QueueGoesOn,
         mem' = None => mem = None,
         \A k \in Slots : handlers'[k] = handlers[k] \/ handlers'[k].at \notin JoinStates
  PROVE  Tokens'
<1>1. \A k \in Slots : JoinGoesOn(k)
  BY DEF JoinGoesOn
<1>2. \A t \in Tabs : RequestGoesOn(t)
  BY DEF RequestGoesOn
<1>3. \A k \in Slots : Awaited(k)' => Awaited(k) /\ handlers'[k] = handlers[k]
  BY DEF Awaited
<1>4. \A k \in Slots : Awaited(k)' => tab'[handlers'[k].tab].req = "served"
  BY <1>3 DEF Tokens, AwaitedCarriesRecord
<1> QED BY <1>1, <1>2, <1>3, <1>4, CalmTokens

\* The steps of others keep the tokens.
LEMMA OthersTokens ==
  ASSUME RoomInv, Tokens, [Next]_vars, Live',
         Change \/ (\E i \in Slots : ChangeSlowly(i) \/ WriteChange(i)) \/ UNCHANGED vars
  PROVE  Tokens'
<1>t. Typed /\ ChangesHeld /\ HashesIn(Proven) /\ {} \in SUBSET Slots
  BY DEF RoomInv, Tokens
<1>i. "idle" \notin JoinStates /\ "revoke" \notin JoinStates
  BY DEF JoinStates
<1>1. CASE Change
  <2>1. mem \in Rooms /\ mem' = Changed(mem) /\ queue' = Enqueued(Snapshot(mem'), {})
    BY <1>1, <1>t, ChangeTyped
  <2>2. mem' \in Rooms /\ mem'.hash = mem.hash /\ mem # None
    BY <2>1, RoomTyped
  <2>3. HashFollows /\ QueueGoesOn
    BY <1>t, <2>1, <2>2, SameHash DEF QueueGoesOn
  <2>4. UNCHANGED <<record, drawn, tab, handlers>>
    BY <1>1 DEF Change, browser
  <2>5. mem' # None
    BY <2>2, RoomTyped
  <2> QED BY <2>3, <2>4, <2>5, StillTokens
<1>2. ASSUME NEW i \in Slots, ChangeSlowly(i)
      PROVE  Tokens'
  <2>1. mem \in Rooms /\ mem' = Changed(mem) /\ UNCHANGED queue
    BY <1>2, <1>t DEF ChangeSlowly, Typed, pvars
  <2>2. mem' \in Rooms /\ mem'.hash = mem.hash /\ mem # None
    BY <2>1, RoomTyped
  <2>3. HashFollows /\ QueueGoesOn
    BY <1>t, <2>1, <2>2, SameHash DEF QueueGoesOn
  <2>4. UNCHANGED <<record, drawn, tab>>
    BY <1>2 DEF ChangeSlowly, browser
  <2>5. mem' # None
    BY <2>2, RoomTyped
  <2>6. \A k \in Slots : handlers'[k] = handlers[k] \/ handlers'[k].at \notin JoinStates
    BY <1>2, <1>i, <1>t, SlowHandlers
  <2> QED BY <2>3, <2>4, <2>5, <2>6, StillTokens
<1>3. ASSUME NEW i \in Slots, WriteChange(i)
      PROVE  Tokens'
  <2>1. PICK room \in Rooms : queue' = Enqueued(Snapshot(room), {}) /\ (clean' => mem = room)
    BY <1>3, <1>t, WriteChangeTyped
  <2>2. UNCHANGED <<mem, record, drawn, tab>> /\ handlers' = [handlers EXCEPT ![i] = Idle]
    BY <1>3 DEF WriteChange, browser
  <2>3. mem = room
    BY <2>1 DEF Live
  <2>4. mem' \in Rooms /\ mem' # None /\ queue' = Enqueued(Snapshot(mem'), {})
    BY <2>1, <2>2, <2>3, RoomTyped
  <2>5. HashFollows /\ QueueGoesOn
    BY <1>t, <2>2, <2>4, SameHash DEF QueueGoesOn
  <2>6. \A k \in Slots : handlers'[k] = handlers[k] \/ handlers'[k].at \notin JoinStates
    BY <1>i, <1>t, <2>2, NewHandlerTyped DEF Typed
  <2> QED BY <2>2, <2>4, <2>5, <2>6, StillTokens
<1>4. CASE UNCHANGED vars
  <2>1. UNCHANGED <<record, drawn, tab, handlers, mem, queue>>
    BY <1>4 DEF vars, pvars, browser
  <2>2. HashFollows /\ QueueGoesOn
    BY <1>t, <2>1, SameHash DEF QueueGoesOn, Typed
  <2> QED BY <2>1, <2>2, StillTokens
<1> QED BY <1>1, <1>2, <1>3, <1>4

\* A connection breaks, or an answer is not awaited any longer: no join is.
LEMMA GivenUpTokens ==
  ASSUME NEW t \in Tabs, Tabs = {t}, RoomInv, Tokens, [Next]_vars, Live',
         TimeOut(t) \/ \E reload \in BOOLEAN : Drop(t, reload)
  PROVE  Tokens'
<1>t. Typed /\ ChangesHeld /\ HashesIn(Proven) /\ {} \in SUBSET Slots /\ handlers \in [Slots -> Handlers]
      /\ tab[t] \in TabStates /\ tab \in [Tabs -> TabStates]
  BY DEF RoomInv, Tokens, Typed
<1>1. UNCHANGED <<record, drawn>>
  BY DEF TimeOut, Drop
<1>2. \/ UNCHANGED <<mem, queue>>
      \/ /\ mem \in Rooms /\ mem' \in Rooms /\ mem'.hash = mem.hash
         /\ queue' = Enqueued(Snapshot(mem'), {})
  <2>1. CASE TimeOut(t)
    BY <2>1, BrowserSteps
  <2>2. ASSUME NEW reload \in BOOLEAN, Drop(t, reload)
        PROVE  \/ UNCHANGED <<mem, queue>>
               \/ /\ mem \in Rooms /\ mem' \in Rooms /\ mem'.hash = mem.hash
                  /\ queue' = Enqueued(Snapshot(mem'), {})
    BY <1>t, <2>2, DropRoom
  <2> QED BY <2>1, <2>2
<1>3. HashFollows /\ QueueGoesOn /\ (mem' = None => mem = None)
  <2>1. CASE UNCHANGED <<mem, queue>>
    <3>1. mem' # None => mem' \in Rooms /\ mem # None /\ mem'.hash = mem.hash
      BY <1>t, <2>1 DEF Typed
    <3> QED BY <1>t, <2>1, <3>1, SameHash DEF QueueGoesOn
  <2>2. CASE /\ mem \in Rooms /\ mem' \in Rooms /\ mem'.hash = mem.hash
             /\ queue' = Enqueued(Snapshot(mem'), {})
    BY <1>t, <2>2, RoomTyped, SameHash DEF QueueGoesOn
  <2> QED BY <1>2, <2>1, <2>2
<1>4. \A k \in Slots :
        /\ handlers[k].tab # t => handlers'[k] \in {handlers[k], Disconnected(handlers[k], t)}
        /\ handlers[k].tab = t => \/ handlers'[k] = [handlers[k] EXCEPT !.wanted = FALSE]
                                  \/ handlers'[k] = [Disconnected(handlers[k], t) EXCEPT !.wanted = FALSE]
  <2>1. CASE TimeOut(t)
    BY <2>1 DEF TimeOut
  <2>2. ASSUME NEW reload \in BOOLEAN, Drop(t, reload), NEW k \in Slots
        PROVE  /\ handlers[k].tab # t => handlers'[k] = Disconnected(handlers[k], t)
               /\ handlers[k].tab = t => handlers'[k] = [Disconnected(handlers[k], t) EXCEPT !.wanted = FALSE]
    <3>1. Disconnected(handlers[k], t).tab = handlers[k].tab
      BY <1>t, DisconnectedTyped
    <3>2. handlers'[k] = LET h == Disconnected(handlers[k], t) IN
                           IF h.tab = t THEN [h EXCEPT !.wanted = FALSE] ELSE h
      BY <2>2 DEF Drop
    <3> QED BY <3>1, <3>2
  <2> QED BY <2>1, <2>2
<1>5. \A h \in Handlers :
        LET u == [h EXCEPT !.wanted = FALSE]
            d == [Disconnected(h, t) EXCEPT !.wanted = FALSE]
        IN  /\ u.at = h.at /\ u.tab = h.tab /\ u.pair = h.pair /\ u.evict = h.evict /\ u.wanted = FALSE
            /\ d.at = h.at /\ d.tab = h.tab /\ d.pair = h.pair /\ d.evict \in {h.evict, Nobody}
            /\ d.wanted = FALSE
  <2>1. \A h \in Handlers :
          LET u == [h EXCEPT !.wanted = FALSE]
          IN  u.at = h.at /\ u.tab = h.tab /\ u.pair = h.pair /\ u.evict = h.evict /\ u.wanted = FALSE
    BY DEF Handlers
  <2> QED BY <2>1, DisconnectedTyped
<1>6. ASSUME NEW k \in Slots
      PROVE  JoinGoesOn(k) /\ ~Awaited(k)'
  <2>1. handlers[k] \in Handlers
    BY <1>t
  <2>2. handlers[k].at \in JoinStates => handlers[k].tab = t /\ handlers[k].evict = Nobody
    BY DEF Tokens, JoinsCarryPairs
  <2>3. CASE handlers[k].tab = t
    BY <1>4, <1>5, <2>1, <2>2, <2>3 DEF JoinGoesOn, Awaited
  <2>4. CASE handlers[k].tab # t
    <3>1. handlers'[k].at = handlers[k].at
      BY <1>4, <2>1, <2>4, DisconnectedTyped
    <3> QED BY <2>2, <2>4, <3>1 DEF JoinGoesOn, Awaited
  <2> QED BY <2>3, <2>4
<1>7. tab'[t].req \in Requests => tab'[t].req = "wait" /\ tab[t].req = "wait" /\ tab'[t].pair = tab[t].pair
  <2>1. CASE TimeOut(t)
    <3> DEFINE stopped == [tab[t] EXCEPT !.req = "none", !.asked = FALSE]
    <3>1. stopped \in TabStates /\ stopped.req = "none"
      BY <1>t DEF TabStates
    <3>2. tab' = [tab EXCEPT ![t] = ScheduleRejoin(stopped)]
      BY <2>1 DEF TimeOut
    <3> HIDE DEF stopped
    <3>3. ScheduleRejoin(stopped).req = "none"
      BY <3>1 DEF ScheduleRejoin, TabStates
    <3> QED BY <1>t, <3>2, <3>3 DEF Requests
  <2>2. ASSUME NEW reload \in BOOLEAN, Drop(t, reload)
        PROVE  tab'[t].req \in Requests => tab'[t].req = "wait" /\ tab[t].req = "wait" /\ tab'[t].pair = tab[t].pair
    <3>1. tab' = [tab EXCEPT ![t] = IF reload THEN Quiet ELSE Offline(tab[t])]
      BY <2>2 DEF Drop
    <3>2. Quiet.req = "none"
      BY DEF Quiet
    <3>3. Offline(tab[t]).req \in Requests => Offline(tab[t]).req = "wait" /\ tab[t].req = "wait"
                                              /\ Offline(tab[t]).pair = tab[t].pair
      BY <1>t DEF Offline, TabStates, Requests
    <3> QED BY <1>t, <3>1, <3>2, <3>3 DEF Requests
  <2> QED BY <2>1, <2>2
<1>8. \A u \in Tabs : RequestGoesOn(u) /\ tab'[u].req # "ok"
  BY <1>7 DEF RequestGoesOn, Requests
<1> QED BY <1>1, <1>3, <1>6, <1>8, CalmTokens

\* The tab asks for its seat, with the record or with the first two tokens.
LEMMA AskingTokens ==
  ASSUME NEW t \in Tabs, Tabs = {t}, RoomInv, Tokens, [Next]_vars, Live', NEW s \in TabStates,
         PerformJoin(t, s), tab[t].req = "none",
         UNCHANGED <<saved, queue, mem, handlers>>
  PROVE  Tokens'
<1>t. /\ RestTyped /\ record \in Pair \cup {NoRecord} /\ drawn \in Nat /\ NoRecord \notin Pair
      /\ tab \in [Tabs -> TabStates]
  BY TypedParts, NothingAssumption DEF RoomInv, RestTyped
<1>1. ASSUME NEW k \in Slots
      PROVE  ~Awaited(k)
  <2>1. Awaited(k) => tab[handlers[k].tab].req = "served" /\ handlers[k].tab = t
    BY DEF Awaited, Tokens, AwaitedCarriesRecord, JoinsCarryPairs
  <2> QED BY <2>1
<1>2. /\ record' = Prepared(record, drawn) /\ drawn' = drawn + DrawnToPrepare(record)
      /\ \E r \in {"sent", "wait"} : tab' = [tab EXCEPT ![t] = [s EXCEPT !.pair = record', !.req = r]]
  BY <1>t, JoinPerformed
<1>3. tab'[t].req \in {"sent", "wait"} /\ tab'[t].pair = record'
  BY <1>t, <1>2 DEF TabStates
<1>4. \/ record = NoRecord /\ drawn = 0 /\ record' = [current |-> 1, pending |-> 2] /\ drawn' = 2
      \/ record # NoRecord /\ record' = record /\ drawn' = drawn
  BY <1>t, <1>2 DEF Prepared, DrawnToPrepare, Tokens, RecordIsNewest
<1>5. record' # NoRecord /\ RecordIsNewest'
  <2>1. CASE record = NoRecord
    <3>1. record' \in Pair /\ record'.current = 1 /\ record'.pending = 2 /\ drawn' = 2
      BY <1>4, <2>1 DEF Pair
    <3> QED BY <1>t, <3>1 DEF RecordIsNewest
  <2>2. CASE record # NoRecord
    BY <1>4, <2>2 DEF Tokens, RecordIsNewest
  <2> QED BY <2>1, <2>2
<1>6. \A x \in Proven : x \in Proven'
  <2>1. CASE record = NoRecord
    BY <1>4, <2>1 DEF Proven
  <2>2. CASE record # NoRecord
    BY <1>4, <2>2 DEF Proven
  <2> QED BY <2>1, <2>2
<1>7. HashesIn(Proven)'
  <2>1. HashesIn(Proven)
    BY DEF Tokens
  <2>2. HashesIn(Proven')
    BY <1>6, <2>1 DEF HashesIn
  <2> QED BY <2>2 DEF HashesIn
<1>8. JoinsCarryPairs'
  <2>1. drawn' >= drawn /\ drawn' \in Nat
    BY <1>t, <1>4
  <2>2. ASSUME NEW k \in Slots, handlers[k].at \in JoinStates
        PROVE  handlers[k].pair.pending <= drawn'
    <3>1. handlers[k].pair \in Pair /\ handlers[k].pair.pending <= drawn
      BY <2>2, HandlerTyped DEF Tokens, JoinsCarryPairs, RoomInv, Typed
    <3> QED BY <1>t, <2>1, <3>1 DEF Pair
  <2> QED BY <2>2 DEF Tokens, JoinsCarryPairs
<1>9. RequestsCarryRecord'
  BY <1>3, <1>5 DEF RequestsCarryRecord
<1>10. \A k \in Slots : ~Awaited(k)'
  BY <1>1 DEF Awaited
<1>11. AwaitedCarriesRecord' /\ AnswersConfirm'
  BY <1>3, <1>10 DEF AwaitedCarriesRecord, AnswersConfirm
<1> QED BY <1>5, <1>7, <1>8, <1>9, <1>11 DEF Tokens

\* The tab changes something else, or what it waited for ends.
LEMMA BrowsingTokens ==
  ASSUME NEW t \in Tabs, Tabs = {t}, RoomInv, Tokens, [Next]_vars, Live',
         UNCHANGED <<saved, queue, mem, handlers, record, drawn>>,
         NEW s \in TabStates, tab' = [tab EXCEPT ![t] = s],
         s.req \in Requests => s.pair = tab[t].pair /\ tab[t].req \in Requests,
         s.req = "ok" => tab[t].req = "ok",
         tab[t].req = "served" => s.req = "served"
  PROVE  Tokens'
<1>t. Typed /\ HashesIn(Proven) /\ tab \in [Tabs -> TabStates]
  BY DEF RoomInv, Tokens, Typed
<1>1. HashFollows /\ QueueGoesOn
  <2>1. mem' # None => mem' \in Rooms /\ mem # None /\ mem'.hash = mem.hash
    BY <1>t DEF Typed
  <2> QED BY <1>t, <2>1, SameHash DEF QueueGoesOn
<1>2. tab'[t] = s
  BY <1>t
<1>3. \A u \in Tabs : RequestGoesOn(u)
  BY <1>2 DEF RequestGoesOn
<1>4. \A k \in Slots : JoinGoesOn(k) /\ (Awaited(k)' => Awaited(k))
  BY DEF JoinGoesOn, Awaited
<1>5. \A k \in Slots : Awaited(k)' => tab'[handlers'[k].tab].req = "served"
  <2> SUFFICES ASSUME NEW k \in Slots, Awaited(k)
               PROVE  tab'[handlers[k].tab].req = "served"
    BY <1>4
  <2>1. tab[handlers[k].tab].req = "served" /\ handlers[k].tab = t
    BY DEF Awaited, Tokens, AwaitedCarriesRecord, JoinsCarryPairs
  <2> QED BY <1>2, <2>1
<1> QED BY <1>1, <1>2, <1>3, <1>4, <1>5, CalmTokens

\* The answer that the seat is the tab's: the record goes on by one token.
LEMMA ConfirmedTokens ==
  ASSUME NEW t \in Tabs, Tabs = {t}, RoomInv, Tokens, AcceptReceived(t)
  PROVE  Tokens'
<1>t. /\ record \in Pair /\ record # NoRecord /\ drawn \in Nat /\ tab \in [Tabs -> TabStates]
      /\ drawn >= 2 /\ record.current = drawn - 1 /\ record.pending = drawn
  <2>1. tab[t].req = "ok"
    BY DEF AcceptReceived
  <2>2. record # NoRecord
    BY <2>1 DEF Tokens, RequestsCarryRecord
  <2> QED BY <2>2 DEF RoomInv, Typed, Tokens, RecordIsNewest
<1>1. /\ tab[t].req = "ok" /\ record' = Committed(record, drawn) /\ drawn' = drawn + 1
      /\ tab' = [tab EXCEPT ![t] = [tab[t] EXCEPT !.req = "none", !.member = TRUE, !.asked = FALSE]]
      /\ UNCHANGED <<saved, queue, mem, handlers>>
  BY DEF AcceptReceived, pvars
<1>2. record' \in Pair /\ record'.current = record.pending /\ record'.pending = drawn + 1
  BY <1>t, <1>1 DEF Committed, Pair
<1>3. record' # NoRecord /\ RecordIsNewest'
  BY <1>t, <1>1, <1>2, NothingAssumption DEF RecordIsNewest
<1>4. HashesIn(Proven)'
  <2>1. HashesIn({record.pending})
    BY <1>1 DEF Tokens, AnswersConfirm
  <2>2. record.pending \in Proven'
    BY <1>2, <1>3 DEF Proven
  <2>3. HashesIn(Proven')
    BY <2>1, <2>2 DEF HashesIn
  <2> QED BY <1>1, <2>3 DEF HashesIn
<1>5. JoinsCarryPairs'
  <2>1. ASSUME NEW k \in Slots, handlers[k].at \in JoinStates
        PROVE  handlers[k].pair.pending <= drawn + 1
    <3>1. handlers[k].pair \in Pair /\ handlers[k].pair.pending <= drawn
      BY <2>1, HandlerTyped DEF Tokens, JoinsCarryPairs, RoomInv, Typed
    <3> QED BY <1>t, <3>1 DEF Pair
  <2> QED BY <1>1, <2>1 DEF Tokens, JoinsCarryPairs
<1>6. tab'[t].req = "none"
  BY <1>t, <1>1 DEF TabStates
<1>7. ASSUME NEW k \in Slots
      PROVE  ~Awaited(k)'
  <2>1. Awaited(k) => tab[handlers[k].tab].req = "served" /\ handlers[k].tab = t
    BY DEF Awaited, Tokens, AwaitedCarriesRecord, JoinsCarryPairs
  <2> QED BY <1>1, <2>1 DEF Awaited
<1>8. RequestsCarryRecord' /\ AwaitedCarriesRecord' /\ AnswersConfirm'
  BY <1>6, <1>7 DEF RequestsCarryRecord, AwaitedCarriesRecord, AnswersConfirm
<1> QED BY <1>3, <1>4, <1>5, <1>8 DEF Tokens

\* The steps of the browser keep them.
LEMMA BrowserTokens ==
  ASSUME NEW t \in Tabs, Tabs = {t}, RoomInv, Tokens, [Next]_vars, Live',
         \/ JoinRoom(t) \/ Connect(t) \/ RejoinFires(t)
         \/ AcceptReceived(t) \/ RefusalReceived(t) \/ JoinRefused(t)
  PROVE  Tokens'
<1>t. tab \in [Tabs -> TabStates] /\ tab[t] \in TabStates
  BY DEF RoomInv, Typed
<1>u. UNCHANGED <<saved, queue, mem, handlers>>
  BY DEF JoinRoom, Connect, RejoinFires, AcceptReceived, RefusalReceived, JoinRefused, pvars
<1>1. CASE JoinRoom(t)
  <2> DEFINE asking == [tab[t] EXCEPT !.member = TRUE, !.asked = TRUE]
  <2>1. asking \in TabStates /\ asking.req = tab[t].req /\ asking.pair = tab[t].pair
    BY <1>t DEF TabStates
  <2>2. \/ tab[t].req = "none" /\ PerformJoin(t, asking)
        \/ tab' = [tab EXCEPT ![t] = asking] /\ UNCHANGED <<record, drawn>>
    BY <1>1 DEF JoinRoom
  <2> HIDE DEF asking
  <2> QED BY <1>u, <2>1, <2>2, AskingTokens, BrowsingTokens
<1>2. CASE RejoinFires(t)
  <2> DEFINE fired == [tab[t] EXCEPT !.timer = FALSE]
  <2>1. fired \in TabStates /\ fired.req = tab[t].req /\ fired.pair = tab[t].pair
    BY <1>t DEF TabStates
  <2>2. \/ tab[t].req = "none" /\ PerformJoin(t, fired)
        \/ tab' = [tab EXCEPT ![t] = fired] /\ UNCHANGED <<record, drawn>>
    BY <1>2 DEF RejoinFires
  <2> HIDE DEF fired
  <2> QED BY <1>u, <2>1, <2>2, AskingTokens, BrowsingTokens
<1>3. CASE Connect(t)
  <2> DEFINE online == [tab[t] EXCEPT !.net = TRUE]
             req == IF online.req = "wait" THEN "sent" ELSE online.req
             sent == [online EXCEPT !.req = req]
  <2>1. online \in TabStates /\ online.req = tab[t].req /\ online.pair = tab[t].pair
    BY <1>t DEF TabStates
  <2>2. \/ tab[t].req = "none" /\ PerformJoin(t, online)
        \/ tab' = [tab EXCEPT ![t] = sent] /\ UNCHANGED <<record, drawn>>
    BY <1>3 DEF Connect
  <2> HIDE DEF online
  <2>3. req \in Reqs
    BY <1>t, <2>1 DEF Reqs, TabStates
  <2>4. sent \in TabStates /\ sent.req = req /\ sent.pair = tab[t].pair
    BY <2>1, <2>3 DEF TabStates, Reqs
  <2>5. /\ req \in Requests => tab[t].req \in Requests
        /\ req = "ok" => tab[t].req = "ok"
        /\ tab[t].req = "served" => req = "served"
    BY <2>1 DEF Requests
  <2> HIDE DEF sent, req
  <2> QED BY <1>u, <2>1, <2>2, <2>4, <2>5, AskingTokens, BrowsingTokens
<1>4. CASE AcceptReceived(t)
  BY <1>4, ConfirmedTokens
<1>5. CASE RefusalReceived(t) \/ JoinRefused(t)
  <2> DEFINE ended == [tab[t] EXCEPT !.req = "none", !.asked = FALSE,
                         !.member = tab[t].member /\ ~tab[t].asked]
             refused == [tab[t] EXCEPT !.req = "no"]
  <2>1. /\ ended \in TabStates /\ ended.req = "none"
        /\ refused \in TabStates /\ refused.req = "no"
    BY <1>t DEF TabStates
  <2>2. \/ tab' = [tab EXCEPT ![t] = ended] /\ tab[t].req = "no"
        \/ tab' = [tab EXCEPT ![t] = refused] /\ tab[t].req = "sent"
    BY <1>5 DEF RefusalReceived, JoinRefused
  <2>3. UNCHANGED <<record, drawn>>
    BY <1>5 DEF RefusalReceived, JoinRefused
  <2> HIDE DEF ended, refused
  <2> QED BY <1>u, <2>1, <2>2, <2>3, BrowsingTokens DEF Requests
<1> QED BY <1>1, <1>2, <1>3, <1>4, <1>5

\* With one tab, a join that gets the seat sends no other tab away.
LEMMA SeatTaken ==
  ASSUME NEW t \in Tabs, Tabs = {t}, Typed, NEW i \in Slots, NEW h \in Handlers, NEW room \in Rooms,
         h.tab = t, GiveSeat(i, h, room)
  PROVE  /\ handlers'[i].at = "write" /\ handlers'[i].tab = t /\ handlers'[i].pair = h.pair
         /\ handlers'[i].wanted = h.wanted /\ handlers'[i].evict = Nobody
         /\ \A k \in Slots : k # i => handlers'[k] = handlers[k]
<1>1. StoreTyped /\ handlers \in [Slots -> Handlers]
  BY TypedParts DEF RestTyped
<1>2. PICK e \in (Tabs \ {h.tab}) \cup {Nobody} :
        handlers' = [handlers EXCEPT ![i] = [h EXCEPT !.at = "write", !.evict = e]]
  BY <1>1, SeatGiven
<1>3. e = Nobody
  OBVIOUS
<1> DEFINE new == [h EXCEPT !.at = "write", !.evict = Nobody]
<1>4. handlers' = [handlers EXCEPT ![i] = new]
  BY <1>2, <1>3
<1>5. /\ new.at = "write" /\ new.tab = t /\ new.pair = h.pair /\ new.wanted = h.wanted
      /\ new.evict = Nobody
  BY DEF Handlers
<1> HIDE DEF new
<1> QED BY <1>1, <1>4, <1>5

\* A join comes in, with the record.
LEMMA JoinTokens ==
  ASSUME NEW t \in Tabs, Tabs = {t}, RoomInv, Tokens, [Next]_vars, Live',
         NEW i \in Slots, Join(i, t)
  PROVE  Tokens'
<1> DEFINE h == [Handler("get", t) EXCEPT !.pair = tab[t].pair]
<1>t. /\ Typed /\ ChangesHeld /\ ExitsAreKnown /\ WakesWaiting /\ HashesIn(Proven)
      /\ RecordIsNewest /\ AnswersConfirm
      /\ tab \in [Tabs -> TabStates] /\ tab[t] \in TabStates /\ drawn \in Nat
      /\ handlers \in [Slots -> Handlers]
  BY DEF RoomInv, Tokens, Typed
<1>1. /\ tab[t].req = "sent" /\ tab' = [tab EXCEPT ![t] = [tab[t] EXCEPT !.req = "served"]]
      /\ UNCHANGED <<saved, record, drawn>>
  BY DEF Join
<1>2. record # NoRecord /\ tab[t].pair = record /\ record \in Pair
  BY <1>1 DEF Tokens, RequestsCarryRecord, RoomInv, Typed
<1>3. /\ record.current >= 1 /\ record.pending = record.current + 1 /\ record.pending <= drawn
      /\ record.pending \in Nat
  BY <1>2, <1>t DEF RecordIsNewest, Pair
<1>4. h \in Handlers /\ h.tab = t /\ h.pair = record /\ h.at = "get" /\ h.wanted = TRUE /\ h.evict = Nobody
  BY <1>2, NewJoin
<1>5. handlers[i].at = "idle"
  BY FreeSlot DEF Join
<1>6. tab'[t].req = "served" /\ tab'[t].pair = record
  BY <1>1, <1>2, <1>t DEF TabStates
<1>7. ASSUME NEW k \in Slots
      PROVE  ~Awaited(k)
  <2>1. Awaited(k) => tab[handlers[k].tab].req = "served" /\ handlers[k].tab = t
    BY DEF Awaited, Tokens, AwaitedCarriesRecord, JoinsCarryPairs
  <2> QED BY <1>1, <2>1
\* The new handler, and what becomes of the room.
<1>8. /\ handlers'[i].at \in {"get", "queue", "write"} /\ handlers'[i].tab = t
      /\ handlers'[i].pair = record /\ handlers'[i].wanted = TRUE /\ handlers'[i].evict = Nobody
      /\ \A k \in Slots : k # i => handlers'[k] = handlers[k]
      /\ HashFollows /\ QueueGoesOn /\ (mem' = None => mem = None)
      /\ handlers'[i].at = "write" => mem' \in Rooms /\ mem'.hash = record.pending
  <2>1. CASE mem # None
    <3>1. mem \in Rooms /\ GiveSeat(i, h, mem) /\ Accepts(mem, h.pair)
      BY <1>t, <2>1 DEF Join, Typed
    <3> HIDE DEF h
    <3>2. HashFollows /\ mem' \in Rooms /\ mem'.hash = record.pending
      BY <1>t, <1>3, <1>4, <3>1, JoinHash
    <3>3. queue' = Enqueued(Snapshot(mem'), {i})
      BY <1>4, <3>1, SeatGiven, TypedParts, <1>t
    <3>4. QueueGoesOn
      BY <3>2, <3>3 DEF QueueGoesOn
    <3>5. /\ handlers'[i].at = "write" /\ handlers'[i].tab = t /\ handlers'[i].pair = h.pair
          /\ handlers'[i].wanted = h.wanted /\ handlers'[i].evict = Nobody
          /\ \A k \in Slots : k # i => handlers'[k] = handlers[k]
      BY <1>4, <1>t, <3>1, SeatTaken
    <3>6. mem' # None
      BY <3>2, RoomTyped
    <3> QED BY <1>4, <3>2, <3>4, <3>5, <3>6
  <2>2. CASE mem = None /\ queue = <<>>
    <3>1. handlers' = [handlers EXCEPT ![i] = h] /\ UNCHANGED <<mem, queue>>
      BY <2>2 DEF Join
    <3> HIDE DEF h
    <3>2. HashFollows /\ QueueGoesOn
      BY <2>2, <3>1 DEF HashFollows, QueueGoesOn
    <3> QED BY <1>4, <1>t, <2>2, <3>1, <3>2
  <2>3. CASE mem = None /\ queue # <<>>
    <3> DEFINE new == [h EXCEPT !.at = "queue"]
    <3>1. handlers' = [handlers EXCEPT ![i] = new] /\ queue' = Behind(i) /\ UNCHANGED mem
      BY <2>3 DEF Join
    <3> HIDE DEF h
    <3>2. new.at = "queue" /\ new.tab = t /\ new.pair = record /\ new.wanted = TRUE /\ new.evict = Nobody
      BY <1>4 DEF Handlers
    <3> HIDE DEF new
    <3>3. handlers'[i] = new
      BY <1>t, <3>1
    <3>4. HashFollows /\ QueueGoesOn
      BY <2>3, <3>1, <3>2, <3>3 DEF HashFollows, QueueGoesOn
    <3> QED BY <1>t, <2>3, <3>1, <3>2, <3>3, <3>4
  <2> QED BY <2>1, <2>2, <2>3
<1> HIDE DEF h
<1>9. ASSUME NEW k \in Slots, k # i
      PROVE  ~Awaited(k)'
  BY <1>7, <1>8, <1>9 DEF Awaited
<1>10. RecordIsNewest'
  BY <1>1, <1>t DEF RecordIsNewest
<1>11. JoinsCarryPairs'
  <2>1. ASSUME NEW k \in Slots, handlers'[k].at \in JoinStates
        PROVE  /\ handlers'[k].tab \in Tabs /\ handlers'[k].evict = Nobody
               /\ handlers'[k].pair.current >= 1
               /\ handlers'[k].pair.pending = handlers'[k].pair.current + 1
               /\ handlers'[k].pair.pending <= drawn'
    <3>1. CASE k = i
      BY <1>1, <1>3, <1>8, <3>1
    <3>2. CASE k # i
      BY <1>1, <1>8, <2>1, <3>2 DEF Tokens, JoinsCarryPairs
    <3> QED BY <3>1, <3>2
  <2> QED BY <2>1 DEF JoinsCarryPairs
<1>12. RequestsCarryRecord'
  BY <1>1, <1>2, <1>6 DEF RequestsCarryRecord
<1>13. AwaitedCarriesRecord'
  BY <1>1, <1>2, <1>6, <1>8, <1>9 DEF AwaitedCarriesRecord
<1>14. HashesIn(Proven)'
  BY <1>1, <1>8, <1>t, HashesKept
<1>15. AnswersConfirm'
  <2>1. \A u \in Tabs : tab'[u].req # "ok"
    BY <1>6
  <2>2. \A k \in Slots : Awaited(k)' => k = i /\ handlers'[k].at # "written"
    BY <1>8, <1>9
  <2>3. \A k \in Slots : Awaited(k)' /\ handlers'[k].at = "write" =>
           handlers[k].at \notin Waiting /\ mem' \in Rooms /\ mem'.hash = record.pending
    BY <1>5, <1>8, <2>2 DEF Waiting
  <2> QED BY <1>1, <1>8, <1>t, <2>1, <2>2, <2>3, AnswersKept
<1> QED BY <1>10, <1>11, <1>12, <1>13, <1>14, <1>15 DEF Tokens

\* A join that has loaded the room gets the seat, or is refused.
LEMMA LoadedTokens ==
  ASSUME NEW t \in Tabs, Tabs = {t}, RoomInv, Tokens, [Next]_vars, Live',
         NEW i \in Slots, Loaded(i)
  PROVE  Tokens'
<1> DEFINE room == AfterLoad
           h == handlers[i]
<1>t. /\ Typed /\ ChangesHeld /\ HashesIn(Proven) /\ RecordIsNewest /\ h \in Handlers
      /\ tab \in [Tabs -> TabStates] /\ handlers \in [Slots -> Handlers]
  BY DEF RoomInv, Tokens, Typed
<1>1. h.at = "get" /\ Decide(i, h, room) /\ UNCHANGED <<saved, record, drawn>>
  BY DEF Loaded
<1>2. /\ room \in Rooms \cup {None} /\ (mem # None => room = mem)
      /\ mem = None /\ room # None => saved # None /\ room.hash = saved.hash
  BY <1>t, LoadedRoom
<1>3. /\ h.at \in JoinStates /\ h.tab = t /\ h.evict = Nobody
      /\ h.pair.current >= 1 /\ h.pair.pending = h.pair.current + 1 /\ h.pair.pending <= drawn
  BY <1>1 DEF Tokens, JoinsCarryPairs, JoinStates
<1>4. h.wanted => Awaited(i) /\ tab[t].req = "served" /\ h.pair = record /\ \A k \in Slots : Awaited(k) => k = i
  <2>1. h.wanted => Awaited(i)
    BY <1>3 DEF Awaited
  <2> QED BY <1>3, <2>1 DEF Tokens, AwaitedCarriesRecord
<1>5. CASE room \in Rooms /\ Accepts(room, h.pair) /\ GiveSeat(i, h, room) /\ UNCHANGED tab
  <2> DEFINE base == room
  <2>0. /\ base \in Rooms /\ Accepts(base, h.pair) /\ GiveSeat(i, h, base) /\ base # None
        /\ base = mem \/ (mem = None /\ saved # None /\ base.hash = saved.hash)
    BY <1>2, <1>5, RoomTyped
  <2> HIDE DEF base
  <2>1. /\ handlers'[i].at = "write" /\ handlers'[i].tab = t /\ handlers'[i].pair = h.pair
        /\ handlers'[i].wanted = h.wanted /\ handlers'[i].evict = Nobody
        /\ \A k \in Slots : k # i => handlers'[k] = handlers[k]
    BY <1>3, <1>t, <2>0, SeatTaken
  <2>2. HashFollows /\ mem' \in Rooms /\ mem'.hash = h.pair.pending
    BY <1>3, <1>t, <2>0, JoinHash
  <2>3. queue' = Enqueued(Snapshot(mem'), {i})
    BY <1>t, <2>0, SeatGiven, TypedParts
  <2>4. QueueGoesOn /\ mem' # None
    BY <2>2, <2>3, RoomTyped DEF QueueGoesOn
  <2>5. \A k \in Slots : JoinGoesOn(k)
    BY <1>3, <2>1 DEF JoinGoesOn
  <2>6. \A k \in Slots : Awaited(k)' => Awaited(k) /\ (k = i => h.wanted)
    BY <1>3, <2>1 DEF Awaited
  <2>7. \A k \in Slots : Awaited(k)' => tab'[handlers'[k].tab].req = "served"
    BY <1>5, <2>1, <2>6, <1>3 DEF Tokens, AwaitedCarriesRecord
  <2>8. \A k \in Slots : Awaited(k)' /\ handlers'[k].at = "written" =>
           Awaited(k) /\ handlers[k].at = "written"
    BY <2>1, <2>6
  <2>9. \A k \in Slots : Awaited(k)' /\ handlers'[k].at = "write" =>
           \/ Awaited(k) /\ handlers[k].at = "write"
           \/ handlers[k].at \notin Waiting /\ mem' \in Rooms /\ mem'.hash = record.pending
    BY <1>1, <1>4, <2>1, <2>2, <2>6 DEF Waiting
  <2>10. \A u \in Tabs : RequestGoesOn(u) /\ (tab'[u].req = "ok" => tab[u].req = "ok")
    BY <1>5 DEF RequestGoesOn
  <2> QED BY <1>1, <2>2, <2>4, <2>5, <2>7, <2>8, <2>9, <2>10, CalmTokens
<1>6. CASE /\ mem' = room /\ UNCHANGED queue
           /\ handlers' = [handlers EXCEPT ![i] = Idle] /\ Answer(h.tab, h, "no")
  <2>1. HashFollows /\ QueueGoesOn /\ (mem' = None => mem = None)
    <3> DEFINE base == room
    <3>1. /\ mem' = base /\ base \in Rooms \cup {None} /\ (mem # None => base = mem)
          /\ mem = None /\ base # None => saved # None /\ base.hash = saved.hash
      BY <1>2, <1>6
    <3> HIDE DEF base
    <3> QED BY <1>6, <1>t, <3>1, RoomTyped DEF HashFollows, QueueGoesOn, HashesIn
  <2>2. \A k \in Slots : \/ k = i /\ handlers'[k].at = "idle"
                         \/ k # i /\ handlers'[k] = handlers[k]
    BY <1>6, <1>t, NewHandlerTyped
  <2>3. /\ h.wanted => tab'[t].req = "no"
        /\ ~h.wanted => UNCHANGED tab
    BY <1>3, <1>4, <1>6, <1>t DEF Answer, TabStates
  <2>4. \A k \in Slots : JoinGoesOn(k) /\ (Awaited(k)' => Awaited(k) /\ k # i /\ handlers'[k] = handlers[k])
    BY <2>2 DEF JoinGoesOn, Awaited, JoinStates
  <2>5. \A k \in Slots : Awaited(k)' => tab'[handlers'[k].tab].req = "served"
    BY <1>4, <2>3, <2>4 DEF Tokens, AwaitedCarriesRecord
  <2>6. \A u \in Tabs : RequestGoesOn(u) /\ (tab'[u].req = "ok" => tab[u].req = "ok")
    BY <2>3 DEF RequestGoesOn, Requests
  <2> QED BY <1>1, <2>1, <2>4, <2>5, <2>6, CalmTokens
<1> HIDE DEF room
<1>7. \/ room \in Rooms /\ Accepts(room, h.pair) /\ GiveSeat(i, h, room) /\ UNCHANGED tab
      \/ /\ mem' = room /\ UNCHANGED queue
         /\ handlers' = [handlers EXCEPT ![i] = Idle] /\ Answer(h.tab, h, "no")
  BY <1>1, <1>2, <1>t, Decided
<1> QED BY <1>5, <1>6, <1>7

\* A join whose write has ended is answered; no other tab is sent away.
LEMMA AnsweredTokens ==
  ASSUME NEW t \in Tabs, Tabs = {t}, RoomInv, Tokens, [Next]_vars, Live',
         NEW i \in Slots, Joined(i)
  PROVE  Tokens'
<1> DEFINE h == handlers[i]
           req == IF h.wanted /\ tab[t].req = "served" THEN "ok" ELSE tab[t].req
<1>t. /\ Typed /\ HashesIn(Proven) /\ h \in Handlers
      /\ tab \in [Tabs -> TabStates] /\ tab[t] \in TabStates /\ handlers \in [Slots -> Handlers]
  BY DEF RoomInv, Tokens, Typed
<1>1. h.at = "written" /\ UNCHANGED <<saved, record, drawn>>
  BY DEF Joined
<1>2. h.tab = t /\ h.evict = Nobody /\ h.evict \notin Tabs
  BY <1>1, NothingAssumption DEF Tokens, JoinsCarryPairs, JoinStates
<1>3. /\ tab' = [tab EXCEPT ![t] = [tab[t] EXCEPT !.req = req]]
      /\ handlers' = [k \in Slots |-> IF k = i THEN Idle ELSE handlers[k]]
      /\ UNCHANGED <<mem, queue>>
  BY <1>2 DEF Joined
<1>4. tab'[t].req = req /\ tab'[t].pair = tab[t].pair
  BY <1>3, <1>t DEF TabStates
<1>5. h.wanted => Awaited(i) /\ \A k \in Slots : Awaited(k) => k = i
  <2>1. h.wanted => Awaited(i)
    BY <1>1 DEF Awaited, JoinStates
  <2> QED BY <2>1 DEF Tokens, AwaitedCarriesRecord
<1>6. HashFollows /\ QueueGoesOn
  <2>1. mem' # None => mem' \in Rooms /\ mem # None /\ mem'.hash = mem.hash
    BY <1>3, <1>t DEF Typed
  <2> QED BY <1>3, <1>t, <2>1, SameHash DEF QueueGoesOn
<1>7. ASSUME NEW k \in Slots
      PROVE  JoinGoesOn(k) /\ (Awaited(k)' => Awaited(k) /\ k # i /\ handlers'[k] = handlers[k])
  <2>1. \/ k = i /\ handlers'[k].at = "idle"
        \/ k # i /\ handlers'[k] = handlers[k]
    BY <1>3, NewHandlerTyped
  <2> QED BY <2>1 DEF JoinGoesOn, Awaited, JoinStates
<1>8. \A k \in Slots : Awaited(k)' => tab'[handlers'[k].tab].req = "served"
  <2> SUFFICES ASSUME NEW k \in Slots, Awaited(k)'
               PROVE  tab'[handlers'[k].tab].req = "served"
    OBVIOUS
  <2>1. Awaited(k) /\ k # i /\ handlers'[k] = handlers[k]
    BY <1>7
  <2>2. tab[handlers[k].tab].req = "served" /\ handlers[k].tab = t
    BY <2>1 DEF Tokens, AwaitedCarriesRecord, JoinsCarryPairs, Awaited
  <2>3. ~h.wanted
    BY <1>5, <2>1
  <2> QED BY <1>4, <2>1, <2>2, <2>3
<1>9. \A u \in Tabs : tab'[u].req = "ok" => tab[u].req = "ok" \/ HashesIn({record.pending})
  <2>1. h.wanted => HashesIn({record.pending})
    BY <1>1, <1>5 DEF Tokens, AnswersConfirm
  <2> QED BY <1>4, <2>1
<1>10. \A u \in Tabs : RequestGoesOn(u)
  BY <1>4 DEF RequestGoesOn, Requests
<1> QED BY <1>1, <1>3, <1>6, <1>7, <1>8, <1>9, <1>10, CalmTokens

\* An operation is carried out: the snapshot holds what was written.
LEMMA LandedTokens ==
  ASSUME NEW t \in Tabs, Tabs = {t}, RoomInv, Tokens, [Next]_vars, Live', RedisDone
  PROVE  Tokens'
<1>t. /\ Typed /\ ChangesHeld /\ ExitsAreKnown /\ HashesIn(Proven) /\ AnswersConfirm
      /\ handlers \in [Slots -> Handlers]
  BY DEF RoomInv, Tokens, Typed
<1>1. /\ queue # <<>> /\ saved' = Ending.value /\ queue' = Tail(queue) /\ WakeUp(TRUE)
      /\ UNCHANGED <<mem, record, drawn, tab>>
  BY DEF RedisDone, Lands, browser
<1>2. /\ Ending = queue[1] /\ 1 \in 1..Len(queue) /\ Len(queue) \in Nat
      /\ Len(queue') = Len(queue) - 1
      /\ \A k \in 1..Len(queue') : k + 1 \in 1..Len(queue) /\ queue'[k] = queue[k + 1]
  BY <1>1, <1>t, QueueShorter DEF Typed
<1>3. HashFollows
  <2>1. mem' # None => mem' \in Rooms /\ mem # None /\ mem'.hash = mem.hash
    BY <1>1, <1>t DEF Typed
  <2> QED BY <1>t, <2>1, SameHash
<1>4. ASSUME NEW k \in Slots
      PROVE  /\ JoinGoesOn(k) /\ (Awaited(k)' => Awaited(k)) /\ handlers'[k].tab = handlers[k].tab
             /\ handlers'[k].at = "written" =>
                  handlers[k].at = "written" \/ (handlers[k].at = "write" /\ k \in Ending.wakes)
             /\ handlers'[k].at = "write" => handlers[k].at = "write"
  <2>1. PICK at \in HandlerStates : handlers'[k] = [handlers[k] EXCEPT !.at = at]
    BY <1>1, <1>t, WokenUp
  <2>2. handlers[k] \in Handlers
    BY <1>t
  <2>3. /\ handlers'[k].tab = handlers[k].tab /\ handlers'[k].pair = handlers[k].pair
        /\ handlers'[k].evict = handlers[k].evict /\ handlers'[k].wanted = handlers[k].wanted
    BY <2>1, <2>2 DEF Handlers
  <2>4. /\ k \notin Ending.wakes => handlers'[k] = handlers[k]
        /\ k \in Ending.wakes => handlers'[k].at =
             CASE handlers[k].at = "write" -> "written"
               [] handlers[k].at = "deleting" -> "deleted"
               [] handlers[k].at = "queue" -> "get"
               [] OTHER -> handlers[k].at
    BY <1>1, <1>t, WokenUp
  <2>5. handlers'[k].at \in JoinStates => handlers[k].at \in JoinStates
    BY <2>4 DEF JoinStates
  <2>6. JoinGoesOn(k) /\ (Awaited(k)' => Awaited(k))
    BY <2>3, <2>5 DEF JoinGoesOn, Awaited
  <2> QED BY <2>3, <2>4, <2>6
<1>5. \A u \in Tabs : RequestGoesOn(u)
  BY <1>1 DEF RequestGoesOn
<1>6. \A k \in Slots : Awaited(k)' => tab'[handlers'[k].tab].req = "served"
  BY <1>1, <1>4 DEF Tokens, AwaitedCarriesRecord
<1>7. JoinsCarryPairs' /\ RequestsCarryRecord' /\ AwaitedCarriesRecord' /\ RecordIsNewest'
  BY <1>1, <1>4, <1>5, <1>6, JoinsGoOn DEF Tokens
<1>8. HashesIn(Proven)' /\ (HashesIn({record.pending}) => HashesIn({record.pending})')
  BY <1>1, <1>3, <1>t, HashesKept
\* The write of an awaited join is carried out: what follows it is no older.
<1>9. ASSUME NEW k \in Slots, Awaited(k), handlers[k].at = "write", k \in Ending.wakes
      PROVE  HashesIn({record.pending})'
  <2>1. mem # None /\ mem.hash = record.pending /\ WriteFollowed(k)
    BY <1>9, <1>t DEF AnswersConfirm
  <2>2. \A j \in 1..Len(queue) : queue[j].value # None => queue[j].value.hash = record.pending
    BY <1>2, <1>9, <2>1 DEF WriteFollowed
  <2>3. /\ mem' # None => mem'.hash = record'.pending
        /\ saved' # None => saved'.hash = record'.pending
        /\ \A j \in 1..Len(queue') : queue'[j].value # None => queue'[j].value.hash = record'.pending
    BY <1>1, <1>2, <2>1, <2>2
  <2> QED BY <2>3 DEF HashesIn
<1>10. ASSUME NEW k \in Slots, Awaited(k)', handlers'[k].at = "written"
       PROVE  HashesIn({record.pending})'
  <2>1. Awaited(k) /\ (handlers[k].at = "written" \/ (handlers[k].at = "write" /\ k \in Ending.wakes))
    BY <1>4, <1>10
  <2>2. CASE handlers[k].at = "written"
    BY <1>8, <1>t, <2>1, <2>2 DEF AnswersConfirm
  <2>3. CASE handlers[k].at = "write" /\ k \in Ending.wakes
    BY <1>9, <2>1, <2>3
  <2> QED BY <2>1, <2>2, <2>3
<1>11. ASSUME NEW k \in Slots, Awaited(k)', handlers'[k].at = "write"
       PROVE  mem' # None /\ mem'.hash = record'.pending /\ WriteFollowed(k)'
  <2>1. mem # None /\ mem.hash = record.pending /\ WriteFollowed(k)
    BY <1>4, <1>11, <1>t DEF AnswersConfirm
  <2>2. ASSUME NEW m \in 1..Len(queue'), k \in queue'[m].wakes, NEW j \in m..Len(queue'),
               queue'[j].value # None
        PROVE  queue'[j].value.hash = record.pending
    <3>1. m + 1 \in 1..Len(queue) /\ k \in queue[m + 1].wakes /\ j \in 1..Len(queue')
      BY <1>2, <2>2
    <3>2. j + 1 \in (m + 1)..Len(queue) /\ queue'[j] = queue[j + 1]
      BY <1>2, <3>1
    <3> QED BY <2>1, <2>2, <3>1, <3>2 DEF WriteFollowed
  <2>3. WriteFollowed(k)'
    BY <1>1, <2>2 DEF WriteFollowed
  <2> QED BY <1>1, <2>1, <2>3
<1>12. \A u \in Tabs : tab'[u].req = "ok" => HashesIn({record.pending})'
  BY <1>1, <1>8, <1>t DEF AnswersConfirm
<1>13. AnswersConfirm'
  BY <1>10, <1>11, <1>12 DEF AnswersConfirm
<1> QED BY <1>7, <1>8, <1>13 DEF Tokens

\* The process ends: nothing is under way any longer.
LEMMA CrashedTokens ==
  ASSUME NEW t \in Tabs, Tabs = {t}, RoomInv, Tokens, [Next]_vars, Live', Crash
  PROVE  Tokens'
<1>t. /\ Typed /\ ChangesHeld /\ ExitsAreKnown /\ HashesIn(Proven)
      /\ tab \in [Tabs -> TabStates]
  BY DEF RoomInv, Tokens, Typed
<1>1. /\ mem' = None /\ UNCHANGED <<record, drawn>>
      /\ handlers' = [i \in Slots |-> Idle] /\ tab' = [u \in Tabs |-> Offline(tab[u])]
  BY DEF Crash
<1>2. \A k \in Slots : handlers'[k].at = "idle"
  BY <1>1, NewHandlerTyped
<1>3. \A k \in Slots : JoinGoesOn(k) /\ ~Awaited(k)'
  BY <1>2 DEF JoinGoesOn, Awaited, JoinStates
<1>4. \A s \in TabStates : Offline(s).req \in Requests =>
        Offline(s).req = "wait" /\ s.req = "wait" /\ Offline(s).pair = s.pair
  BY DEF Offline, TabStates, Requests
<1>5. \A u \in Tabs : RequestGoesOn(u) /\ tab'[u].req # "ok"
  BY <1>1, <1>4, <1>t DEF RequestGoesOn, Requests
<1>6. JoinsCarryPairs' /\ RequestsCarryRecord' /\ AwaitedCarriesRecord' /\ RecordIsNewest'
  BY <1>1, <1>3, <1>5, JoinsGoOn DEF Tokens
<1>7. HashFollows
  BY <1>1 DEF HashFollows
<1>8. HashesIn(Proven)'
  BY <1>1, <1>7, <1>t, HashesKept
<1>9. AnswersConfirm'
  BY <1>3, <1>5 DEF AnswersConfirm
<1> QED BY <1>6, <1>8, <1>9 DEF Tokens

\* Every step keeps the tokens' invariant.
LEMMA TokensKept ==
  ASSUME NEW t \in Tabs, Tabs = {t}, RoomInv, TokenInv, [Next]_vars
  PROVE  TokenInv'
<1> SUFFICES ASSUME Live'
             PROVE  Tokens'
  BY DEF TokenInv, Live
<1>1. Tokens
  BY RoomSteps DEF TokenInv, RoomInv
<1>2. ASSUME NEW i \in Slots, NotLoaded(i) \/ Exit(i) \/ ExitDelete(i) \/ ExitTold(i)
      PROVE  FALSE
  <2>1. ExitsAreKnown
    BY DEF RoomInv
  <2>2. clean' /\ ~exited'
    BY DEF Live
  <2>3. CASE NotLoaded(i)
    BY <2>2, <2>3 DEF NotLoaded
  <2>4. CASE Exit(i)
    BY <2>2, <2>4 DEF Exit
  <2>5. CASE ExitDelete(i)
    BY <2>1, <2>2, <2>5 DEF ExitDelete, ExitsAreKnown, ExitStates, history
  <2>6. CASE ExitTold(i)
    BY <2>1, <2>2, <2>6 DEF ExitTold, ExitsAreKnown, ExitStates, history
  <2> QED BY <1>2, <2>3, <2>4, <2>5, <2>6
<1>3. ~RedisFails /\ ~RedisLate
  BY DEF RedisFails, RedisLate, Live
<1>4. CASE UNCHANGED vars
  BY <1>1, <1>4, OthersTokens
<1>5. CASE Steps
  <2>1. ASSUME NEW u \in Tabs,
               \/ JoinRoom(u) \/ Connect(u) \/ RejoinFires(u)
               \/ AcceptReceived(u) \/ RefusalReceived(u) \/ JoinRefused(u)
        PROVE  Tokens'
    BY <1>1, <2>1, BrowserTokens
  <2>2. ASSUME NEW u \in Tabs, TimeOut(u) \/ \E reload \in BOOLEAN : Drop(u, reload)
        PROVE  Tokens'
    BY <1>1, <2>2, GivenUpTokens
  <2>3. ASSUME NEW u \in Tabs, NEW i \in Slots, Join(i, u)
        PROVE  Tokens'
    BY <1>1, <2>3, JoinTokens
  <2>4. ASSUME NEW i \in Slots, Loaded(i) \/ Joined(i) \/ ChangeSlowly(i) \/ WriteChange(i)
        PROVE  Tokens'
    BY <1>1, <2>4, LoadedTokens, AnsweredTokens, OthersTokens
  <2>5. ASSUME Change \/ RedisDone \/ Crash
        PROVE  Tokens'
    BY <1>1, <2>5, OthersTokens, LandedTokens, CrashedTokens
  <2> QED BY <1>2, <1>3, <1>5, <2>1, <2>2, <2>3, <2>4, <2>5 DEF Steps
<1> QED BY <1>4, <1>5, NextSteps

\* The tokens' invariant holds initially.
LEMMA InitTokens ==
  ASSUME Init
  PROVE  TokenInv
<1>1. /\ \A i \in Slots : handlers[i].at = "idle"
      /\ \A t \in Tabs : tab[t].req = "none"
  BY NewHandlerTyped DEF Init, Quiet
<1>2. RecordIsNewest /\ JoinsCarryPairs /\ RequestsCarryRecord /\ AwaitedCarriesRecord /\ AnswersConfirm
  BY <1>1 DEF Init, RecordIsNewest, JoinsCarryPairs, RequestsCarryRecord, AwaitedCarriesRecord,
              AnswersConfirm, Awaited, JoinStates
<1>3. mem.hash = NoHash /\ saved = None /\ Len(queue) = 1 /\ queue[1].value.hash = NoHash
  BY DEF Init, Operation
<1>4. NoHash \in Proven
  BY DEF Init, Proven
<1>5. HashesIn(Proven)
  BY <1>3, <1>4 DEF HashesIn
<1> QED BY <1>2, <1>5 DEF TokenInv, Tokens

\* A browser with one tab can always prove its seat: whatever crashes, broken
\* connections, lost answers and repeated joins there were, the seat in memory and the
\* one a restarted server would load answer to a token of the browser's record.
THEOREM SeatCanBeReclaimed ==
  ASSUME NEW t, Tabs = {t}
  PROVE  Spec => []SeatReclaimable
<1>1. Init => TokenInv
  BY InitTokens
<1>2. RoomInv /\ TokenInv /\ [Next]_vars => TokenInv'
  <2>1. t \in Tabs
    OBVIOUS
  <2> QED BY <2>1, TokensKept
<1>3. TokenInv => SeatReclaimable
  <2> SUFFICES ASSUME HashesIn(Proven), NEW hash, hash \in Proven
               PROVE  Reclaims(hash)
    BY DEF TokenInv, Tokens, Live, SeatReclaimable, HashesIn
  <2> QED BY DEF Proven, Reclaims, Authorized
<1> QED BY <1>1, <1>2, <1>3, RoomInvariant, PTL DEF Spec
===============================================================================
