---------------------------- MODULE RoomPersistence ----------------------------
(***************************************************************************)
(* The snapshot of one room in Redis and the queue of writes before it:    *)
(* server/src/rooms/roomPersistence.ts.                                    *)
(*                                                                         *)
(* A write or a deletion is sent when the one before it has ended, well or *)
(* badly.  The queue gives an operation up after four seconds; Redis may   *)
(* still carry it out later.  Redis itself is external.                    *)
(***************************************************************************)
EXTENDS Naturals, Sequences

CONSTANT None     \* no snapshot

VARIABLES
  saved,   \* what Redis holds for the room
  queue,   \* writeQueues: the operations not ended, the first one at Redis
  late     \* operations that were given up and may still be carried out

pvars == <<saved, queue, late>>

\* An operation leaves `value` in Redis (None: it deletes the snapshot) and wakes the
\* handlers that wait for its end.
Operation(value, waiters) == [value |-> value, wakes |-> waiters]

\* (mutant) an operation does not wait for those before it.
SentAtOnce(value, waiters) == <<Operation(value, waiters)>> \o queue
\* enqueue.
Enqueued(value, waiters) == Append(queue, Operation(value, waiters))

\* loadPersistedRoom waits for the last operation in the queue.
Behind(i) == [queue EXCEPT ![Len(queue)].wakes = @ \cup {i}]

Ending == Head(queue)

\* The operation at Redis is carried out.
Lands ==
  /\ queue # <<>>
  /\ saved' = Ending.value
  /\ queue' = Tail(queue)
  /\ UNCHANGED late

\* It is refused, or (withTimeout) nothing is heard of it for four seconds.
Fails ==
  /\ queue # <<>>
  /\ queue' = Tail(queue)
  /\ late' \in {late, late \cup {Ending.value}}
  /\ UNCHANGED saved

\* What was given up happens after all.
LandsLate ==
  /\ \E value \in late : saved' = value /\ late' = late \ {value}
  /\ UNCHANGED queue

\* The process ends; the operation at Redis may or may not be carried out.
QueueIsLost ==
  /\ late' \in {late} \cup {late \cup {queue[k].value} : k \in 1..Len(queue) \cap {1}}
  /\ queue' = <<>>
  /\ UNCHANGED saved
===============================================================================
