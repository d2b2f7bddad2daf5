# donkeyKaun in TLA+

donkeyKaun is a web version of the card game Kachuful (bid exactly how many hands you
will win). A Node server holds every room in memory, decides every rule, plays the bots'
seats and keeps a snapshot of each room in Redis; browsers talk to it over Socket.IO and
to each other over WebRTC. This directory holds the TLA+ modules that model the server's
logic and the protocols it has with the browsers, the TLC configurations that check them
and the proofs that TLAPS checks.

## Reading order

| module | what it is |
|---|---|
| `Engine` | the rules engine `server/src/game/engine.ts`, one action per operation, and its properties |
| `Table` | what the engine promises to the room: who acts next, when rounds and games end |
| `EngineTable` | `Engine` implements `Table` |
| `RoomRestore` | `Engine` with server restarts: the normalization of a restored snapshot |
| `RestoredViews` | what bots make of a game that was restored: `BotKnowledge` and `ClientViews` over `RoomRestore` |
| `ClientViews` | what browsers are told of a game, and the bids, cards and winners they make of it |
| `Rooms` | the store and the socket handlers: seats, hosts and sockets, with every wait of a handler as a point where others run |
| `ResumeTokens` | the pair of tokens that proves a seat |
| `RoomPersistence` | the write queue of a room and its snapshot in Redis |
| `Recovery` | joins of the browser's tabs, the room in memory and its snapshot, with crashes and lost messages (uses both of the above) |
| `RoomProgress` | the timers that play bots' turns and resolve piles, over `Table` |
| `TurnCredentials` | TURN credentials: cache, allowances, generation, revocation |
| `VoiceNegotiation` | two browsers set up their audio connection |
| `BotKnowledge` | what a bot sees, the deals it thinks possible, its copies of the rules |
| `BotPlayouts` | the bots' chances of winning a hand and the playouts they judge moves by |
| `BotBids` | the bids a bot may choose |
| `BotSearch` | the search for a card: to the end with a budget, or a growing tree |
| `SmallTables`, `MC*` | small decks, tables, browsers and budgets for TLC |
| `EngineProofs` | the inductive invariant of `Engine` and what follows from it: seats and turns, then cards and voids, then a round (its ledger, its hands, its sums), last that `Engine` implements `Table` |
| `RestoreProofs` | the same with server restarts, and that a restart restores what was there |
| `ViewProofs` | the theorems about browsers and bots: offers, moves, simulations, deals |
| `RoomsProofs` | the inductive invariant of `Rooms` and the theorems that follow from it |
| `ProgressProofs` | the inductive invariant of `RoomProgress` and the theorems about timers |
| `TurnProofs` | the theorems about the cache and the allowances of TURN credentials |
| `RecoveryProofs` | the theorems about writes, exits and the proof of a seat |
| `VoiceProofs` | the inductive invariant of `VoiceNegotiation` and the theorem about browsers at rest |

How they depend on each other:

```
Table <- EngineTable -> Engine <- RoomRestore        ResumeTokens   RoomPersistence
  ^                       ^                                  ^        ^
RoomProgress              +-- ClientViews                    Recovery
                          +-- BotKnowledge <- BotBids, BotPlayouts, BotSearch
RestoredViews -> RoomRestore, ClientViews, BotKnowledge
Rooms        TurnCredentials        VoiceNegotiation
```

## Inventory of the system

**Rules engine** (`game/engine.ts`, `game/cards.ts`). State: one immutable `GameState` per
room: phase, round, dealer, seat order, bid order, hands, bids, hands won, the pile, whose
turn it is, the public ledger of the round, the known void suits, scores, the scoresheet
and the donkeys. Operations: `startGame`, `placeBid`, `playCard`, `resolvePendingTrick`
(which may finish a round or the game), `newGame`, `continueGame`, `replacePlayer`,
`removePlayer`. Sequential; what is hard is the length of a legal history: a seat can be
renamed or taken out in any phase, with a pile on the table or half an auction held, and
fourteen tables of the state must agree afterwards. Correct means: one auction in dealer
order, one card per seat per hand in table order, no card in two places, certain voids
that are certain, a scoresheet that adds up, and a table that never stops before the end
of a game.

**Snapshot normalization** (`normalizeRestoredGameState` in `rooms/store.ts`). Rebuilds
the ledger and voids of a game read back from Redis. Correct means that a restart cannot
be noticed, and that a ledger which may have holes says so.

**Room store** (`rooms/store.ts`). The map of rooms; per room its players in seat order
(device, socket or none, time of joining, bot or not), status, game, the seat offered for
replacement and the devices that may not come back. Operations: create, join, restore,
start, kick, leave, add/remove bot, bot takeover, offer a seat, remove a seat, the game
operations, disconnect, sweep. Correct means: the players of a playing room are the seats
of its game, a departed device never returns, a seat shown as connected has a live
connection, an abandoned room goes away.

**Socket handlers** (`rooms/socketHandlers.ts`). Bind sockets to memberships and call the
store. Hard: the handlers of `room:create`, `room:join`, `room:leave`, `room:kick` and
`game:exit` wait for Redis or for the revocation of a credential in the middle, and other
messages run meanwhile.

**Automation timers** (same file). One bot timer and one trick timer per room, guarded by
fingerprints. Every handler that changes the game, the seats, who is connected or private
assist has to come to `scheduleRoomProgress`, some of them after an await. Correct means
that a table with a human online never stalls and a timer never acts on a turn it was not
set for.

**Membership tokens** (`rooms/membershipTokens.ts`, client `membershipCredentials.ts`). A
browser proves a seat with a token that rotates at every join; lost acknowledgements are
retried; two tabs share one record in `localStorage`. **Client room session**
(`client/src/rooms/roomClient.ts`). One join in flight, callers who share its answer, a
rejoin timer, reconnections that abandon a join. Correct means: the browser can always
prove its seat, and a member whose connection was lost is seated again or told why not.

**Room persistence** (`rooms/roomPersistence.ts`). A write queue per room with a timeout
of four seconds per operation, snapshots with a time to live. Hard: a timed-out write can
still land; a crash between an acknowledgement and the write; a load while another
handler loads, writes or deletes. Correct means: nothing accepted is undone while the
process runs, an older state never overwrites a newer one, an exited room is forgotten.

**TURN credentials** (`voice/iceServers.ts`). A cache per membership, allowances per
address and per process in fixed windows, generation and revocation over HTTP. Correct
means: what the cache serves works and belongs to the member, the counters are the
requests that were made, a leaver's credential is revoked.

**Passcode gate** (`security/passcodeGate.ts`) and **private assist**
(`bots/privateAssist.ts`). Attempt windows, unlock tokens, a connection's authority over
the autopilot of its seat.

**Views** (`game/publicState.ts`). Projections of the game: what everybody sees, what one
player sees. The client has rules of its own on top of them (`GameTable.tsx`,
`gameAnimations.ts`): which bids to offer, which cards are clickable, who won the pile.
Correct means that these agree with the engine.

**Bots** (`bots/knowledge.ts`, `strategy.ts`, `search.ts`, `rollout.ts`,
`advancedRollout.ts`). Functions from a view of the game to a bid or a card. They
duplicate the engine's rules four times, sample and enumerate deals that agree with the
public history, play rounds out, search with budgets. Correct means: a move the engine
accepts, deals that could be real and include the real one, simulations that follow the
engine, certainties that are certain, and a search that knows when it is complete.

**Voice chat** (`client/src/voice`). One RTCPeerConnection per other player, "perfect
negotiation" over signals that the server relays, restarts after failures, resets when a
player rejoins. Correct means that two browsers that have come to rest are connected.

**The rest of the client** is rendering, animation and sound; `bots/league.ts`,
`compareStrategies.ts` and `qualify.ts` are offline statistics; `index.ts` is wiring.

The interactions: a socket message runs one handler, which checks the binding, calls the
store, which calls the engine; the result is persisted (`persistRoom`), broadcast, and
followed by `scheduleRoomProgress`, which sets the timer of a bot's turn or of a full
pile. Restarts go the other way: a join loads a snapshot, `restoreRoom` normalizes it.
Each of these steps has its module; what they share is named in both: `Rooms` has the
seats and every await, `Recovery` one seat with its tokens and writes, `RoomProgress` the
same handlers as events that set timers, `TurnCredentials` the revocations they wait for.

## The engine module

Seats are numbered from 0, as in the code. Variables have the names of the fields of
`GameState` (the ledger `playHistory` is `plays` and `historyComplete`). Deliberate
abstractions:

- A hand is a set of cards; sorting is layout. `cardsThisRound` and `trumpSuit` are
  functions of the round. `lastRoundSummary` is the last element of `roundHistory`.
- `shuffle(createDeck())` is the choice of a member of the constant `Decks`.
- Names of suits are strings, devices and "no bid yet" are model values.
- Rejected calls change nothing and are not actions: a guard is the code's error return.
- `departed` is the room's `kickedDeviceIds`, the part of the room that limits who can
  take a seat. `StartGame` is called as `startRoom` calls it, which does not ask whether
  a game is already being played: a second start deals to those still connected, in seat
  order. `NewGame` and `ContinueGame` are guarded by the end of a game, where
  `requireHostAtGameEnd` puts them.
- `carried` is a history variable, the scores a game of `Rounds` rounds began with.
- `MaxScore` bounds continued games, the only unbounded counter; `BidInput` is the set of
  integers a client sends.

`Table` has no cards, bids or scores: a list of who has still to bid, a list of who has
still to play, and the number of hands left. It states a removal in one line (the seat is
dropped from both lists), so that the modular arithmetic of `removePlayer` is checked
against something that has none.

`RoomRestore` adds two actions: `RestoreRoom` restores a snapshot that has a ledger,
`RestoreLegacyRoom` one that was written by a server without ledgers (`LegacySnapshots`).
Both may happen in any phase, also after seats changed hands or were removed, as
`normalizeRestoredGameState` runs on every snapshot. A snapshot can lack its ledger only
until this server has restored the game once (`upgraded`); until then `plays`, `voidSuits`
and `historyComplete` are what a ledger would have been, which no code of the old server
kept and which serve to judge the rebuilt one.

What such a snapshot no longer shows was lost with a seat, and two history variables note
it until the next deal: `winnerLeft`, a seat that had won a hand was removed (its hands
have left `tricksWon`, from which store.ts:67 counts the hands played), and `leaderLeft`,
the seat that led the pile was removed (its card has left the pile, off whose first card
store.ts:77 reads the led suit). In these two cases the code rebuilds a ledger that is
wrongly called complete, or voids that are false (see "Other observations").
`LedgerCompleteUnlessWinnerLeft`, `VoidSuitsSoundUnlessLeaderLeft` and
`BotsPlanOnTheTruthUnlessLeaderLeft` say that nothing else goes wrong; each excludes only
games that were restored (`upgraded`) after such a loss, and only until the next deal. The
second is proved (`RestoredVoids`) and not a property of a run of its own: a false void
breaks the third, which `room_restore` checks.

## The rooms module

A room is a record: `status`, `game` (`"none"`, `"on"`, `"end"`), `seats` (the seats of
`room.game`), `players` (a function on device ids), `offered`
(`replacementForDeviceId`) and `kicked` (`kickedDeviceIds`). `rooms` is the map of
`store.ts`, `bound` is `socket.data`, `up` the connected sockets.

Node runs a handler until it awaits something. `waiting` holds the handlers that are at
such a point, with what they have already read, and other messages, disconnects, timers
and sweeps run in between:

| handler | first action | after the await |
|---|---|---|
| `room:create`, `room:join` | `Create`, `Join` (at once if nothing has to be released) | `Release` leaves the old lobby, `AfterRelease` creates or joins |
| `room:join` over another tab | `JoinNow` | `Evict` |
| `room:kick` | `Kick` | `Evict` |
| `room:leave` | `Leave` | `LeaveDone` |
| `game:exit` | `Exit` | `ExitNext`, once per connected player |

All other handlers change the room before their first await and are one action each.
Abstractions:

- Room codes are random; a room is its number in the order of creation, which is the
  order in which a JavaScript `Map` is gone through (`markSocketDisconnected` takes the
  first room it finds). A code is not drawn twice.
- Time: `joined` is the rank of `joinedAt`; a player who is away is `recent` until
  `GracePasses`, then `expired`. Host order and the grace period need no more.
- Seats of a game are a set: their order is `Engine`'s.
- A client sends the device id of its own browser (`DeviceOf`) and the code of the room
  it is in. A socket is used once; after a disconnect its binding is forgotten, as it
  sends nothing more.
- The moves of a game are one action, `GameEnds`. Snapshots and tokens are in `Recovery`,
  timers in `RoomProgress`; here `ensureRoomLoaded` finds a room in memory or none.
- Bots are seats with a device id nobody else has. A bot id is not drawn twice, as long
  as a room remembers it (`FreshBot`).

Bounds: `MaxRooms` rooms are ever created, `MaxWaiting` handlers wait at the same time.
`MaxPlayers` and `MaxActive` are the limits of the code, made small enough to be hit.

## The restored seat: `Recovery`

One room and one member with one or more tabs. `mem` is the room in memory (how often it
has changed, the token hash of the seat, the tab whose connection holds it), `saved`,
`queue` and `late` are Redis and the writes before it, `handlers` are handlers at an
await, `record` is the browser's pair of tokens and `tab` the module state of
`roomClient.ts`. A version number stands for everything else in the room.

- `Join` is `room:join`: at once when the room is in memory, otherwise it waits behind the
  last write, reads, and installs what it read only if no room has come into memory
  meanwhile (`AfterLoad`). `GiveSeat` rotates the token and evicts the tab that had the
  seat; the answer is sent after the write has been queued and ended (`Joined`). The handler
  remembers the connection that it is to close, not the tab: when that connection is gone
  before, nothing is closed (`Disconnected`), also if the tab has come back by then.
- `ChangeSlowly` stands for `room:bot-takeover` and `room:remove-seat`, which write after
  an await, `Change` for every other change, `Exit` for `game:exit`.
- The client has a join in flight (`req`), a caller who waits (`asked`), an active
  membership, and the rejoin timer; `TimeOut`, `Drop`, `Offline`, `Crash` and a reloaded
  page are faults, bounded together by `MaxEvents`.
- A snapshot's expiry, malformed snapshots, the limit of rooms at a restore, and other
  members are left out; leaving for good is in `Rooms`.

History variables: `standing` (how each tab stands with the seat), `exited`, `clean` (no
operation failed or was late, and no room was written after its exit). `clean` limits
what is promised about Redis: a write that was given up and lands later can be older than
what is there, and the code accepts that ("best effort"); `MemoryIsNotUndone` and
`MembersAreAnswered` are checked without it.

## What moves a game: `RoomProgress`

Over `Table`, which `Engine` is shown to implement: who must act is all that the timers
look at. `botTimer` holds what the timeout was set for (actor, fingerprint, whether
for assist), `trickTimer` likewise; setting one clears the one before. `owing` counts the
handlers between their change and `scheduleRoomProgress`, `leaving` the players whose
`room:leave` waits. Private assist belongs to a connection: a join over a new one finds it
locked, a repeated join over the same one does not. The type invariant includes that who is
connected to a game has one of its seats; the players' own messages and the host's operations
on seats (`RemoveSeat`, `Takeover`, `JoinSeat`, guarded by the owner's absence) have to agree
on that. The property that the timer plays its own turn compares with a `Turn`
number that no code has: the fingerprint has no game number, and tells the hand only by the
cards the actor holds, so that it is not obvious that equal fingerprints mean the same turn.

## TURN credentials

`credentialCache`, `ipCounters` and `globalCounter` are the variables of
`iceServers.ts`. `asked` lists the requests to Cloudflare in order, `inFlight` those not
answered, `issued` what Cloudflare knows: live until some time, being revoked, or dealt
with. A step of time is longer than an HTTP request may take (eight seconds), so a
request ends before the second step; all windows are a few steps, in the order of the
real ones (`CacheTime < TTL`).

## Voice

Two browsers, both running `webrtcEngine.ts`. `pc` is the entry in `peers`: the signaling
state, `makingOffer`, the queue of operations of the RTCPeerConnection (`chain`: each ends
later, in order, as the WebRTC specification has it), what still needs negotiation, which
description both agreed on, ICE state and restart timer. `inbox` holds what the server
sent; socket.io delivers it in order while the connection lasts, and loses it with the
connection. Connections may break unnoticed by the server for a while (`"lost"`), pages
may be reloaded.

## Bots

A bot is a function of its view, so `BotKnowledge`, `BotPlayouts` and `BotBids` have no
variables: they are operators over `Engine`'s state and their properties are evaluated in
every state in which somebody is to move, with that player as the bot. A deal is a
function from players to sets of cards. Random sampling is the set of the deals that can
come out; a heuristic is the set of moves it may choose; a chance is "never", "perhaps"
or "surely", or a number of draws out of all draws. `BotSearch` has the exact search as a
recursive operator with its memory and its budget of nodes threaded through, and the tree
search as a machine of its own (`StartSearch`, `Iterate`, `FinishSearch`), one descent per
step. The score of a round is written again in `search.ts` (and, in the middle of a formula,
in the two rollouts); `ImaginedRoundScore` is that copy, compared with the engine's when a
round ends. Left out: weights of deals, the scores of the heuristics, the UCB formula.

In a room, bots search only hands of at most two cards (`searchEndgame`); the tree search
runs in tests and in evaluation. `TreeNodes` is below the code's minimum of 50, so that
the tree runs out of nodes at a small table.

## What browsers make of a game

`ClientViews` has no variables either. `PublicGameState` and `PrivateHandFor` project
the engine's state; `OfferedBids`, `ClickableCards` and `ResolveTrickWinner` are the
client's rules on top. Assist (which disables the buttons) and the timers of the
animation are left out.

## Runs

The runs of `Engine` and what is built on it are safety and refinement checks without
fairness: the engine acts only when somebody calls it. `CHECK_DEADLOCK` is off everywhere,
because a game may end, a room may stay as it is, and bounds are used up; that the table
does not stop *before* the end is the invariant `ActorCanMove` and the liveness of
`RoomProgress`.

| run | bounds | shows |
|---|---|---|
| `engine_leavers` | three seats, four devices, one round of two cards, two suits, all ways to deal the six cards, any seat may be renamed or removed at any time | type, voids, cards, auction order, pile order, progress with balanced hands |
| `engine_seat_loss` | as `engine_leavers` | a violation: see below |
| `room_restore` | two rounds (two cards, then one), new games and continued games up to 2 points, restarts of a running game with fewer players, two shuffles, seats lost and reassigned, a server restart possible at every step and one snapshot without a ledger, also after seats were lost | `Engine` implements `Table`; a restart restores exactly the ledger and voids that were there; a ledger marked complete is, also after a restart without a ledger, and what bots conclude from ledger and voids does not contradict the real deal, but for the two cases named above; hand numbers mark hands, in rebuilt ledgers too; the scoresheet adds up and the donkeys are the lowest; a full table never satisfies everybody's bid; a bot in any seat bids and plays what the engine accepts, enumerates the real deal and simulates as the engine does; browsers offer what the engine accepts |
| `rooms_seats` | two browsers, three connections (two tabs of one browser), one bot, three seats, two rooms one after the other, one handler waiting, with `FairSpec` | players and seats of a game never drift apart; the seat on offer is free; who is connected keeps the seat; who was removed stays out; abandoned rooms go |
| `rooms_ghost` | two browsers with one connection each, two rooms, one handler waiting | a violation: see below |
| `recovery` | one tab, two handlers waiting, the room opened once by the user, three faults or changes by others, with `FairSpec` | the browser can prove its seat, in memory and in the snapshot; writes land in order; an exited room is forgotten; memory is never replaced by an older snapshot; a member who lost the connection is answered |
| `resume_tabs` | two tabs, each opened once more, one fault | a violation: see below |
| `room_progress` | two humans, two bots, a table of three, two deals of two cards, one handler waiting, with `FairSpec` | a full pile and an automated turn always have their timer; a timer plays only its own turn; the table never stops |
| `turn_credentials` | two members at two addresses, windows of two and three steps with limits one and two, four steps, three requests | counters are the requests of their window, and no period sees more than two windows' worth; what is cached is alive, the member's own and outlives the entry |
| `turn_unrevoked` | as `turn_credentials` | a violation: see below |
| `voice_negotiation` | two browsers, one fault, four descriptions | at rest, the browsers are connected and a microphone is heard |
| `bot_search` | three seats, two cards each, three shuffles and every deal in which one player holds one of two mixed hands, no seat lost; three personalities and three budgets; a tree of 15 nodes and three descents | bids keep to the floor; playouts are rounds the engine could play; certain chances are certain; a complete search by any personality that thinks ahead (not `bhola`) equals Max-N over all deals, and every card chosen is legal; the tree's counts add up |

Why the bounds are enough: three seats are the fewest for which a removal leaves a table
(the code refuses below two) and for which the leaver can be before, at or behind the
turn, the dealer and the leader. Two cards give a hand that follows another one, so that
the leader changes; two suits of three ranks give voids, trumps and a highest card that
is not a trump. The forbidden bid takes every relation to the largest bid: it is
negative, zero, within range. What a bound could hide for larger tables is covered by the
proofs, which have no bounds. In the rooms, two browsers are a host and a guest; the
second tab is what a seat can be taken over by; the bot is what a seat can be given to,
and with three seats one can be removed. Two rooms are the fewest between which somebody
can move. One waiting handler meets every other message; that two of them do not disturb
each other either is proved for the invariants (`RoomsProofs` has no bound on
`MaxWaiting`).

In `recovery`, two handlers are a join and what overtakes it, and three events are enough
for a lost answer, a crash and a failed write in one history; every mutant of the protocol
is found with at most three. In `room_progress`, two deals are the fewest in which a timer
of the game before can meet the game after. In `turn_credentials` the time is longer than
each window and than the life of a credential, and both limits are reached. In
`voice_negotiation`, four descriptions are two offers that collide with their answers; the
run also passes with five (4.8 million states), which takes too long to repeat often. The
safety properties of these four runs are proved without bounds (`RecoveryProofs`,
`ProgressProofs`, `TurnProofs`, `VoiceProofs`); the runs add liveness and show that the
interesting cases do happen.

### Fairness

- `Rooms`: the end of every wait, the passing of ten minutes, and the sweep. An await of
  Redis ends after four seconds at the latest (`roomPersistence.ts`), one of Cloudflare
  after eight (`iceServers.ts`), and `index.ts` sweeps every minute.
- `Recovery`: timers of the tab fire, a request on a connection that lasts is served and
  answered, every await and every Redis operation ends (withTimeout). Nobody has to open
  the room; faults need not stop by themselves, they are bounded.
- `RoomProgress`: timeouts fire and awaits end. Private assist that is switched on and off
  again sooner than the bot's delay (1.3 s and more) restarts the delay each time; weak
  fairness of `BotFires` assumes that nobody does this for ever.

Nothing is assumed of browsers' users: nobody has to connect, to send, to disconnect or to
finish a game. There is no liveness of the voice chat: offers can collide again and again.

### What the violation runs show

`engine_seat_loss`. `docs/PLAN.md:25-27` says that the dealer's restriction guarantees
that at least one player fails their bid. TLC finds a round in which everybody makes
theirs: after the auction the host removes a disconnected player, the bids that are left
add up to the cards dealt, and nothing looks at the sum again. While no seat changes hands
the promise holds: `SomeoneMissesBidAtFullTable`, in `room_restore`.

`rooms_ghost`. `docs/PLAN.md:160-161` says that abandoned in-progress rooms are collected
after the grace period instead of leaking for ever. `AbandonedGamesGo` states it for the
case that every connection is down, and TLC finds a game that stays: a browser moves from
a lobby to another room; its connection breaks while the handler waits for the release of
the lobby; `markSocketDisconnected` runs; then the handler goes on and seats the socket
that is gone. No disconnect will come for it any more, so its seat counts as connected,
and the sweep never finds the room abandoned (nor can the host remove the player).
`AbandonedRoomsGo` is what holds: a room in which no seat counts as connected goes.

`resume_tabs`. `membershipTokens.ts:26-27` says that rotating on every takeover prevents
the superseded tab from stealing the seat back. The tabs of a browser share the token
record in `localStorage`: a tab whose seat was taken over loses its connection, reconnects,
reads the record again and finds the rotated token there; the server accepts it, and the
seat moves back without anybody asking for it. For two browsers with a record each the
promise holds trivially.

`turn_unrevoked`. `README.md:65-67` says that a live credential is also revoked when its
player leaves. `clearTurnMembership` looks in the cache; a credential that Cloudflare is
just generating is not there yet, is put there when it arrives, and nobody revokes it.
The same holds for a credential whose entry has been swept while it was still live, and
for one of two requests of the same member whose entry the other one overwrote.

### Other observations

Behaviour met while modelling that no run is about. TLC finds the first two within
seconds when `LedgerComplete` and `VoidSuitsSound` are checked in `room_restore` without
their exceptions.

- A ledger with holes is marked complete. `store.ts:82` says that missing history is
  "complete only when no earlier hand was played", and the code looks at the sum of
  `tricksWon`. A hand is played, its winner, the only one so far, is removed, and a snapshot
  without a ledger is restored: the sum is zero and the empty ledger is marked complete,
  although everybody left has played a card.
- A false void is recorded. One player leads, the next discards and the third follows; the
  one who led is removed, and a snapshot without a ledger is restored: the pile begins with
  the discard, whose suit counts as led (`store.ts:77`), and the player who followed is
  recorded void in it for the round while it still has a card of it. Bots then exclude the
  real deal.
- A removed room can be written again: `room:bot-takeover` and `room:remove-seat` persist
  the room object they hold after an await, although `game:exit` may have removed the room
  meanwhile (this is one of the cases that `clean` excludes).
- A join that was loading when `game:exit` deleted the room may install the old snapshot; a
  crash between the deletion in memory and that in Redis keeps it.
- Two tabs that prepare and commit crosswise can leave a record that proves nothing.
- `room:leave` frees the seat after its await even if a newer tab took it meanwhile.
- `projectRemainingBids` moves a bot's own bid, which it has already made, when a seat
  removed since makes it the sum that would have been forbidden.
- `scheduleBotTurn` does not try again after the engine refused a bot's move; that it never
  refuses is `BotMovesAreAccepted`.
- A search that runs out of nodes judges the unfinished round as if it had ended. With fewer
  descents than candidates, an unvisited candidate (utility 0) can be preferred to a visited
  one with negative utility; only tests pass such options.
- `sampleOpponentHands` may fail an attempt with three opponents or more and tries again a
  limited number of times.
- The animation of a table takes a pile for won by comparing lengths, so a removal can sweep
  a hand that nobody won; an update in the 550 ms pause replaces the pile that was to be
  held; the recap of a round is not shown again for a round with the same number after a
  restart.
- A TURN credential served from the cache can expire before its browser refreshes it.
- `isSettingRemoteAnswerPending` stays set when the browser rejects an answer.

## What is proved

### The engine

For all constants that satisfy the named assumptions of `Engine` (seatings without a
device twice and with at least two seats, decks without a card twice and long enough, at
least one trump, at least as many cards in the first round as there are rounds, bids that
are integers and a "no bid yet" that is none):

| theorem | says |
|---|---|
| `TypeCorrect` | `Spec => []TypeOK` |
| `AuctionInOrder` | `Spec => []DealerBidsLast` |
| `PileInSeatOrder` | `Spec => []PileFollowsSeats` |
| `VoidsAreCertain` | `Spec => []VoidSuitsSound` |
| `NoCardTwice` | `Spec => []CardsConserved` |
| `NumbersMarkHands` | `Spec => []HandNumbersMarkHands` |
| `TableNeverStuck` | `Spec => []ActorCanMove` |
| `NothingMissing` | `Spec => []LedgerComplete` |
| `SheetIsScoreboard` | `Spec => []ScoresheetAddsUp` |
| `PromiseToFullTable` | `Spec => SomeoneMissesBidAtFullTable` |
| `EngineKeepsTable` | `Spec => ImplementsTable` |

The inductive invariant is `IInv == TypeOK /\ TableSeated /\ DealerBidsLast /\
PileFollowsSeats /\ NumbersOrdered`. None of its parts is inductive alone: the type of a
table after `replacePlayer` needs that the seat order has no device twice (`TableSeated`),
the seat on turn needs the pile (`PileFollowsSeats`), and the number of a play needs the
order of the ledger (`NumbersOrdered`). There is one lemma per operation
(`PlaceBidInv`, `PlayCardInv`, ...) and `NextInv` puts them together.

The heart is arithmetic: the code takes a seat out of the table *and* out of the bid order
and adjusts numbers, while the invariant says that the bid order is a rotation of the
table. `LeaveRotation` proves that taking a seat out and rotating commute, for any number
of seats; `RemovedTable`, `RemovedBids` and `RemovedPile` apply it to the auction and the
pile. `DealtHands` proves that `dealRound`'s slices are apart. For the
properties of cards the actions are sorted by what they do to cards (deal, play, leave
alone, take away), so that each property needs four arguments instead of eight.

The properties of a round need two more invariants beside `IInv`:

- `LedgerInv` (`PlayersKnown`, `OncePerNumber`, `LastNumberIsPile`, `PileHasLastNumber`)
  ties the ledger to the pile: whoever still sits and played under the last number has a
  card on the table, what lies on the table was played under that number, and nobody
  played twice under one. The code finds the number of a play by looking at the pile and
  the last entry; this is what makes `HandNumbersMarkHands` follow.
- `HandsInv` (`HandsFinite`, `HandsEven`): all seats hold or have on the table the same
  number of cards. `ActorCanMove` needs it: who is to move has a card left because those
  who moved had one.

The sums (`ScoresheetAddsUp`, the bids of a full table) are recursive functions. What such
a function computes is not in reach of an induction theorem here, so it is pinned down by
`RunningTotal`, a sequence of partial sums that exists for every sequence of integers (by
the least index at which it would not); `SumBumped` and `SumAppended` then say what one
more point and one more round do to a sum. The promise to a full table is the invariant
`FullTable`: while nobody has given up a seat, the bids do not add up to the hand size, and
the hands won together with those still held do; if everyone met their bid, both sums
would be equal at the end of the round.

`EngineKeepsTable` says that the engine, with its seat numbers, is an implementation of a
table that has none. It is proved from `IInv`, `HandsInv` and `HandsCounted` (the number of
hands to resolve can be read off any seat), holding before and after a step. One lemma says
for each operation which step of `Table` it is (`BidIsBidNext`, `PlayIsPlayNext`,
`ResolveIsResolve`, `ReplaceIsReplaced`, `RemoveIsRemoved`, ...). Who has still to bid and
who has still to play are parts of rotations of the table; `KeepPart` proves that dropping
a device from such a part, which is all that `Table` does at a removal, gives the part that
the engine's adjusted numbers (`dealerSeat`, `bidTurnIndex`, `turnSeat`) describe. The
theorem is about `Engine`'s `Spec`; `RestoredKeepsTable` below says the same of a game with
restarts between any two steps.

### Restarts

For the same constants, whether or not there are legacy snapshots, and for any number of
restarts:

| theorem | says |
|---|---|
| `RestoringIsInvisible` | `RSpec => []RestoreIsIdentity` |
| `RestoredLedgerComplete` | `RSpec => []LedgerCompleteUnlessWinnerLeft` |
| `RestoredVoids` | `RSpec => []VoidSuitsSoundUnlessLeaderLeft` |
| `RestoredNumbers` | `RSpec => []HandNumbersMarkHands` |
| `RestoredScoresheet` | `RSpec => []ScoresheetAddsUp` |
| `RestoredPromise` | `RSpec => SomeoneMissesBidAtFullTable` |
| `RestoredKeepsTable` | `RSpec => ImplementsTable` |

The invariant `RInv` is everything above (`IInv`, `LedgerInv`, `HandsInv`, the cards, the
sums) with the ledger's and the voids' properties in the form that survives a rebuilt ledger,
and with what only a restart needs. `VoidsRecorded` says that a seat's voids are exactly the
suits somebody led when that seat played another one: what the normalization computes from
the ledger is then what the game had recorded, card by card and through renamed seats.
`CompleteUntilUpgraded` and `NothingYet` say when a snapshot has a ledger at all. That the fold
of the code, which adds a play unless its card is there already, leaves a ledger without
double cards as it is (`FoldKeepsNew`) is proved for folds of any length by way of the table of
partial folds.

Three parts are about snapshots without a ledger, before one is restored, and are as strong as
the code allows. `HandsAccounted`: unless a winner is gone, what every seated player was dealt
is in its hand, on the table, or one of the hands that were won, whoever won them; so that a sum
of zero does mean that no hand was played. `ReplaceKeepsAccounts`, `RemoveKeepsAccounts` and
`ResolveKeepsAccounts` follow that sum through the steps that change it. `PileKeepsLead`: unless
the leader is gone, every card of the pile was played to the suit of its first card, so that the
rebuilt entries are those a ledger would have had, and their voids with them. `NoLossYet`: a
round begins with nothing lost. With them the exceptions in the statements of
`RestoredLedgerComplete` and `RestoredVoids` are the two that TLC finds counterexamples for.

### Browsers and bots

In every state of a game with seat changes and restarts, for any table and deck:

| theorem | says |
|---|---|
| `BrowsersAgree` | `RSpec => []ClientAgreesWithEngine` |
| `BotsAreAccepted` | `RSpec => []BotMovesAreAccepted` |
| `MindsFollowGame` | `RSpec => SimulationFollowsGame` |
| `FloorIsKept` | `RSpec => []BidsKeepTheFloor` |
| `BotsSeeTheTruth` | `RSpec => []BotsPlanOnTheTruthUnlessLeaderLeft` |

No further invariant of the game is needed but `AuctionTurn` (while bids are made, the seat
that bids first is the seat that will lead), and only for `MindsFollowGame`: between the last
bid and the first card nothing changes in the game a bot imagines. What there is to prove is
that rules written several times agree:

- The client adds up bids by seats, a bot over a table of bids, the engine along the bid
  order. `TotalAlongSeats` makes them one sum; `AuctionIsPossible` follows the
  fold of `projectRemainingBids` from bidder to bidder.
- `FloorIsKept` counts trumps: a bot cannot hold more sure winners than there are hands, and
  of any two bids next to each other the restriction forbids at most one.
- `BotsSeeTheTruth`: the two ways of dealing, whole hands (`EnumerateDeals`) and card by
  card with a look ahead (`SampleDeals`), are compared opponent by opponent. After each of
  them both have the same partial deals (`DrawnIsWhole`), all of them good (`GoodDeal`: the
  cards are unseen, the hands have their size, the later opponents still find enough), and
  the real deal so far is one of them (`RealHandIsWhole`). The delicate lemma is `FillIs`:
  drawing card by card reaches every set of cards that leaves enough for the others, as no
  draw before the last can take away what the last one leaves (`PicksGrow`).
  `Holds` is what the game's invariants contribute: what the others hold
  is unseen, disjoint, of the known size and free of their void suits. The last is where the
  exception comes from: false voids, rebuilt from a pile without its leader, exclude the real
  deal.

What is chosen among acceptable moves is left out of the model, so it is left out here.

### Voice

`RestIsConnected` is `Spec => []SettledIsConnected`, for any bounds on faults and
descriptions, assuming that the two sides differ and that "no entry" is not an entry
(`PeersAssumption`). The invariant is `VInv`: types; and for each browser

- `Listed`: the list of players a page shows is right, or the news that will correct it is
  in its inbox;
- `Session`: who is wanted has an entry or will get one, and every entry keeps its
  `Promises` (whatever was not negotiated is marked as needed, a failed connection has a
  timer or a negotiation before it);
- `Awaited`: a browser that waits for an answer waits for something. The other side has the
  offer, in its inbox, among its early signals or in its queue, or makes one itself or has
  started over (`Reaches`), or what ends the waiting has come back already (`Arriving`);

and `LastSaid`: the last signal of a waiting polite side was an offer. At rest all queues
are empty, so that nobody can be waiting, and the promises leave only connected sides. The
work is in the steps that empty an inbox: a connection that breaks loses what was sent, and
the reset that follows must reach the other side behind everything that is outdated.

### The rooms

For any sets of browsers, bots and connections and any limits, assuming that a bot's
device id is not a browser's (`DevicesAssumption`), that every connection is opened by a
browser (`SocketsAssumption`) and that a room has space for at least one player
(`LimitsAssumption`):

| theorem | says |
|---|---|
| `RoomsTyped` | `Spec => []TypeOK` |
| `SeatsMatchTheGame` | `Spec => []SeatsAreGameSeats` |
| `DepartedNeverBack` | `Spec => []DepartedStayOut` |
| `OfferedSeatsAreFree` | `Spec => []OfferedSeatIsFree` |
| `NobodyLosesTheSeat` | `Spec => ConnectedPlayersKeepSeats` |

The inductive invariant is `IInv == RoomsOK(rooms) /\ SocketsOK /\ HandlersOK`.
`RoomsOK` says `RoomInv` of every open room, so that most of the argument is about one
room: there is one lemma per operation on a room (`BackInv`, `ReplacedInv`, ...) and one
per action, which says that a handler applies such operations to rooms that exist.
`RoomShape` is `RoomInv` without "somebody is seated", for the room between the loss of
its last player and its deletion. One part is in no property of the runs and is needed all
the same: a lobby has no seat on offer, or a newcomer to the lobby could be the device
on offer. Of what a waiting handler has read (`others`, `room`, `goal`) the invariant has
only the type, and that its socket is a socket. That is the point: the store's operations
check again after every await, and the proof uses no memory of what was true before it.

### The timers

For any players, bots and table, and any bounds: `ProgressTyped` (`TypeOK`),
`AutomationStaysArmed` (`Spec => []AutomationArmed`) and `TimersPlayTheirTurns`
(`Spec => TimerPlaysItsTurn`). Assumptions: humans are not bots (`DevicesAssumption`), the
seatings of `Table` are seatings (`TableAssumption`), the bounds are numbers
(`BoundsAssumption`), and the value for "no timeout" is not one a pile could have
(`NoTimerAssumption`).

The inductive invariant is `IInv == TableOK /\ TypeOK /\ TimerKnowsItsTurn /\
AutomationArmed`. `TableOK` is what a timer needs of the table: when somebody must act,
there is an actor. `AutomationArmed` is inductive only with it: every handler leaves the
timer as it is due or owes a schedule. `TimerKnowsItsTurn` relates the fingerprint of a
timeout to the turn it was set for. That is the step which is not obvious in the code: the
fingerprint does not name the game. The cards its actor holds tell the hand, and whatever
deals replaces the timer before another turn can come.

### TURN credentials

For any members, addresses, windows and limits, assuming that the cache forgets a credential
before it expires and that no window and no limit is zero (`WindowsAssumption`), and that
"no counter" is not a counter (`NoCounterAssumption`): `CacheIsLive`
(`Spec => []CacheServesLiveCredentials`) and `AllowancesAreKept`
(`Spec => []AllowanceIsKept`).

`CacheInv` is `IssuedTyped /\ CacheTrusted`: what is cached was asked for this member, was
answered, is live, and lives longer than its entry. For the allowances, `Kept` speaks of one
counter of some limit and some window that counts the requests of some addresses; the
counter of an address and the one of the server are instances. A counter that runs has
counted exactly the requests of its window, and the window before it kept the limit
(`WindowKept`); `TwoWindows` concludes that no period of the length of a window, wherever it
begins, gets more than twice the limit. `RefundKeeps` is the delicate case: a request that
the daily limit refuses was already charged to its address and is given back, possibly to a
window that this very request began.

### The restored seat

| theorem | says |
|---|---|
| `RecoveryTyped` | `Spec => []TypeOK` |
| `NoChangeIsUndone` | `Spec => MemoryIsNotUndone` |
| `SavedInOrder` | `Spec => []WritesInOrder` |
| `ExitIsFinal` | `Spec => []ExitedRoomIsForgotten` |
| `SeatCanBeReclaimed` | `Spec => []SeatReclaimable`, for a browser with one tab |

They hold for any number of handlers and of faults; `NothingAssumption` says that the values
that stand for "nothing" are nothing else. The first four have any number of tabs and come
from `RoomInv == Typed /\ ChangesHeld /\ ExitsAreKnown /\ NothingToWrite /\ WritesInOrder /\
Forgetting /\ WakesWaiting`. `NothingToWrite` (nothing is queued for a room that is not in
memory) is what lets a join install what it read without undoing a write, and `Forgetting`
follows the deletion of an exit from its handler through the queue to Redis.

`SeatCanBeReclaimed` adds `TokenInv`: while no operation failed and the room was not exited
(`clean`, as in the property), the record of the browser holds the newest two tokens, the one
join that is awaited carries that record, every hash in memory, in the queue and in Redis is
one of the two (or none, before anything was confirmed), and an answer that has left the
server confirms a write which nothing older follows. It assumes one tab because with two it
is false: they share the record, and one prepares tokens while the other commits (see
"Other observations"; TLC finds it at the bounds of `resume_tabs`).

### Only model-checked

- Liveness, which is out of the prover's reach: `AbandonedRoomsGo`, `TableProgresses`,
  `MembersAreAnswered`.
- What recursive operators compute, which the prover cannot unfold: the playouts and the
  searches of the bots (`PlayoutsArePossibleRounds`, `CertaintiesHold`, `CompleteIsExact`,
  `TreeAddsUp`).

Every other property of a passing run is the statement of a theorem.

## Plan

What could be taken further:

1. `TreeAddsUp` is an invariant of a machine (`Iterate`), only its descent is recursive: with
   the descent as a recursive function it could be proved.
2. Fingerprints and tokens are compared as values: a model of what they are made of would
   show on which fields of the game their equality depends.
3. The passcode gate and the limiter of private assist, as counters with windows like those
   of `TurnCredentials`.

## Not modelled

- Rendering, layout, styles, the wording of messages, sounds, and the timers of the
  animation: they show the state and change none.
- The passcode gate: a password check around a counter that sees one synchronous call at a
  time, before anything else in the system happens; and the limiter of wrong attempts in
  private assist, for the same reason. Cryptography (hashes and signatures) in general.
- The wiring of the server entry point, HTTP headers, packet limits.
- `league.ts`, `compareStrategies.ts`, `qualify.ts`: offline statistics.
- Which of its acceptable moves a bot prefers, and how well it plays.
- Expiry of snapshots, malformed snapshots, profile updates, ICE candidates, audio, and
  rooms of three in the voice chat (connections are pairwise and independent of each
  other, apart from the shared microphone).
