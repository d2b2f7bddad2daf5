-------------------------------- MODULE Engine --------------------------------
(***************************************************************************)
(* The rules engine of the game, server/src/game/engine.ts: bidding, trick *)
(* play, scoring, the eight rounds of a game, and the two operations that  *)
(* change who sits at the table in the middle of one (replacePlayer and    *)
(* removePlayer).                                                          *)
(*                                                                         *)
(* Seats are numbered from 0, as in the code: seat s of the table is       *)
(* seatOrder[s + 1].  A hand is a set of cards (its order is only layout). *)
(* cardsThisRound and trumpSuit are functions of the round number.         *)
(***************************************************************************)
EXTENDS Integers, Sequences, FiniteSets, FiniteSetsExt

CONSTANTS
  Devices,        \* the device ids that can hold a seat
  SeatOrders,     \* the orders in which a room can seat its players
  Leavers,        \* the devices whose seat the host may remove or reassign
  TrumpRotation,  \* TRUMP_ROTATION, a sequence of distinct suits
  Ranks,          \* the strengths of the ranks (rankValue)
  Decks,          \* the orders shuffle(createDeck()) can leave the deck in
  Rounds,         \* rounds in a game: 8
  MaxHand,        \* cards per player in round 1: 8
  BidInput,       \* the integers a client may send as a bid
  MaxScore,       \* bound: a game is continued only up to this score
  Null            \* no bid yet

Suits == {TrumpRotation[i] : i \in 1..Len(TrumpRotation)}
Card == [suit : Suits, rank : Ranks]

SeatsOf(order) == {order[i] : i \in 1..Len(order)}
IsSeating(order) ==
  /\ order \in Seq(Devices)
  /\ Len(order) >= 2
  /\ \A i, j \in 1..Len(order) : order[i] = order[j] => i = j

ASSUME TrumpsAssumption ==
  /\ TrumpRotation \in Seq(STRING)
  /\ Len(TrumpRotation) > 0
ASSUME RanksAssumption == Ranks \subseteq 0..12
ASSUME RoundsAssumption == Rounds \in Nat \ {0} /\ MaxHand \in Nat /\ Rounds <= MaxHand
ASSUME SeatsAssumption == \A order \in SeatOrders : IsSeating(order)
ASSUME DecksAssumption ==
  \A deck \in Decks :
    /\ deck \in Seq(Card)
    /\ \A i, j \in 1..Len(deck) : deck[i] = deck[j] => i = j
    /\ \A order \in SeatOrders : Len(order) * MaxHand <= Len(deck)
ASSUME BidsAssumption == BidInput \subseteq Int /\ Null \notin Int /\ MaxScore \in Nat

VARIABLES
  phase,         \* "none" while room.game is null
  round, dealerSeat,
  seatOrder, bidOrder,
  hands, bids, bidTurnIndex, tricksWon,
  currentTrick, turnSeat,
  plays, historyComplete,  \* playHistory: the public ledger of the round
  voidSuits,
  scores, roundHistory, donkeys,
  departed,      \* kickedDeviceIds: who gave up a seat never takes another
  carried        \* history variable: the scores this game of Rounds rounds began with

seating == <<seatOrder, bidOrder, dealerSeat>>
bidding == <<bids, bidTurnIndex>>
ledger == <<plays, historyComplete, voidSuits>>
sheet == <<scores, roundHistory, donkeys, carried>>
vars == <<phase, round, seating, hands, bidding, tricksWon, currentTrick, turnSeat,
          ledger, sheet, departed>>

Seated == SeatsOf(seatOrder)
HandSize(r) == MaxHand + 1 - r
Trump(r) == TrumpRotation[((r - 1) % Len(TrumpRotation)) + 1]
MaxBid(r) == HandSize(r) + 1

\* indexOf and the modular rotation of a seat order.
SeatOf(order, d) == (CHOOSE i \in 1..Len(order) : order[i] = d) - 1
OrderFrom(order, from) ==
  [i \in 1..Len(order) |-> order[((from + i - 1) % Len(order)) + 1]]

\* filter((id) => id !== d) on a sequence in which d occurs at most once.
Without(s, at) == [i \in 1..(Len(s) - 1) |-> IF i < at THEN s[i] ELSE s[i + 1]]
Leave(order, d) == IF d \in SeatsOf(order) THEN Without(order, SeatOf(order, d) + 1) ELSE order
Rename(d, from, to) == IF d = from THEN to ELSE d
RenamePlays(s, from, to) == [i \in 1..Len(s) |-> [s[i] EXCEPT !.deviceId = Rename(@, from, to)]]
\* (mutant) the old key stays in the record.
CopyKey(f, from, to) == [d \in DOMAIN f \cup {to} |-> IF d = to THEN f[from] ELSE f[d]]
RenameKey(f, from, to) ==
  [d \in (DOMAIN f \ {from}) \cup {to} |-> IF d = to THEN f[from] ELSE f[d]]
RemoveKey(f, d) == [e \in DOMAIN f \ {d} |-> f[e]]

\* reduce((sum, x) => sum + x, 0)
SumOf(s) ==
  LET total[i \in 0..Len(s)] == IF i = 0 THEN 0 ELSE total[i - 1] + s[i]
  IN total[Len(s)]

\* (mutant) slices that begin one card apart.
DealOverlapping(order, r, dealer, deck) ==
  LET First(d) == SeatOf(OrderFrom(order, dealer + 1), d)
  IN [d \in SeatsOf(order) |-> {deck[j] : j \in (First(d) + 1)..(First(d) + HandSize(r))}]

\* dealRound: the shuffled deck is cut into one slice per player, in bidding order.
DealRound(order, r, dealer, deck) ==
  LET First(d) == SeatOf(OrderFrom(order, dealer + 1), d) * HandSize(r)
  IN [d \in SeatsOf(order) |-> {deck[j] : j \in (First(d) + 1)..(First(d) + HandSize(r))}]

Lowest(table) == {d \in DOMAIN table : \A e \in DOMAIN table : table[d] <= table[e]}

-------------------------------------------------------------------------------
Init ==
  /\ phase = "none" /\ round = 1 /\ dealerSeat = 0
  /\ seatOrder = <<>> /\ bidOrder = <<>>
  /\ hands = <<>> /\ bids = <<>> /\ bidTurnIndex = 0 /\ tricksWon = <<>>
  /\ currentTrick = <<>> /\ turnSeat = 0
  /\ plays = <<>> /\ historyComplete = TRUE /\ voidSuits = <<>>
  /\ scores = <<>> /\ roundHistory = <<>> /\ donkeys = {} /\ carried = <<>>
  /\ departed = {}

\* buildRound: everything but the scores and the sheet, which its callers set.
BuildRound(order, r, dealer) ==
  LET players == SeatsOf(order) IN
  /\ phase' = "bidding"
  /\ round' = r
  /\ dealerSeat' = dealer
  /\ seatOrder' = order
  /\ bidOrder' = OrderFrom(order, dealer + 1)
  /\ \E deck \in Decks : hands' = DealRound(order, r, dealer, deck)
  /\ bids' = [d \in players |-> Null]
  /\ bidTurnIndex' = 0
  /\ tricksWon' = [d \in players |-> 0]
  /\ currentTrick' = <<>>
  /\ plays' = <<>>
  /\ historyComplete' = TRUE
  /\ voidSuits' = [d \in players |-> {}]
  /\ turnSeat' = (dealer + 1) % Len(order)
  /\ donkeys' = {}

\* startGame, as startRoom calls it: also while a game is being played, with the
\* players who are still connected.
StartGame(order) ==
  /\ SeatsOf(order) \cap departed = {}
  /\ phase # "none" =>
       /\ SeatsOf(order) \subseteq Seated
       /\ \A i, j \in 1..Len(order) :
            i < j => SeatOf(seatOrder, order[i]) < SeatOf(seatOrder, order[j])
  /\ BuildRound(order, 1, 0)
  /\ scores' = [d \in SeatsOf(order) |-> 0]
  /\ carried' = scores'
  /\ roundHistory' = <<>>
  /\ UNCHANGED departed

-------------------------------------------------------------------------------
\* placeBid.  The bids of the others count 0 while they are missing.
OthersSum(d) ==
  SumOf([i \in 1..Len(seatOrder) |->
           IF seatOrder[i] = d \/ bids[seatOrder[i]] = Null THEN 0 ELSE bids[seatOrder[i]]])
\* (mutants) every bid from the forbidden one up is refused; and off by one seat.
DealerCapped(d, bid) ==
  bidTurnIndex = Len(bidOrder) - 1 /\ bid >= HandSize(round) - OthersSum(d)
DealerOffByOne(d, bid) ==
  bidTurnIndex = Len(bidOrder) /\ bid = HandSize(round) - OthersSum(d)

DealerRestricted(d, bid) ==
  bidTurnIndex = Len(bidOrder) - 1 /\ bid = HandSize(round) - OthersSum(d)

PlaceBid(d, bid) ==
  /\ phase = "bidding"
  /\ bidOrder[bidTurnIndex + 1] = d
  /\ bid \in 0..MaxBid(round)
  /\ ~DealerRestricted(d, bid)
  /\ bids' = [bids EXCEPT ![d] = bid]
  /\ bidTurnIndex' = bidTurnIndex + 1
  /\ IF bidTurnIndex + 1 >= Len(bidOrder)
     THEN phase' = "trick" /\ turnSeat' = SeatOf(seatOrder, bidOrder[1])
     ELSE UNCHANGED <<phase, turnSeat>>
  /\ UNCHANGED <<round, seating, hands, tricksWon, currentTrick, ledger, sheet, departed>>

-------------------------------------------------------------------------------
LeadSuit == currentTrick[1].card.suit
\* (mutant) nobody has to follow suit.
WholeHandLegal(d) == hands[d]

LegalCards(d) ==
  LET following == {c \in hands[d] : c.suit = LeadSuit} IN
  IF phase # "trick" \/ currentTrick = <<>> \/ following = {} THEN hands[d] ELSE following

\* (mutant) numbers counted from the hands won by who is still seated.
HandNumberFromTricks == MapThenSumSet(LAMBDA d : tricksWon[d], Seated) + 1

\* The number a play gets in the ledger: that of the pile it joins, or one more
\* than any number recorded in this round.
HandNumber ==
  IF currentTrick # <<>> THEN IF plays = <<>> THEN 1 ELSE plays[Len(plays)].handNumber
  ELSE Max({plays[i].handNumber : i \in 1..Len(plays)} \cup {0}) + 1

PlayCard(d, card) ==
  LET lead == IF currentTrick = <<>> THEN card.suit ELSE LeadSuit IN
  /\ phase = "trick"
  /\ turnSeat >= 0 /\ seatOrder[turnSeat + 1] = d
  /\ card \in LegalCards(d)
  /\ hands' = [hands EXCEPT ![d] = @ \ {card}]
  /\ currentTrick' = Append(currentTrick, [deviceId |-> d, card |-> card])
  /\ plays' = Append(plays, [handNumber |-> HandNumber, deviceId |-> d,
                             card |-> card, leadSuit |-> lead])
  /\ voidSuits' = IF card.suit = lead THEN voidSuits
                  ELSE [voidSuits EXCEPT ![d] = @ \cup {lead}]
  /\ turnSeat' = IF Len(currentTrick) + 1 < Len(seatOrder)
                 THEN (turnSeat + 1) % Len(seatOrder) ELSE -1
  /\ UNCHANGED <<phase, round, seating, bidding, tricksWon, historyComplete, sheet, departed>>

IsTrickComplete == phase = "trick" /\ Len(currentTrick) = Len(seatOrder)

\* resolveTrick: the position in the pile of the highest trump, or of the highest
\* card of the led suit when nobody trumped.
Winner ==
  LET InPile(s) == {i \in 1..Len(currentTrick) : currentTrick[i].card.suit = s}
      pool == IF InPile(Trump(round)) # {} THEN InPile(Trump(round)) ELSE InPile(LeadSuit)
      best == CHOOSE i \in pool :
                \A j \in pool : currentTrick[j].card.rank <= currentTrick[i].card.rank
  IN currentTrick[best].deviceId

RoundScore(bid, tricks) == IF bid = tricks THEN (bid + 1) * 10 + bid ELSE bid
Bid(d) == IF bids[d] = Null THEN 0 ELSE bids[d]

\* finishRound, with the tricks won including the hand just resolved.
FinishRound(tricks) ==
  LET results == [d \in Seated |-> [bid |-> Bid(d), tricksWon |-> tricks[d],
                                    roundScore |-> RoundScore(Bid(d), tricks[d])]]
  IN
  /\ scores' = [d \in Seated |-> scores[d] + results[d].roundScore]
  /\ roundHistory' = Append(roundHistory, results)
  /\ UNCHANGED <<carried, departed>>
  /\ IF round >= Rounds
     THEN /\ phase' = "game-end"
          /\ donkeys' = Lowest(scores')
          /\ tricksWon' = tricks
          /\ currentTrick' = <<>>
          /\ turnSeat' = SeatOf(seatOrder, Winner)
          /\ UNCHANGED <<round, seating, hands, bidding, ledger>>
     ELSE BuildRound(seatOrder, round + 1, (dealerSeat + 1) % Len(seatOrder))

ResolvePendingTrick ==
  LET tricks == [tricksWon EXCEPT ![Winner] = @ + 1] IN
  /\ IsTrickComplete
  /\ IF \A d \in DOMAIN hands : hands[d] = {}
     THEN FinishRound(tricks)
     ELSE /\ tricksWon' = tricks
          /\ currentTrick' = <<>>
          /\ turnSeat' = SeatOf(seatOrder, Winner)
          /\ UNCHANGED <<phase, round, seating, hands, bidding, ledger, sheet, departed>>

-------------------------------------------------------------------------------
\* newGame and continueGame; store.ts calls both at the end of a game only.
NewGame ==
  /\ phase = "game-end"
  /\ BuildRound(seatOrder, 1, 0)
  /\ scores' = [d \in Seated |-> 0]
  /\ carried' = scores'
  /\ roundHistory' = <<>>
  /\ UNCHANGED departed

\* (mutant) the scoresheet of the game before is kept.
ContinueWithOldSheet ==
  /\ phase = "game-end"
  /\ \A d \in Seated : scores[d] <= MaxScore
  /\ BuildRound(seatOrder, 1, (dealerSeat + 1) % Len(seatOrder))
  /\ carried' = scores
  /\ UNCHANGED <<scores, roundHistory, departed>>

ContinueGame ==
  /\ phase = "game-end"
  /\ \A d \in Seated : scores[d] <= MaxScore
  /\ BuildRound(seatOrder, 1, (dealerSeat + 1) % Len(seatOrder))
  /\ carried' = scores
  /\ roundHistory' = <<>>
  /\ UNCHANGED <<scores, departed>>

-------------------------------------------------------------------------------
\* replacePlayer: the seat, its cards, bid, hands won, score and history pass to
\* the device `to` under its own name.
ReplacePlayer(from, to) ==
  LET RenamedOrder(s) == [i \in 1..Len(s) |-> Rename(s[i], from, to)] IN
  /\ from \in Seated /\ to \notin Seated
  /\ seatOrder' = RenamedOrder(seatOrder)
  /\ bidOrder' = RenamedOrder(bidOrder)
  /\ hands' = RenameKey(hands, from, to)
  /\ bids' = RenameKey(bids, from, to)
  /\ tricksWon' = RenameKey(tricksWon, from, to)
  /\ currentTrick' = RenamePlays(currentTrick, from, to)
  /\ plays' = RenamePlays(plays, from, to)
  /\ voidSuits' = RenameKey(voidSuits, from, to)
  /\ scores' = RenameKey(scores, from, to)
  /\ carried' = RenameKey(carried, from, to)
  /\ roundHistory' = [i \in 1..Len(roundHistory) |-> RenameKey(roundHistory[i], from, to)]
  /\ donkeys' = {Rename(d, from, to) : d \in donkeys}
  /\ departed' = departed \cup {from}
  /\ UNCHANGED <<phase, round, dealerSeat, bidTurnIndex, turnSeat, historyComplete>>

\* (mutant) the turn stays at its seat number.
TurnKeepsNumber(d, gone) == turnSeat % Len(seatOrder')

\* What removePlayer does to whose turn it is, by phase.  Primed seat orders are
\* those without the departed seat `gone`.
TurnPassesTo(d, gone) ==
  LET n == Len(seatOrder)
      next == seatOrder[((gone + 1) % n) + 1]
      stays == turnSeat >= 0 /\ seatOrder[turnSeat + 1] # d
  IN SeatOf(seatOrder', IF stays THEN seatOrder[turnSeat + 1] ELSE next)

\* (mutant) the dealer keeps its seat number.
DealerKeepsNumber(gone) == dealerSeat % Len(seatOrder')

DealerSeatWithout(gone) ==
  IF gone < dealerSeat THEN dealerSeat - 1
  ELSE IF gone = dealerSeat THEN (gone - 1 + Len(seatOrder')) % Len(seatOrder')
  ELSE dealerSeat

\* A game that has ended is judged again; before that nobody is a donkey.
DonkeysWithout(d) == IF phase = "game-end" THEN Lowest(scores') ELSE donkeys \ {d}

RemoveWhileBidding(d, gone) ==
  LET pending == {i \in 1..Len(bidOrder') : bids'[bidOrder'[i]] = Null} IN
  /\ phase = "bidding"
  /\ IF pending = {}
     THEN /\ phase' = "trick"
          /\ bidTurnIndex' = Len(bidOrder')
          /\ turnSeat' = SeatOf(seatOrder', bidOrder'[1])
     ELSE /\ phase' = phase
          /\ bidTurnIndex' = Min(pending) - 1
          /\ turnSeat' = IF seatOrder[turnSeat + 1] = d THEN gone % Len(seatOrder')
                         ELSE SeatOf(seatOrder', seatOrder[turnSeat + 1])

RemoveWhilePlaying(d, gone) ==
  /\ phase = "trick"
  /\ turnSeat' = IF Len(currentTrick') = Len(seatOrder') THEN -1 ELSE TurnPassesTo(d, gone)
  /\ UNCHANGED <<phase, bidTurnIndex>>

RemoveAtGameEnd ==
  /\ phase = "game-end"
  /\ UNCHANGED <<phase, bidTurnIndex, turnSeat>>

\* removePlayer: the seat closes up and its cards, those in the pile included, are
\* discarded; the ledger keeps what it has recorded.
RemovePlayer(d) ==
  LET gone == SeatOf(seatOrder, d)
      inPile == {i \in 1..Len(currentTrick) : currentTrick[i].deviceId = d}
  IN
  /\ d \in Seated /\ Len(seatOrder) > 2
  /\ seatOrder' = Leave(seatOrder, d)
  /\ bidOrder' = Leave(bidOrder, d)
  /\ bids' = RemoveKey(bids, d)
  /\ currentTrick' = IF inPile = {} THEN currentTrick ELSE Without(currentTrick, Min(inPile))
  /\ dealerSeat' = DealerSeatWithout(gone)
  /\ hands' = RemoveKey(hands, d)
  /\ tricksWon' = RemoveKey(tricksWon, d)
  /\ voidSuits' = RemoveKey(voidSuits, d)
  /\ scores' = RemoveKey(scores, d)
  /\ carried' = RemoveKey(carried, d)
  /\ roundHistory' = [i \in 1..Len(roundHistory) |-> RemoveKey(roundHistory[i], d)]
  /\ donkeys' = DonkeysWithout(d)
  /\ departed' = departed \cup {d}
  /\ RemoveWhileBidding(d, gone) \/ RemoveWhilePlaying(d, gone) \/ RemoveAtGameEnd
  /\ UNCHANGED <<round, plays, historyComplete>>

-------------------------------------------------------------------------------
\* What the players do, what the host does with seats, and what it does with games.
Play ==
  \/ \E d \in Seated, bid \in BidInput : PlaceBid(d, bid)
  \/ \E d \in Seated : \E card \in hands[d] : PlayCard(d, card)
  \/ ResolvePendingTrick
SeatChange ==
  \/ \E from \in Leavers, to \in Devices \ departed : ReplacePlayer(from, to)
  \/ \E d \in Leavers : RemovePlayer(d)
Session ==
  \/ \E order \in SeatOrders : StartGame(order)
  \/ NewGame
  \/ ContinueGame

Next == Play \/ SeatChange \/ Session

\* A single game, and a room that plays games without end.
OneGameSpec == Init /\ [][Play \/ SeatChange \/ (phase = "none" /\ Session)]_vars
Spec == Init /\ [][Next]_vars

-------------------------------------------------------------------------------
(* Properties.                                                             *)

PlayedCard == [deviceId : Devices, card : Card]
LedgerEntry == [handNumber : Nat, deviceId : Devices, card : Card, leadSuit : Suits]
Result == [bid : Int, tricksWon : Nat, roundScore : Int]

\* Type invariant.  Every per-player table has exactly the seated players as keys.
TypeOK ==
  /\ phase \in {"none", "bidding", "trick", "game-end"}
  /\ round \in 1..Rounds
  /\ seatOrder \in Seq(Devices) /\ bidOrder \in Seq(Devices)
  /\ Len(bidOrder) = Len(seatOrder)
  /\ dealerSeat \in Nat
  /\ hands \in [Seated -> SUBSET Card]
  /\ bids \in [Seated -> Int \cup {Null}]
  /\ bidTurnIndex \in Nat
  /\ tricksWon \in [Seated -> Nat]
  /\ currentTrick \in Seq(PlayedCard)
  /\ turnSeat \in Int
  /\ plays \in Seq(LedgerEntry) /\ historyComplete \in BOOLEAN
  /\ voidSuits \in [Seated -> SUBSET Suits]
  /\ scores \in [Seated -> Int] /\ carried \in [Seated -> Int]
  /\ roundHistory \in Seq([Seated -> Result])
  /\ donkeys \subseteq Seated
  /\ departed \subseteq Devices

\* A player recorded as void in a suit (playCard 235-239) holds no card of it,
\* whoever took over or left a seat since: the bots plan on voidSuits as certain.
VoidSuitsSound ==
  \A d \in Seated : \A c \in hands[d] : c.suit \notin voidSuits[d]

\* No card is in two places: two hands, a hand and the ledger of the round, or
\* twice in the ledger; and the pile on the table is in the ledger.
CardsConserved ==
  /\ \A d, e \in Seated : d # e => hands[d] \cap hands[e] = {}
  /\ \A i \in 1..Len(plays) : \A d \in Seated : plays[i].card \notin hands[d]
  /\ \A i, j \in 1..Len(plays) : plays[i].card = plays[j].card => i = j
  /\ \A i \in 1..Len(currentTrick) : \E j \in 1..Len(plays) :
       /\ plays[j].deviceId = currentTrick[i].deviceId
       /\ plays[j].card = currentTrick[i].card

\* The dealer bids last and the player on its left first, and exactly the first
\* bidTurnIndex of the bid order have bid, also after seats were removed or
\* reassigned during the auction (removePlayer 359-377).
DealerBidsLast ==
  phase # "none" =>
    /\ dealerSeat \in 0..(Len(seatOrder) - 1)
    /\ bidOrder = OrderFrom(seatOrder, dealerSeat + 1)
    /\ \A i \in 1..Len(bidOrder) : bids[bidOrder[i]] # Null <=> i <= bidTurnIndex

\* The pile is what the seats from its leader on have played, one card each in seat
\* order, and the turn is the next seat's, or nobody's when the pile is full: so
\* nobody plays twice to a hand or is passed over, whichever seats were removed or
\* reassigned while it lay on the table (playCard 243-254, removePlayer 380-391).
PileFollowsSeats ==
  LET n == Len(seatOrder)
      k == Len(currentTrick)
  IN phase = "trick" => \E leader \in 0..(n - 1) :
       /\ k <= n
       /\ \A i \in 1..k : currentTrick[i].deviceId = OrderFrom(seatOrder, leader)[i]
       /\ turnSeat = IF k < n THEN (leader + k) % n ELSE -1

\* Whoever is to move has a legal move, so the table can only stop at the end of a
\* game: the dealer's restriction (142-149) never leaves it without a bid, and the
\* hands run out together, which is how resolvePendingTrick (268) knows that a round
\* is over: who has played to the pile holds one card less than who has not.
ActorCanMove ==
  LET Played(d) == \E i \in 1..Len(currentTrick) : currentTrick[i].deviceId = d
      Held(d) == Cardinality(hands[d]) + (IF Played(d) THEN 1 ELSE 0)
  IN
  /\ phase = "bidding" => \E bid \in 0..MaxBid(round) :
                            ~DealerRestricted(bidOrder[bidTurnIndex + 1], bid)
  /\ phase = "trick" => \A d, e \in Seated : Held(d) = Held(e)
  /\ phase = "trick" /\ ~IsTrickComplete => LegalCards(seatOrder[turnSeat + 1]) # {}

\* In the ledger a hand number marks one hand: numbers never decrease, nobody
\* plays twice under one number, and the pile carries the last number.  playCard
\* 218-226 numbers from the ledger because tricksWon loses entries.
HandNumbersMarkHands ==
  /\ \A i, j \in 1..Len(plays) : i < j =>
       /\ plays[i].handNumber <= plays[j].handNumber
       /\ plays[i].deviceId = plays[j].deviceId => plays[i].handNumber < plays[j].handNumber
  /\ \A i \in 1..Len(currentTrick) : \E j \in 1..Len(plays) :
       /\ plays[j].card = currentTrick[i].card
       /\ plays[j].handNumber = plays[Len(plays)].handNumber

\* A ledger marked complete is complete for every seat: what a seated player was
\* dealt is in its hand or in the ledger under its name, also after the seat
\* changed hands.
LedgerComplete ==
  historyComplete => \A d \in Seated :
    Cardinality(hands[d]) + Cardinality({i \in 1..Len(plays) : plays[i].deviceId = d})
      = HandSize(round)

\* The scoreboard is what the game began with plus the rows of the scoresheet,
\* for whoever holds the seat now (finishRound 177-186, renameSummary,
\* removeFromSummary), and at the end of a game the donkeys are the seated players
\* with the lowest score, also after a seat was removed (394-400).
ScoresheetAddsUp ==
  /\ \A d \in Seated :
       scores[d] = carried[d] +
         SumOf([i \in 1..Len(roundHistory) |-> roundHistory[i][d].roundScore])
  /\ phase = "game-end" =>
       /\ donkeys # {}
       /\ \A d \in Seated : d \in donkeys <=> \A e \in Seated : scores[d] <= scores[e]

\* "guarantees at least one player fails their bid" (docs/PLAN.md:25-27): when a
\* round ends, some player has not won the number of hands it bid.  Removing a seat
\* after the auction takes its bid out of the sum, so the code does not keep this.
RoundEnds == Len(roundHistory') > Len(roundHistory)
LastResults == roundHistory'[Len(roundHistory')]
SomeoneMissesBid ==
  [][RoundEnds => \E d \in DOMAIN LastResults : LastResults[d].bid # LastResults[d].tricksWon]_vars

\* The same promise while every seat of the table is still held by who took it: the
\* dealer's restriction (placeBid 139-146) keeps it through every round and game.
SomeoneMissesBidAtFullTable ==
  [][RoundEnds /\ departed = {} =>
       \E d \in DOMAIN LastResults : LastResults[d].bid # LastResults[d].tricksWon]_vars
===============================================================================
