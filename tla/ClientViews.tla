----------------------------- MODULE ClientViews ------------------------------
(***************************************************************************)
(* What the server tells the browsers of a game (toPublicGameState and     *)
(* privateHandFor in server/src/game/publicState.ts) and what a browser    *)
(* makes of it: the bids and cards a player can click (client components/  *)
(* GameTable.tsx) and the hand it sees won (rooms/gameAnimations.ts).      *)
(*                                                                         *)
(* A browser has the rules a second time, and no bid order: it has to find *)
(* out from the dealer's seat whom the restriction is for.  A player whom  *)
(* private assist plays for is offered nothing; that is left out.          *)
(***************************************************************************)
EXTENDS Engine

\* toPublicGameState, as far as the table's controls read it.
PublicGameState ==
  [cardsThisRound |-> HandSize(round), trumpSuit |-> Trump(round), dealerSeat |-> dealerSeat,
   seatOrder |-> seatOrder, phase |-> phase, bids |-> bids, currentTrick |-> currentTrick,
   bidTurnDeviceId |-> IF phase = "bidding" /\ bidTurnIndex < Len(bidOrder)
                       THEN bidOrder[bidTurnIndex + 1] ELSE Null,
   turnDeviceId |-> IF phase = "trick" /\ turnSeat \in 0..(Len(seatOrder) - 1)
                    THEN seatOrder[turnSeat + 1] ELSE Null]

\* privateHandFor
PrivateHandFor(me) ==
  LET myTurn == phase = "trick" /\ turnSeat >= 0 /\ seatOrder[turnSeat + 1] = me
  IN [hand |-> hands[me], legalCards |-> IF myTurn THEN LegalCards(me) ELSE {}]

\* isMyBidTurn, isMyPlayTurn
MyBidTurn(game, me) == game.phase = "bidding" /\ game.bidTurnDeviceId = me
MyPlayTurn(game, me) == game.phase = "trick" /\ game.turnDeviceId = me

SumOfBids(game) ==
  MapThenSumSet(LAMBDA d : IF game.bids[d] = Null THEN 0 ELSE game.bids[d], DOMAIN game.bids)
\* (mutant) the restriction is shown to the last seat of the table.
ForbiddenToLastSeat(game, me) ==
  IF MyBidTurn(game, me) /\ game.seatOrder[Len(game.seatOrder)] = me
  THEN {game.cardsThisRound - SumOfBids(game)} ELSE {}
\* forbiddenBid, or none.
ForbiddenBid(game, me) ==
  IF MyBidTurn(game, me) /\ game.seatOrder[game.dealerSeat + 1] = me
  THEN {game.cardsThisRound - SumOfBids(game)} ELSE {}

\* The buttons from 0 to maxBid that are not disabled.
OfferedBids(game, me) ==
  IF MyBidTurn(game, me) THEN (0..(game.cardsThisRound + 1)) \ ForbiddenBid(game, me) ELSE {}

\* The cards of the hand that are clickable.
ClickableCards(game, private, me) ==
  {card \in private.hand : MyPlayTurn(game, me) /\ card \in private.legalCards}

\* resolveTrickWinner: the first of the strongest cards.
ResolveTrickWinner(trick, trump) ==
  LET Of(suit) == {i \in 1..Len(trick) : trick[i].card.suit = suit}
      pool == IF Of(trump) # {} THEN Of(trump) ELSE Of(trick[1].card.suit)
      strongest == {i \in pool : \A j \in pool : trick[j].card.rank <= trick[i].card.rank}
  IN trick[Min(strongest)].deviceId

-------------------------------------------------------------------------------
\* What the browsers offer together is what the engine accepts: the player it waits for
\* can click every bid (or card) that placeBid (or playCard) would take and no other,
\* nobody else can click anything, and somebody can unless the pile is complete or the
\* game over, whichever seats were removed or reassigned and whenever the server was
\* restarted; and the hand is swept to the player the engine gives it to.
ClientAgreesWithEngine ==
  LET game == PublicGameState
      Bids(d) == OfferedBids(game, d)
      Cards(d) == ClickableCards(game, PrivateHandFor(d), d)
  IN
  /\ \A d \in Seated :
       /\ Bids(d) = {bid \in 0..MaxBid(round) : /\ phase = "bidding"
                                                /\ bidOrder[bidTurnIndex + 1] = d
                                                /\ ~DealerRestricted(d, bid)}
       /\ Cards(d) = {card \in LegalCards(d) : /\ phase = "trick" /\ turnSeat >= 0
                                               /\ seatOrder[turnSeat + 1] = d}
  /\ IF phase \in {"bidding", "trick"} /\ ~IsTrickComplete
     THEN \E d \in Seated : Bids(d) # {} \/ Cards(d) # {}
     ELSE \A d \in Seated : Bids(d) = {} /\ Cards(d) = {}
  /\ IsTrickComplete => ResolveTrickWinner(game.currentTrick, game.trumpSuit) = Winner
===============================================================================
