----------------------------- MODULE EngineTable ------------------------------
(***************************************************************************)
(* Engine implements Table: the mapping from a game state to what is still *)
(* owed by whom.                                                           *)
(***************************************************************************)
EXTENDS Engine

\* Hands still to be resolved: the cards of a player who has not played to the
\* pile, or, when the pile is full, one more than what is left in any hand.
HandsToResolve ==
  IF phase \in {"none", "game-end"} THEN 0
  ELSE Max({Cardinality(hands[d]) : d \in Seated})
         + (IF IsTrickComplete THEN 1 ELSE 0)

OnTable == INSTANCE Table WITH
  stage <- phase,
  seats <- seatOrder,
  dealer <- IF phase = "none" THEN "nobody" ELSE seatOrder[dealerSeat + 1],
  rnd <- round,
  toBid <- IF phase = "bidding" THEN SubSeq(bidOrder, bidTurnIndex + 1, Len(bidOrder)) ELSE <<>>,
  toPlay <- IF phase = "trick" /\ turnSeat >= 0
            THEN SubSeq(OrderFrom(seatOrder, turnSeat), 1, Len(seatOrder) - Len(currentTrick))
            ELSE <<>>,
  handsLeft <- HandsToResolve

\* The engine keeps the promises of Table: every seat bids once with the dealer
\* last, every seat plays once per hand in table order after the winner of the
\* last hand, and players who leave or are replaced change nothing else.
ImplementsTable == OnTable!TSpec
===============================================================================
