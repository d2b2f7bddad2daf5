----------------------------- MODULE RestoredViews -----------------------------
(***************************************************************************)
(* What bots and browsers make of a game whose server is restarted: their  *)
(* views composed with RoomRestore.                                        *)
(***************************************************************************)
EXTENDS RoomRestore, BotKnowledge, ClientViews

\* The real deal is among the deals a bot thinks possible, and so on: also after
\* restarts, unless the voids it is certain of were rebuilt from a pile whose leader was
\* gone (store.ts:77 takes the next card's suit for the led suit).
BotsPlanOnTheTruthUnlessLeaderLeft == ~(upgraded /\ leaderLeft) => BotsPlanOnTheTruth
===============================================================================
