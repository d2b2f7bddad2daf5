-------------------------------- MODULE MCBots --------------------------------
\* Bots that bid, search and plan, at a small table.
EXTENDS BotSearch, BotPlayouts, BotBids, SmallTables

\* The smallest budget that searchBestCard accepts, which runs out at this table, and a
\* cap of deals that leaves some out; and a budget and a cap of the bots in a room.
Options == {[maxNodes |-> 50, maxEndgameDeals |-> 20],
            [maxNodes |-> 1800, maxEndgameDeals |-> 3],
            [maxNodes |-> 1800, maxEndgameDeals |-> 20]}

\* The three shuffles, and every deal in which d1 holds certain cards of both suits.
HandOf(deck) == {deck[1], deck[2]}
SomeDeals ==
  ThreeShuffles \cup {deck \in PairDeals : HandOf(deck) \in {{SixCards[2], SixCards[6]}, {SixCards[3], SixCards[4]}}}
===============================================================================
