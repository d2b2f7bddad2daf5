----------------------------- MODULE RoomRestore ------------------------------
(***************************************************************************)
(* What a server restart does to a game: the room's snapshot is read back  *)
(* and normalizeRestoredGameState (server/src/rooms/store.ts) rebuilds the *)
(* public ledger and the suit voids instead of trusting them.  Snapshots   *)
(* of a server that did not keep a ledger yet are rebuilt from the pile    *)
(* and from the hands won, which show nothing of who has left: until such  *)
(* a snapshot is restored, plays and voidSuits are what a ledger would     *)
(* have had, and two history variables keep what was lost with a seat.     *)
(***************************************************************************)
EXTENDS EngineTable, SequencesExt

CONSTANT
  LegacySnapshots  \* may a snapshot lack the ledger?

VARIABLES
  upgraded,        \* a snapshot has been restored by this version of the server
  winnerLeft,      \* before that, in this round: a seat that had won a hand was removed
  leaderLeft       \* before that: the seat that led the pile was removed

losses == <<winnerLeft, leaderLeft>>
rvars == <<vars, upgraded, losses>>

\* (mutant) the pile is appended to a ledger that has it.
AddAlways(kept, play) == Append(kept, play)

\* The first entry with each card, then the pile's cards that no entry has.
AddUnseen(kept, play) ==
  IF \E i \in 1..Len(kept) : kept[i].card = play.card THEN kept ELSE Append(kept, play)

CompletedHands == MapThenSumSet(LAMBDA d : tricksWon[d], DOMAIN tricksWon)
PileEntries ==
  [i \in 1..Len(currentTrick) |->
     [handNumber |-> CompletedHands + 1, deviceId |-> currentTrick[i].deviceId,
      card |-> currentTrick[i].card, leadSuit |-> LeadSuit]]

\* (mutant) a rebuilt ledger is taken for complete.
AlwaysComplete == TRUE
LegacyHistoryComplete == CompletedHands = 0

NormalizedPlays(recorded) == FoldLeft(AddUnseen, <<>>, recorded \o PileEntries)

\* The suits the players still seated failed to follow.
DerivedVoids(ps) ==
  [d \in Seated |->
     {ps[i].leadSuit : i \in {j \in 1..Len(ps) :
                                ps[j].deviceId = d /\ ps[j].card.suit # ps[j].leadSuit}}]

RInit == Init /\ upgraded = FALSE /\ winnerLeft = FALSE /\ leaderLeft = FALSE

\* What a step of the game takes from a snapshot without a ledger, until the next deal.
SeatRemoved(d) == Len(seatOrder') < Len(seatOrder) /\ d \in Seated \ Seated'
NoteLosses ==
  /\ winnerLeft' =
       /\ phase' # "bidding"
       /\ \/ winnerLeft
          \/ ~upgraded /\ \E d \in Seated : SeatRemoved(d) /\ tricksWon[d] > 0
  /\ leaderLeft' =
       /\ phase' # "bidding" /\ (upgraded \/ currentTrick' # <<>>)
       /\ \/ leaderLeft
          \/ ~upgraded /\ currentTrick # <<>> /\ SeatRemoved(currentTrick[1].deviceId)

\* A snapshot with a ledger.
RestoreRoom ==
  /\ phase # "none"
  /\ plays' = NormalizedPlays(plays)
  /\ voidSuits' = DerivedVoids(plays')
  /\ upgraded' = TRUE
  /\ winnerLeft' = (upgraded /\ winnerLeft) /\ leaderLeft' = (upgraded /\ leaderLeft)
  /\ UNCHANGED <<phase, round, seating, hands, bidding, tricksWon, currentTrick, turnSeat,
                 historyComplete, sheet, departed>>

\* A snapshot without one: the server that wrote it kept neither a ledger nor voids.
RestoreLegacyRoom ==
  /\ LegacySnapshots /\ ~upgraded /\ phase # "none"
  /\ plays' = NormalizedPlays(<<>>)
  /\ voidSuits' = DerivedVoids(plays')
  /\ historyComplete' = LegacyHistoryComplete
  /\ upgraded' = TRUE
  /\ UNCHANGED <<phase, round, seating, hands, bidding, tricksWon, currentTrick, turnSeat,
                 sheet, departed, losses>>

RNext ==
  \/ Next /\ NoteLosses /\ UNCHANGED upgraded
  \/ RestoreRoom
  \/ RestoreLegacyRoom

RSpec == RInit /\ [][RNext]_rvars
-------------------------------------------------------------------------------
\* Restoring a snapshot gives back the ledger and the voids the game had: a server
\* restart in the middle of a round is invisible to players and bots.
RestoreIsIdentity ==
  /\ NormalizedPlays(plays) = plays
  /\ DerivedVoids(plays) = voidSuits

\* A ledger marked complete is complete for every seat, through restarts and also when
\* it was rebuilt from a snapshot without one, unless a seat that had won a hand of the
\* round was gone by then: tricksWon, which tells whether a hand was played, has lost it.
LedgerCompleteUnlessWinnerLeft == ~(upgraded /\ winnerLeft) => LedgerComplete

\* A player recorded as void holds no card of the suit, through restarts and also when
\* the voids were rebuilt from a pile, unless the seat that led it was gone by then.
VoidSuitsSoundUnlessLeaderLeft == ~(upgraded /\ leaderLeft) => VoidSuitsSound
===============================================================================
