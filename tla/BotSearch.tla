------------------------------ MODULE BotSearch -------------------------------
(***************************************************************************)
(* How a bot searches for a card (server/src/bots/search.ts) and when it   *)
(* trusts the result (chooseCard in strategy.ts).  The last two hands of a *)
(* round are searched to the end, with a budget of nodes, for the deals    *)
(* that are possible; with more cards a tree is grown, one path at a time. *)
(*                                                                         *)
(* The deals are all taken to be equally likely (bidWeight is heuristics), *)
(* and so are left out the formula that prefers one visited card to        *)
(* another in the tree, and which card the heuristics without search take. *)
(***************************************************************************)
EXTENDS BotKnowledge

CONSTANTS
  Kinds,           \* the personalities: bhola, hisaabi, shaitaan, ustaad
  SearchOptions,   \* what cardSearchOptions gives them, maxNodes and maxEndgameDeals
  TreeNodes,       \* bound: maxNodes of the tree
  TreeIterations   \* bound: maxIterations of the tree

VARIABLES
  searching,    \* searchIsmcts runs
  tree,         \* the nodes, by the plays that lead to them
  iterations,
  remaining     \* what is left of maxNodes

treeVars == <<searching, tree, iterations, remaining>>
bvars == <<vars, treeVars>>

\* Cards are ordered by their ids; any order would do.
CardBefore(c, e) ==
  \/ c.suit = e.suit /\ c.rank < e.rank
  \/ \E i, j \in 1..Len(TrumpRotation) :
       i < j /\ TrumpRotation[i] = c.suit /\ TrumpRotation[j] = e.suit
InOrder(cards) == SetToSortSeq(cards, CardBefore)

-------------------------------------------------------------------------------
\* outcomeFor, in units of 1 / (100 * players): the utility of a round that ends so.
OutcomeFor(state, view, kind) ==
  LET n == Len(view.seatOrder)
      seats == SeatsOf(view.seatOrder)
      final == [d \in seats |-> FinalScore(state, view, d)]
      sum == MapThenSumSet(LAMBDA d : final[d], seats)
      Distance(d) == Max({view.bids[d], state.won[d]}) - Min({view.bids[d], state.won[d]})
      exact == [d \in seats |-> view.bids[d] = state.won[d]]
      Ahead(d, e) == \/ view.scores[d] > view.scores[e]
                     \/ view.scores[d] = view.scores[e] /\ view.bids[d] > view.bids[e]
      target == Head(SetToSortSeq(seats \ {view.botId}, LAMBDA d, e :
                  Ahead(d, e) \/ (~Ahead(e, d) /\ SeatOf(view.seatOrder, d) < SeatOf(view.seatOrder, e))))
      spite == IF exact[target] THEN IF exact[view.botId] THEN -3 ELSE 0
               ELSE IF exact[view.botId] THEN 8 ELSE 3
      Utility(d) ==
        100 * n * (ImaginedRoundScore(view.bids[d], state.won[d]) - 7 * Distance(d)
                   + (IF final[d] = Max({final[e] : e \in seats}) THEN 4 ELSE 0)
                   - (IF final[d] = Min({final[e] : e \in seats}) THEN 8 ELSE 0)
                   + (IF kind = "shaitaan" /\ d = view.botId THEN spite ELSE 0))
        + 6 * (n * final[d] - sum)
  IN [utility |-> [d \in seats |-> Utility(d)], won |-> state.won, exact |-> exact]

\* rolloutChoice: the card played beyond the tree, by need of hands.
RolloutChoice(d, state, view) ==
  LET Power(c) == c.rank + (IF c.suit = view.trump THEN 20 ELSE 0)
      Weaker(c, e) == Power(c) < Power(e) \/ (Power(c) = Power(e) /\ CardBefore(c, e))
      legal == LegalFrom(state.hands[d], state.trick)
      Ascending(cards) == SetToSortSeq(cards, Weaker)
      winning == {c \in legal : TrickWinner(Append(state.trick, [deviceId |-> d, card |-> c]), view.trump) = d}
      losing == legal \ winning
      needed == view.bids[d] - state.won[d]
      left == Cardinality(state.hands[d])
      wanted == needed > 0 /\ needed <= left /\ 2 * needed >= left
      possible == needed > 0 /\ needed <= left
      plain == {c \in legal : c.suit # view.trump}
  IN IF state.trick # <<>>
     THEN IF winning # {} /\ (wanted \/ losing = {}) THEN Head(Ascending(winning))
          ELSE Last(Ascending(losing))
     ELSE IF wanted THEN Last(Ascending(legal))
     ELSE Head(Ascending(IF possible /\ plain # {} THEN plain ELSE legal))

\* finishByRollout: the state it comes to, and the nodes it leaves.
RECURSIVE FinishByRollout(_, _, _)
FinishByRollout(state, view, nodes) ==
  LET d == view.seatOrder[state.turnSeat + 1] IN
  IF Terminal(state) \/ nodes = 0 \/ state.hands[d] = {} THEN [state |-> state, nodes |-> nodes]
  ELSE FinishByRollout(PlayInto(state, d, RolloutChoice(d, state, view), view), view, nodes - 1)

\* stateKey
StateKey(state) == <<state.turnSeat, state.hands, state.trick, state.won>>

\* What is taken for the outcome when no node is left: the rollout stops at once too, and
\* the unfinished round is judged as it is.  (The first is a mutant: it passes for solved.)
CutOffUnnoticed(state, view, kind, nodes, memo) ==
  [outcome |-> OutcomeFor(state, view, kind), complete |-> TRUE, nodes |-> nodes, memo |-> memo]
CutOff(state, view, kind, nodes, memo) ==
  LET end == FinishByRollout(state, view, nodes)
  IN [outcome |-> OutcomeFor(end.state, view, kind), complete |-> FALSE,
      nodes |-> end.nodes, memo |-> memo]

\* exactContinuation: every player takes what is best for itself.
RECURSIVE ExactContinuation(_, _, _, _, _)
ExactContinuation(state, view, kind, nodes, memo) ==
  LET d == view.seatOrder[state.turnSeat + 1]
      Better(acc, solved) == acc.best = <<>> \/ solved.outcome.utility[d] > acc.best[1].utility[d]
      And(acc, solved) ==
        [best |-> IF Better(acc, solved) THEN <<solved.outcome>> ELSE acc.best,
         complete |-> acc.complete /\ solved.complete,
         nodes |-> solved.nodes, memo |-> solved.memo]
      Try(acc, card) ==
        And(acc, ExactContinuation(PlayInto(state, d, card, view), view, kind, acc.nodes, acc.memo))
      Tried == FoldLeft(Try, [best |-> <<>>, complete |-> TRUE, nodes |-> nodes - 1, memo |-> memo],
                        InOrder(LegalFrom(state.hands[d], state.trick)))
      BestOf(all) ==
        [outcome |-> all.best[1], complete |-> all.complete, nodes |-> all.nodes,
         memo |-> IF all.complete THEN all.memo @@ (StateKey(state) :> all.best[1]) ELSE all.memo]
  IN IF Terminal(state)
     THEN [outcome |-> OutcomeFor(state, view, kind), complete |-> TRUE, nodes |-> nodes, memo |-> memo]
     ELSE IF StateKey(state) \in DOMAIN memo
     THEN [outcome |-> memo[StateKey(state)], complete |-> TRUE, nodes |-> nodes, memo |-> memo]
     ELSE IF nodes = 0 THEN CutOff(state, view, kind, nodes, memo)
     ELSE BestOf(Tried)

\* addOutcome and finalizeEvaluations: sums instead of averages.
NoEvaluation == [utility |-> 0, exact |-> 0, won |-> 0, visits |-> 0]
AddOutcome(evaluation, outcome, view) ==
  [utility |-> evaluation.utility + outcome.utility[view.botId],
   exact |-> evaluation.exact + (IF outcome.exact[view.botId] THEN 1 ELSE 0),
   won |-> evaluation.won + outcome.won[view.botId],
   visits |-> evaluation.visits + 1]

\* chooseEvaluation: by average utility, exact contracts, visits and card id.
ChooseEvaluation(evaluations) ==
  LET Visits(c) == Max({1, evaluations[c].visits})
      Gain(c, e) == evaluations[c].utility * Visits(e) - evaluations[e].utility * Visits(c)
      Safer(c, e) == evaluations[c].exact * Visits(e) - evaluations[e].exact * Visits(c)
      Before(c, e) ==
        \/ Gain(c, e) > 0
        \/ Gain(c, e) = 0 /\ Safer(c, e) > 0
        \/ /\ Gain(c, e) = 0 /\ Safer(c, e) = 0
           /\ \/ evaluations[c].visits > evaluations[e].visits
              \/ evaluations[c].visits = evaluations[e].visits /\ CardBefore(c, e)
  IN Head(SetToSortSeq(DOMAIN evaluations, Before))

\* searchEndgame.  Every candidate gets the same share of the nodes and goes through
\* the deals as long as it lasts.
SearchEndgame(view, kind, options) ==
  LET candidates == Candidates(view, LegalFrom(view.hand, view.trick))
      possible == EnumerateDeals(view)
      deals == SubSeq(SetToSeq(possible), 1, Min({Cardinality(possible), options.maxEndgameDeals}))
      share == Max({1, options.maxNodes \div Cardinality(candidates)})
      Evaluate(card) ==
        LET And(acc, solved) == [evaluation |-> AddOutcome(acc.evaluation, solved.outcome, view),
                                 complete |-> acc.complete /\ solved.complete,
                                 nodes |-> solved.nodes]
            Judge(acc, deal) ==
              IF acc.nodes = 0 THEN [acc EXCEPT !.complete = FALSE]
              ELSE And(acc, ExactContinuation(PlayInto(InitialState(view, deal), view.botId, card, view),
                                              view, kind, acc.nodes - 1, <<>>))
        IN FoldLeft(Judge, [evaluation |-> NoEvaluation, complete |-> TRUE, nodes |-> share], deals)
      Summary(judged) ==
        LET evaluations == [c \in candidates |-> judged[c].evaluation]
        IN [card |-> ChooseEvaluation(evaluations), evaluations |-> evaluations,
            complete |-> /\ Cardinality(possible) <= options.maxEndgameDeals /\ deals # <<>>
                         /\ \A c \in candidates : judged[c].complete]
  IN Summary(FoldLeft(LAMBDA acc, c : acc @@ (c :> Evaluate(c)), <<>>, InOrder(candidates)))

\* chooseCardHeuristic: the scores that prefer one legal card are not modelled.
HeuristicCards(view) == LegalFrom(view.hand, view.trick)
\* Ustaad follows an incomplete search only when that shows a clear advantage.
Trusted(result, kind, view) ==
  LET selected == result.evaluations[result.card]
      Clear(previous) ==
        /\ selected.visits > 0 /\ previous.visits > 0
        /\ selected.utility * previous.visits >=
             (previous.utility + 400 * Len(view.seatOrder) * previous.visits) * selected.visits
        /\ 10 * selected.exact * previous.visits >=
             (10 * previous.exact + previous.visits) * selected.visits
  IN {IF kind # "ustaad" \/ result.complete \/ Clear(result.evaluations[baseline])
      THEN result.card ELSE baseline : baseline \in HeuristicCards(view)}
\* chooseCard: what it may play, once its heuristics have a card, the baseline.
ChooseCards(view, kind, options) ==
  IF kind = "bhola" \/ Cardinality(HeuristicCards(view)) <= 1 \/ Cardinality(view.hand) > 2
  THEN HeuristicCards(view)
  ELSE Trusted(SearchEndgame(view, kind, options), kind, view)

-------------------------------------------------------------------------------
(* The tree: searchIsmcts, with endgameHandSize 1 (the bots of a room only search   *)
(* with two cards left, so that their searches are all searchEndgame).  JavaScript  *)
(* runs it without a break: the game stands still meanwhile.                        *)

EmptyNode == [visits |-> 0, actions |-> <<>>]
TreeInit == searching = FALSE /\ tree = <<>> /\ iterations = 0 /\ remaining = 0
BInit == Init /\ TreeInit

StartSearch ==
  /\ ~searching /\ Playing
  /\ LET view == View(ToPlay)
     IN Cardinality(Candidates(view, LegalCards(ToPlay))) > 1 /\ EnumerateDeals(view) # {}
  /\ searching' = TRUE
  /\ tree' = (<<>> :> EmptyNode) /\ iterations' = 0 /\ remaining' = TreeNodes
  /\ UNCHANGED vars

\* (mutant) a visited card may be taken before the others were tried.
AnyCard(node, legal) == legal
\* selectTreeAction: a card that was never tried at this node, else any.
SelectTreeAction(node, legal) ==
  IF legal \subseteq DOMAIN node.actions THEN legal ELSE legal \ DOMAIN node.actions

\* One descent, for a deal: down the visited cards, until one is new, the round ends or
\* the nodes run out.
RECURSIVE Descents(_, _)
Descents(walk, view) ==
  LET d == view.seatOrder[walk.state.turnSeat + 1]
      Step(card) ==
        [state |-> PlayInto(walk.state, d, card, view), nodes |-> walk.nodes - 1,
         at |-> Append(walk.at, [deviceId |-> d, card |-> card]),
         tree |-> walk.tree, path |-> Append(walk.path, [node |-> walk.at, card |-> card])]
      Enter(next) ==
        [next EXCEPT !.tree = IF next.at \in DOMAIN @ THEN @ ELSE @ @@ (next.at :> EmptyNode)]
      node == walk.tree[walk.at]
      selected == SelectTreeAction(node, LegalFrom(walk.state.hands[d], walk.state.trick))
  IN IF Terminal(walk.state) \/ walk.nodes = 0 THEN {walk}
     ELSE UNION {IF card \in DOMAIN node.actions THEN Descents(Enter(Step(card)), view) ELSE {Step(card)} :
                   card \in selected}

\* backpropagate
Backpropagate(nodes, path) ==
  LET Visit(t, step) ==
        LET actions == t[step.node].actions
            before == IF step.card \in DOMAIN actions THEN actions[step.card] ELSE 0
        IN [t EXCEPT ![step.node].visits = @ + 1,
                     ![step.node].actions = (step.card :> before + 1) @@ @]
  IN FoldLeft(Visit, nodes, path)

Iterate ==
  /\ searching /\ iterations < TreeIterations /\ remaining > 0
  /\ LET view == View(ToPlay) IN
     \E deal \in EnumerateDeals(view) :
     \E walk \in Descents([state |-> InitialState(view, deal), nodes |-> remaining,
                           at |-> <<>>, tree |-> tree, path |-> <<>>], view) :
       /\ tree' = Backpropagate(walk.tree, walk.path)
       /\ remaining' = FinishByRollout(walk.state, view, walk.nodes).nodes
  /\ iterations' = iterations + 1
  /\ UNCHANGED <<vars, searching>>

FinishSearch ==
  /\ searching /\ (iterations = TreeIterations \/ remaining = 0)
  /\ searching' = FALSE /\ tree' = <<>> /\ iterations' = 0 /\ remaining' = 0
  /\ UNCHANGED vars

\* One game at a table where nobody gives up a seat, and the searches of its bots.
BNext ==
  \/ ~searching /\ Play /\ UNCHANGED treeVars
  \/ ~searching /\ phase = "none" /\ (\E order \in SeatOrders : StartGame(order)) /\ UNCHANGED treeVars
  \/ StartSearch
  \/ Iterate
  \/ FinishSearch
BSpec == BInit /\ [][BNext]_bvars

-------------------------------------------------------------------------------
(* Properties.                                                             *)

\* The reference: Max-N, without budget and memory.
RECURSIVE MaxN(_, _, _)
MaxN(state, view, kind) ==
  LET d == view.seatOrder[state.turnSeat + 1]
      legal == LegalFrom(state.hands[d], state.trick)
      solved == {[card |-> c, outcome |-> MaxN(PlayInto(state, d, c, view), view, kind)] : c \in legal}
      Best(s) == \A t \in solved :
                   \/ s.outcome.utility[d] > t.outcome.utility[d]
                   \/ s.outcome.utility[d] = t.outcome.utility[d] /\ ~CardBefore(t.card, s.card)
  IN IF Terminal(state) THEN OutcomeFor(state, view, kind)
     ELSE (CHOOSE s \in solved : Best(s)).outcome
Reference(view, kind, card) ==
  LET Add(evaluation, deal) ==
        AddOutcome(evaluation, MaxN(PlayInto(InitialState(view, deal), view.botId, card, view), view, kind), view)
  IN FoldLeft(Add, NoEvaluation, SetToSeq(EnumerateDeals(view)))

\* "`complete` is deliberately conservative: it is true only when no deal or continuation
\* was omitted" (search.ts:785-786): then the evaluations are those of Max-N over every
\* possible deal, whatever the budget, and no candidate is better than the card chosen.
\* A bot in its endgame plays a legal card, whatever its heuristics and its budget.
CompleteIsExact ==
  (Playing /\ ~searching /\ Cardinality(LegalCards(ToPlay)) > 1 /\ Cardinality(hands[ToPlay]) <= 2) =>
    LET view == View(ToPlay) IN
    /\ \A kind \in Kinds \ {"bhola"} :
       \A exact \in {FoldLeft(LAMBDA acc, c : acc @@ (c :> Reference(view, kind, c)), <<>>,
                             InOrder(LegalCards(ToPlay)))} :
       \A options \in SearchOptions :
       \A result \in {SearchEndgame(view, kind, options)} :
         /\ result.complete =>
              /\ result.evaluations = exact
              /\ \A c \in LegalCards(ToPlay) : exact[result.card].utility >= exact[c].utility
         /\ \A c \in LegalCards(ToPlay) : result.evaluations[c].visits > 0
    /\ \A kind \in Kinds, options \in SearchOptions :
         ChooseCards(view, kind, options) \subseteq LegalCards(ToPlay)

\* The tree adds up: every descent visits the root and one node per card it goes through,
\* a node below a card is visited once less than the card, because the first visit stops
\* there, and less often only if the nodes ran out or the round ended; and no candidate
\* is visited again before all have been.
SumOfVisits(actions) == MapThenSumSet(LAMBDA c : actions[c], DOMAIN actions)
TreeAddsUp ==
  searching =>
    /\ tree[<<>>].visits = iterations
    /\ \A at \in DOMAIN tree :
         /\ tree[at].visits = SumOfVisits(tree[at].actions)
         /\ at # <<>> => tree[at].visits < tree[Front(at)].actions[Last(at).card]
    /\ remaining + MapThenSumSet(LAMBDA at : tree[at].visits, DOMAIN tree) <= TreeNodes
    /\ \A c \in LegalCards(ToPlay), e \in DOMAIN tree[<<>>].actions :
         tree[<<>>].actions[e] > 1 => c \in DOMAIN tree[<<>>].actions
===============================================================================
