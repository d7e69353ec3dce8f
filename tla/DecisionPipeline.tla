--------------------------- MODULE DecisionPipeline ---------------------------
(***************************************************************************)
(* One order from the assembled context to the broker: the nodes           *)
(* STRATEGY_EVALUATION, RISK_CHECK and EXECUTION of the graph, or POST     *)
(* /execute, which takes the RiskDecision of its body for cleared, whoever *)
(* made it.  The market moves on meanwhile: the graph runs its pre-flight  *)
(* on the context of the analysis, the endpoint on the one in its body.    *)
(*                                                                         *)
(* CONSTANTS bound the inputs: Books is the set of contexts analysed,      *)
(* RiskReplies the answers of the risk prompt, Posted the decisions that   *)
(* callers of the endpoint send.                                           *)
(***************************************************************************)
EXTENDS StrategyManager, OrderPlan

CONSTANTS Books, RiskReplies, Posted

(* A contract is listed once: the chain of the venue is an object keyed by *)
(* the OCC symbol, and there is one chain for every name.                  *)
ASSUME BooksAssumption ==
  \A book \in Books :
    /\ book.positions \in Seq(Positions) /\ book.chain \in Seq(Candidates)
    /\ \A i, j \in DOMAIN book.chain : SameContract(book.chain[i], book.chain[j]) => i = j
    /\ {book.tolerancePct, book.buyingPower} \subseteq Int

ASSUME RiskRepliesAssumption ==
  \A reply \in RiskReplies : reply.mods \in Seq(Modifications)

(* What the schema of the body lets through; no gate need have seen it.    *)
ASSUME PostedAssumption ==
  \A body \in Posted :
    /\ body.mods \in Seq(Modifications)
    /\ body.approved # None => body.approved.legs \in Seq(Legs)

VARIABLES ctx,        \* the context of the analysis
          caller,     \* who executes, and whether it asks for the pre-flight
          moved,      \* how the market has moved since
          stage,      \* next step of the cycle
          decision,   \* StrategyDecision, with how it was reached
          cleared,    \* RiskDecision on file
          plan, sent

vars == <<ctx, caller, moved, stage, decision, cleared, plan, sent>>

Callers == [who : {"graph", "endpoint"}, preflight : BOOLEAN]

(* What may be different at pre-flight: nothing, the prices, the cash, the *)
(* listed contracts, or only the time.                                     *)
Moves == {"nothing", "prices", "cash", "contracts", "minutes", "days"}

Init ==
  /\ ctx \in Books
  /\ caller \in Callers
  /\ moved = "nothing"
  /\ stage = IF caller.who = "graph" THEN "strategy" ELSE "posted"
  /\ decision = None /\ cleared = None /\ plan = None /\ sent = None

Dearer(c) == [c EXCEPT !.premium = @ + @ \div 5, !.bid = @ + @ \div 5, !.ask = @ + @ \div 5]

(* The context that would be assembled now.                                *)
Now ==
  CASE moved = "prices"    -> [ctx EXCEPT !.chain = [i \in DOMAIN @ |-> Dearer(@[i])]]
    [] moved = "cash"      -> [ctx EXCEPT !.buyingPower = @ \div 2]
    [] moved = "contracts" -> [ctx EXCEPT !.chain = Tail(@)]
    [] OTHER               -> ctx

Days == IF moved = "days" THEN 40 ELSE 0
AgeOfAnalysis == IF moved \in {"minutes", "days"} THEN 2 * MaxQuoteAge ELSE 0

MarketMoves ==
  /\ stage = "preflight" /\ moved = "nothing"
  /\ moved' \in Moves \ {"nothing"}
  /\ UNCHANGED <<ctx, caller, stage, decision, cleared, plan, sent>>

(* propose, prefilter, StrategyManager.run; NO_TRADE, REASSESS and an      *)
(* exception all go on to MONITORING.                                      *)
StrategyEvaluation(reply) ==
  LET reached == Run(Propose(ctx), Prefilter(Propose(ctx), ctx), ctx, reply)
  IN  /\ stage = "strategy"
      /\ decision' = reached
      /\ stage' = IF reached.decision = "SELECT_STRATEGY" THEN "risk" ELSE "monitoring"
      /\ UNCHANGED <<ctx, caller, moved, cleared, plan, sent>>

(* RiskAgent.review writes its row before it returns; a row that cannot be *)
(* written raises, and nothing trades on the missing verdict.              *)
RiskCheck(reply, dbWorks) ==
  LET h == decision.selected
  IN  /\ stage = "risk"
      /\ cleared' = PersistRiskDecision(Review(h, ctx, reply), dbWorks)
      /\ stage' = IF cleared' # None /\ cleared'.verdict # "REJECT" THEN "execution"
                                                                 ELSE "monitoring"
      /\ UNCHANGED <<ctx, caller, moved, decision, plan, sent>>

(* POST /execute: 422 for a decision that is none to execute; the row of   *)
(* the posted verdict is written first, and 500 when it cannot be.         *)
ExecutePosted(body, dbWorks) ==
  /\ stage = "posted"
  /\ IF body.verdict = "REJECT" \/ body.approved = None
     THEN cleared' = None /\ stage' = "refused"
     ELSE /\ cleared' = PersistRiskDecision(body, dbWorks)
          /\ stage' = IF cleared' = None THEN "raised" ELSE "execution"
  /\ UNCHANGED <<ctx, caller, moved, decision, plan, sent>>

BuildPlan ==
  /\ stage = "execution"
  /\ plan' = BuildExecutionPlan(cleared)
  /\ stage' = CASE plan'.fault = "badPlan" -> "failed"
                [] plan'.fault = "invalid" -> "raised"
                [] OTHER -> "preflight"
  /\ UNCHANGED <<ctx, caller, moved, decision, cleared, sent>>

Seen    == IF caller.who = "graph" THEN ctx ELSE Now
SeenAge == IF caller.who = "graph" THEN AgeOfAnalysis ELSE 0

GoAhead == caller.preflight => Preflight(plan, Seen, SeenAge, Days) = None

PreflightAborts ==
  /\ stage = "preflight" /\ ~GoAhead
  /\ stage' = "failed"
  /\ UNCHANGED <<ctx, caller, moved, decision, cleared, plan, sent>>

Submit ==
  /\ stage = "preflight" /\ GoAhead
  /\ sent' = OrderOf(plan)
  /\ stage' = "submitted"
  /\ UNCHANGED <<ctx, caller, moved, decision, cleared, plan>>

Next ==
  \/ \E reply \in StrategyReplies : StrategyEvaluation(reply)
  \/ \E reply \in RiskReplies, dbWorks \in BOOLEAN : RiskCheck(reply, dbWorks)
  \/ \E body \in Posted, dbWorks \in BOOLEAN : ExecutePosted(body, dbWorks)
  \/ BuildPlan
  \/ MarketMoves
  \/ PreflightAborts
  \/ Submit

Spec == Init /\ [][Next]_vars
-----------------------------------------------------------------------------
OfGraph == caller.who = "graph"

(* The changes of one kind that concern one of these legs, None being the  *)
(* order as a whole; and what such a change says.                          *)
Asking(field, legs) == {m \in Modifications : m.field = field /\ m.leg \in legs}
Said(m) == IF m.field = "allow_legging" THEN m.value > 0 ELSE m.value

(* x is what the last of these changes says, and y when there is none.     *)
LastSaid(changes, x, y) ==
  LET mods == cleared.mods
  IN  /\ \A i \in DOMAIN mods :
           mods[i] \in changes /\ (\A j \in DOMAIN mods : j > i => mods[j] \notin changes)
             => x = Said(mods[i])
      /\ (\A i \in DOMAIN mods : mods[i] \notin changes) => x = y

Unresized    == \A i \in DOMAIN cleared.mods : cleared.mods[i].field # "quantity"
ResizedAlike == \A i \in DOMAIN cleared.mods :
                  cleared.mods[i].field = "quantity" => cleared.mods[i].leg = None

(* The cost of the sent legs at the premiums of the analysis.              *)
AnalysedCost ==
  NetPremiumCash([i \in DOMAIN sent.legs |->
    [sent.legs[i] EXCEPT !.limit = MatchCandidate(sent.legs[i], ctx).premium]])

SharesCover(legs) == ContractsForShares(EquitySharesHeld(ctx, legs[1].underlying))

(* The pre-filter and the risk engine compute their limits apart; what the *)
(* manager selects is never refused by the gate for budget, hedge ratio or *)
(* notional, whichever way it was selected.                                *)
PrefilterAgreesWithGate ==
  OfGraph /\ stage \notin {"strategy", "monitoring"} =>
    Violations(decision.selected, ctx) \cap LimitCodes = {}

(* An order of the graph, through selection, fallback, gate and plan.      *)
(* Whatever the gate changed in it, the put it buys is there, below the    *)
(* call and above the put it sells; it sells no more than it buys unless   *)
(* single legs were resized; and when none was, shares cover its contracts *)
(* and it costs no more than the budget and the cash of the analysis.      *)
GraphOrderIsCovered ==
  sent # None /\ OfGraph =>
    LET legs == sent.legs
    IN  /\ The(legs, "PUT", "BUY") # {}
        /\ \A b \in The(legs, "PUT", "BUY") :
             /\ \A s \in The(legs, "PUT", "SELL") : legs[s].strike < legs[b].strike
             /\ \A s \in The(legs, "CALL", "SELL") : legs[s].strike > legs[b].strike
        /\ ResizedAlike => Contracts(legs, "SELL") <= Contracts(legs, "BUY")
        /\ Unresized => /\ Contracts(legs, "BUY") \in 1 .. SharesCover(legs)
                        /\ AnalysedCost <= HedgeBudgetCash(ctx)
                        /\ AnalysedCost <= ctx.buyingPower

(* Every change on file is one the plan has a place for, and the plan that *)
(* is submitted, for the graph or the endpoint, is the cleared hypothesis  *)
(* with the last change of each quantity, leg limit, tolerance and legging *)
(* permission in it; the combo's price is the last net limit, else the net *)
(* of the legs.                                                            *)
ModificationsAreKept ==
  sent # None =>
    /\ sent.legs = plan.legs /\ DOMAIN plan.legs = DOMAIN cleared.approved.legs
    /\ \A i \in DOMAIN cleared.mods :
         /\ cleared.mods[i].field \in OrderFields
         /\ cleared.mods[i].leg \in DOMAIN plan.legs \cup {None}
    /\ \A k \in DOMAIN plan.legs :
         LET was == cleared.approved.legs[k]
         IN  /\ LastSaid(Asking("quantity", {None, k}), plan.legs[k].qty, was.qty)
             /\ LastSaid(Asking("limit_price", {k}), plan.legs[k].limit, was.limit)
    /\ LastSaid(Asking("price_tolerance_pct", {None}), plan.tolerance, DefaultTolerancePct)
    /\ LastSaid(Asking("allow_legging", {None}), plan.legging, FALSE)
    /\ Len(sent.legs) > 1 =>
         LastSaid(Asking("limit_price", {None}), sent.price, NetComboLimit(plan.legs))

(* "a risk-mandated size cut or price tightening is never silently dropped" *)
(* (plan.py).  Violated by an order of one leg: it is priced by its leg.   *)
TighteningReachesOrder ==
  sent # None => LastSaid(Asking("limit_price", {None}), sent.price, sent.price)

(* "A degraded context ... produces a REASSESS decision" (manager.py).     *)
(* Violated when the model does not answer: the fallback looks at prices   *)
(* only.                                                                   *)
DegradedIsReassessed == sent # None /\ OfGraph => ~ctx.degraded

(* Holding more contracts than the position covers is "an over-hedged or   *)
(* naked single-name bet, not a hedge" (check_position_limit).  Violated   *)
(* by a MODIFY that raises a quantity: the gate has already been passed.   *)
SentContractsAreCovered ==
  sent # None /\ OfGraph =>
    \A side \in {"BUY", "SELL"} : Contracts(sent.legs, side) <= SharesCover(sent.legs)
=============================================================================
