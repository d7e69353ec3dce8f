----------------------------- MODULE AdaptiveLoop -----------------------------
(***************************************************************************)
(* The adaptive loop over several cycles and ticks.  Every run builds a      *)
(* hedge context (backend/agents/ingest.py, api/monitor.py), a cycle first    *)
(* lets the Strategy Manager decide and trade, and both end in the           *)
(* MONITORING body, which runs Level 1, escalates to Level 2 and applies its  *)
(* outcome (backend/agents/orchestrator/nodes.py, monitoring/apply_change.py).*)
(* What they trade is all the next run knows of the hedge.                   *)
(*                                                                          *)
(* HedgeCycle has the steps of one cycle and their failures; here the runs    *)
(* follow one another, each under its own cycle id, and the orders fill when  *)
(* the broker gets to it.                                                   *)
(***************************************************************************)
EXTENDS Reassessment, HedgeBook

CONSTANTS
  Markets,      \* the market and portfolio readings a context can hold
  Quantities,   \* the contracts a fresh hedge may be sized to
  MaxRuns       \* a bound: cycles and ticks

ASSUME MaxRunsAssumption == MaxRuns \in Nat
ASSUME QuantitiesAssumption == Quantities \subseteq Nat \ {0}
ASSUME MarketsAssumption ==
  \A market \in Markets :
    {market.drawdown, market.volatility, market.vix} \subseteq Int \cup {None}

VARIABLES
  run,        \* the run in progress
  decisions,  \* strategy_decisions table
  orders,     \* orders table
  live,       \* the broker's open orders: each with its legs
  position,   \* the broker's net contracts
  removed     \* history: the last order the broker filled at once closed a REMOVE

vars == <<run, decisions, orders, live, position, removed>>

Quiet == [escalate |-> FALSE, emergency |-> FALSE, bypassed |-> FALSE]

Idle(cycle, escalation) ==
  [stage |-> "idle", kind |-> "tick", cycle |-> cycle, context |-> None,
   escalation |-> escalation, answer |-> "unusable", outcome |-> "NO_TRADE"]

Init ==
  /\ run = Idle(0, Quiet)
  /\ decisions = << >>
  /\ orders = << >>
  /\ live = {}
  /\ position = 0
  /\ removed = FALSE

-----------------------------------------------------------------------------

\* The live context: readings, and the hedge as the tables tell it.  Neither the
\* reconstruction nor the objective ever carries a hedge ratio or a target.
Context(market) ==
  LET hedge == ReconstructCurrentHedge(decisions, orders)
  IN [drawdown |-> market.drawdown, volatility |-> market.volatility, vix |-> market.vix,
      gross |-> market.gross, beta |-> market.beta, event |-> market.event,
      sentiment |-> market.sentiment, target |-> None, legs |-> hedge.legs,
      hedge |-> [active |-> hedge.active, ratio |-> None, target |-> None,
                 days |-> IF hedge.active THEN market.days ELSE None]]

\* A monitoring_state row copies cooldown_until from the row before it, and
\* start_cooldown has no caller: none is ever in force.
Cooling == FALSE

\* POST /run-cycle wires a broker, the deps of a tick do not.
HasBroker == run.kind = "cycle"

\* Of a run that is over only the id and the escalation are kept, to be looked at.
Reach(stage) ==
  run' = IF stage = "idle" THEN Idle(run.cycle, Quiet) ELSE [run EXCEPT !.stage = stage]

StartRun(kind, stage) ==
  /\ run.stage = "idle"
  /\ run.cycle < MaxRuns
  /\ \E market \in Markets :
       run' = [Idle(run.cycle + 1, Quiet) EXCEPT !.stage = stage, !.kind = kind,
                                                 !.context = Context(market)]
  /\ UNCHANGED <<decisions, orders, live, position, removed>>

StartCycle == StartRun("cycle", "strategy")
StartTick == StartRun("tick", "monitor")

-----------------------------------------------------------------------------
(* orders                                                                   *)

Row(legs, status) == [cycle |-> run.cycle, legs |-> legs, status |-> status]

\* submit_plan and the row of its result.  The broker fills the order at once, or
\* accepts it (a result that is still open is stored as REJECTED, and nothing ever
\* updates the row), or accepts it and the reply or the row is lost, or rejects it.
\* An order filled in part is not among them.
Submit(legs, isRemove) ==
  \/ /\ orders' = Append(orders, Row(legs, "FILLED"))
     /\ position' = position + Net(legs)
     /\ removed' = isRemove
     /\ UNCHANGED live
  \/ /\ orders' = Append(orders, Row(legs, "REJECTED"))
     /\ live' = live \cup {[cycle |-> run.cycle, legs |-> legs]}
     /\ removed' = FALSE
     /\ UNCHANGED position
  \/ /\ live' = live \cup {[cycle |-> run.cycle, legs |-> legs]}
     /\ removed' = FALSE
     /\ UNCHANGED <<orders, position>>
  \/ UNCHANGED <<orders, live, position, removed>>

NoOrder == UNCHANGED <<orders, live, position, removed>>

-----------------------------------------------------------------------------
(* STRATEGY_EVALUATION, RISK_CHECK and EXECUTION, of the cycle or of a reopen *)

After == IF run.stage = "strategy" THEN "monitor" ELSE "idle"

\* The node failed, and no decision row was written.
StrategyFails ==
  /\ run.stage \in {"strategy", "reopen"}
  /\ Reach(After)
  /\ NoOrder
  /\ UNCHANGED decisions

\* NO_TRADE or REASSESS; or a selection that stops at the risk gate, at the guard
\* against a second order of the cycle, or for want of a broker.
DecideWithoutOrder ==
  /\ run.stage \in {"strategy", "reopen"}
  /\ \E action \in DecisionActions :
       decisions' = Append(decisions, [cycle |-> run.cycle, action |-> action])
  /\ Reach(After)
  /\ NoOrder

SelectAndTrade ==
  /\ run.stage \in {"strategy", "reopen"}
  /\ HasBroker
  /\ OrdersOf(orders, run.cycle) = {}
  /\ decisions' = Append(decisions, [cycle |-> run.cycle, action |-> "SELECT_STRATEGY"])
  /\ \E q \in Quantities : Submit(<<[side |-> "BUY", quantity |-> q]>>, FALSE)
  /\ Reach(After)

-----------------------------------------------------------------------------
(* MONITORING                                                               *)

NextOf(outcome) ==
  CASE outcome = "INCREASE" -> "reopen"
    [] outcome \in ChangeOutcomes /\ run.context.legs # << >> -> "close"
    [] OTHER -> "idle"

\* Level 1, the escalation gate, and the Level-2 verdict when it opens.  The
\* dispatch may also fail, which is a log line.
Monitor ==
  /\ run.stage = "monitor"
  /\ LET observations == RunLevel1Checks(run.context)
         escalation == ShouldEscalate(observations, Cooling)
     IN IF ~escalation.escalate
        THEN run' = Idle(run.cycle, escalation)
        ELSE \/ run' = Idle(run.cycle, escalation)
             \/ \E answer \in Answers :
                  LET outcome == Assess(run.context, observations, answer)
                  IN run' = IF NextOf(outcome) = "idle" THEN Idle(run.cycle, escalation)
                            ELSE [run EXCEPT !.stage = NextOf(outcome), !.answer = answer,
                                             !.escalation = escalation, !.outcome = outcome]
  /\ NoOrder
  /\ UNCHANGED decisions

\* The gate refused the close, or raised.
CloseRefused ==
  /\ run.stage = "close"
  /\ Reach("idle")
  /\ NoOrder
  /\ UNCHANGED decisions

\* The gate let the close pass: it is submitted if there is a broker, and a
\* REPLACE goes on to reopen whatever became of it.
ApplyChange ==
  /\ run.stage = "close"
  /\ LET legs == ClosingLegs(run.outcome, run.context.legs, 0, 0)
     IN IF HasBroker THEN Submit(legs, run.outcome = "REMOVE") ELSE NoOrder
  /\ Reach(IF run.outcome = "REPLACE" THEN "reopen" ELSE "idle")
  /\ UNCHANGED decisions

-----------------------------------------------------------------------------
(* the broker                                                               *)

\* An accepted order fills.  No code hears of it.
Fill(order) ==
  /\ position' = position + Net(order.legs)
  /\ live' = live \ {order}
  /\ UNCHANGED <<run, decisions, orders, removed>>

\* It is cancelled at the close of the day instead.
Lapse(order) ==
  /\ live' = live \ {order}
  /\ UNCHANGED <<run, decisions, orders, position, removed>>

Next ==
  \/ StartCycle
  \/ StartTick
  \/ StrategyFails
  \/ DecideWithoutOrder
  \/ SelectAndTrade
  \/ Monitor
  \/ CloseRefused
  \/ ApplyChange
  \/ \E order \in live : Fill(order) \/ Lapse(order)

Spec == Init /\ [][Next]_vars

-----------------------------------------------------------------------------
(* properties                                                               *)

Catastrophic(c) ==
  \/ c.drawdown # None /\ (c.drawdown >= 15 \/ c.drawdown <= -15)
  \/ c.volatility # None /\ c.volatility >= 60
  \/ c.vix # None /\ c.vix >= 45

\* An emergency always reaches Level 2 flagged as one: no other trigger, no
\* deadband and no cooldown may stand between (should_escalate in
\* reassessment.py: an is_emergency observation bypasses the cooldown).
EmergencyEscalates ==
  [][run.stage = "monitor" /\ run'.stage # "monitor" /\ Catastrophic(run.context)
       => run'.escalation.emergency]_vars

\* Without a usable answer of the model, the rules that replace it never take
\* protection off a book that is in an emergency (_heuristic of ReassessmentAgent):
\* they hold, add, or swap.
FallbackNeverTrimsInEmergency ==
  run.answer = "unusable" /\ run.context # None /\ Catastrophic(run.context)
    => run.outcome \notin {"DECREASE", "REMOVE"}

\* A decision of a cycle that has traded nothing hides nothing: the hedge the next
\* context carries changes only with an order (the walk of
\* reconstruct_current_hedge past cycles without one).
IdleDecisionHidesNothing ==
  [][orders' = orders /\ OrdersOf(orders, run.cycle) = {}
       => ReconstructCurrentHedge(decisions', orders')
            = ReconstructCurrentHedge(decisions, orders)]_vars

\* Whatever ratios a context and a verdict carry, a DECREASE of a leg on the book closes
\* at least one contract and no more than are held, and what is left is the target share
\* of the holding to the nearest contract -- or the one contract less that the minimum
\* of one makes it (_close_quantity of apply_change.py).
TrimLandsOnTarget ==
  run.context # None =>
    \A leg \in ToSet(run.context.legs), current \in {10, 40, 75, 100}, target \in {0, 5, 40, 50, 60, 90} :
      LET held == leg.quantity
          scale == RatioScale("DECREASE", current, target)
          close == CloseQuantity("DECREASE", held, scale[1], scale[2])
          miss == (held - close) * current - held * target
      IN /\ close \in 1 .. held
         /\ target < current => close = 1 \/ 2 * Magnitude(miss) <= current

\* ingest.py:304 says of a REMOVE "the hedge was deliberately closed -- empty".
\* A REMOVE is an outcome of Level 2, which writes no strategy decision; what the
\* next context gets is the legs of the order that closed the hedge.
RemovedHedgeReadsEmpty ==
  removed => ~ReconstructCurrentHedge(decisions, orders).active

=============================================================================
