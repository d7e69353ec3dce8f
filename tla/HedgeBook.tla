------------------------------- MODULE HedgeBook -------------------------------
(***************************************************************************)
(* The hedge on the book, as the program knows it: rebuilt from the          *)
(* strategy_decisions and orders tables (reconstruct_current_hedge in        *)
(* backend/agents/ingest.py), and the legs that change it                    *)
(* (build_change_hypothesis in backend/agents/monitoring/apply_change.py).   *)
(*                                                                          *)
(* A leg is [side, quantity]: hedges here are of one contract, as the legs of *)
(* different contracts never meet in this code.  A decision row is           *)
(* [cycle, action], an order row [cycle, legs, status], oldest first.        *)
(***************************************************************************)
EXTENDS Integers, Sequences, SequencesExt

\* Written by _persist_strategy: DecisionType, never a HedgeAction.
DecisionActions == {"SELECT_STRATEGY", "NO_TRADE"}

OnBookStatuses == {"FILLED", "PARTIALLY_FILLED"}

NoHedge == [active |-> FALSE, legs |-> << >>]

\* The rows of a cycle in the orders table, and those that reached the book.
OrdersOf(orders, cycle) == {i \in DOMAIN orders : orders[i].cycle = cycle}
OnBook(orders, cycle) == {i \in OrdersOf(orders, cycle) : orders[i].status \in OnBookStatuses}

\* The legs of these orders, one after the other.
LegsOf(orders, book) ==
  LET at == SetToSeq(UNION {{i} \X DOMAIN orders[i].legs : i \in book})
  IN [n \in DOMAIN at |-> orders[at[n][1]].legs[at[n][2]]]

HedgeFromCycle(orders, book) ==
  LET legs == LegsOf(orders, book)
  IN IF legs = << >> THEN NoHedge ELSE [active |-> TRUE, legs |-> legs]

\* Mutant: the latest decision is the hedge, whether it was ever executed or not.
ReconstructFromLatest(decisions, orders) ==
  IF decisions = << >> THEN NoHedge
  ELSE HedgeFromCycle(orders, OnBook(orders, Last(decisions).cycle))

\* The decisions whose cycle has an order.
Traded(decisions, orders) ==
  {i \in DOMAIN decisions : OrdersOf(orders, decisions[i].cycle) # {}}

\* Of some rows of the table, the one that list_all_recent_first gives first.
MostRecent(decisions, rows) == decisions[Max(rows)]

\* The most recent decision whose cycle has an order.
ReconstructCurrentHedge(decisions, orders) ==
  LET traded == Traded(decisions, orders)
      decision == MostRecent(decisions, traded)
  IN IF traded = {} \/ decision.action = "REMOVE"
     THEN NoHedge
     ELSE HedgeFromCycle(orders, OnBook(orders, decision.cycle))

-----------------------------------------------------------------------------
(* sizing a close                                                           *)

\* Python's round(n / d): the nearest integer, ties to the even one.
RoundHalfEven(n, d) ==
  LET q == n \div d
      twice == 2 * (n % d)
  IN IF twice > d \/ (twice = d /\ q % 2 = 1) THEN q + 1 ELSE q

Within(low, high, x) == IF x < low THEN low ELSE IF x > high THEN high ELSE x

\* Mutant: the close is rounded down and may be nothing.
CloseQuantityFloor(outcome, held, part, whole) ==
  IF outcome \in {"REMOVE", "REPLACE"} THEN held ELSE (held * part) \div whole

\* part / whole is the share of the leg to close.
CloseQuantity(outcome, held, part, whole) ==
  IF outcome \in {"REMOVE", "REPLACE"}
  THEN held
  ELSE LET close == RoundHalfEven(held * part, whole)
       IN Within(1, held, close)

\* The share a DECREASE closes: 1 - target / current, a quarter when the target
\* is not below, everything when no current ratio is on record.
RatioScale(outcome, current, target) ==
  IF outcome # "DECREASE" \/ current = 0 THEN <<1, 1>>
  ELSE IF target >= current THEN <<1, 4>> ELSE <<current - target, current>>

Opposite(side) == IF side = "BUY" THEN "SELL" ELSE "BUY"

ClosingLegs(outcome, legs, current, target) ==
  LET scale == RatioScale(outcome, current, target)
  IN [i \in DOMAIN legs |->
        [side |-> Opposite(legs[i].side),
         quantity |-> CloseQuantity(outcome, legs[i].quantity, scale[1], scale[2])]]

\* What legs do to the broker's net position.
Net(legs) ==
  FoldLeft(LAMBDA sum, leg : IF leg.side = "BUY" THEN sum + leg.quantity ELSE sum - leg.quantity,
           0, legs)

=============================================================================
