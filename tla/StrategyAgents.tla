---------------------------- MODULE StrategyAgents ----------------------------
(***************************************************************************)
(* The four hedge families, each a function of the context to one          *)
(* hypothesis, and the pre-filter that screens them before the Strategy    *)
(* Manager.  Payoff curves, break-evens and the wording of a proposal are  *)
(* left out; a family that rejects itself is not viable, costs nothing and *)
(* has no legs.                                                            *)
(***************************************************************************)
EXTENDS OptionBook

Families == <<"PROTECTIVE_PUT", "PUT_SPREAD", "COLLAR", "NO_HEDGE">>

NotViable(family) ==
  [strategy |-> family, viable |-> FALSE, legs |-> <<>>, cost |-> 0,
   ratioPct |-> 0, delta |-> None]

(* hedge_ratio is the covered value over the position's, at one spot.      *)
Viable(family, ctx, holding, legs, cost) ==
  [strategy |-> family, viable |-> TRUE, legs |-> legs, cost |-> cost,
   ratioPct |-> (100 * Multiplier * ContractsForShares(holding.qty)) \div holding.qty,
   delta |-> NetDelta(legs, ctx)]

(* What every family but NO_HEDGE needs before it looks at prices.         *)
CanHedge(ctx) ==
  LET holding == PrimaryHolding(ctx)
  IN  /\ holding # None
      /\ PutsFor(ctx, holding.symbol) # {}
      /\ ContractsForShares(holding.qty) >= 1

FloorStrike(ctx, holding) ==
  (Spot(holding) * (100 - ctx.tolerancePct)) \div 100

LongPut(ctx, holding) ==
  NearestStrike(ctx, PutsFor(ctx, holding.symbol), FloorStrike(ctx, holding))

ProtectivePut(ctx) ==
  LET holding   == PrimaryHolding(ctx)
      contracts == ContractsForShares(holding.qty)
      legs      == <<Leg(LongPut(ctx, holding), "BUY", contracts)>>
      cost      == NetPremiumCash(legs)
  IN  IF CanHedge(ctx) /\ cost <= HedgeBudgetCash(ctx)
      THEN Viable("PROTECTIVE_PUT", ctx, holding, legs, cost)
      ELSE NotViable("PROTECTIVE_PUT")

(* The highest strike below the long put, the cheapest of those; its       *)
(* expiration is whatever that candidate's is.                             *)
ShortPut(ctx, lowers) ==
  FirstBest(ctx.chain, lowers, LAMBDA p, q :
    \/ p.strike > q.strike
    \/ p.strike = q.strike /\ p.premium < q.premium)

PutSpread(ctx) ==
  LET holding   == PrimaryHolding(ctx)
      contracts == ContractsForShares(holding.qty)
      long      == LongPut(ctx, holding)
      lowers    == {i \in PutsFor(ctx, holding.symbol) : ctx.chain[i].strike < long.strike}
      short     == ShortPut(ctx, lowers)
      legs      == <<Leg(long, "BUY", contracts), Leg(short, "SELL", contracts)>>
      cost      == NetPremiumCash(legs)
  IN  IF CanHedge(ctx) /\ lowers # {} /\ cost > 0 /\ cost <= HedgeBudgetCash(ctx)
      THEN Viable("PUT_SPREAD", ctx, holding, legs, cost)
      ELSE NotViable("PUT_SPREAD")

(* Among the calls out of the money - or all of them when none is - the    *)
(* premium nearest the put's, then the higher cap.                         *)
CapCall(ctx, calls, put) ==
  LET gap(c) == Distance(c.premium, put.premium)
  IN  FirstBest(ctx.chain, calls, LAMBDA c, d :
        \/ gap(c) < gap(d)
        \/ gap(c) = gap(d) /\ c.strike > d.strike)

Collar(ctx) ==
  LET holding   == PrimaryHolding(ctx)
      contracts == ContractsForShares(holding.qty)
      put       == LongPut(ctx, holding)
      calls     == CallsFor(ctx, holding.symbol)
      otm       == {i \in calls : ctx.chain[i].strike >= Spot(holding)}
      call      == CapCall(ctx, IF otm = {} THEN calls ELSE otm, put)
      legs      == <<Leg(put, "BUY", contracts), Leg(call, "SELL", contracts)>>
      net       == NetPremiumCash(legs)
  IN  IF CanHedge(ctx) /\ calls # {} /\ net <= HedgeBudgetCash(ctx)
      THEN Viable("COLLAR", ctx, holding, legs, IF net > 0 THEN net ELSE 0)
      ELSE NotViable("COLLAR")

NoHedge ==
  [strategy |-> "NO_HEDGE", viable |-> TRUE, legs |-> <<>>, cost |-> 0,
   ratioPct |-> 0, delta |-> None]

Propose(ctx) == <<ProtectivePut(ctx), PutSpread(ctx), Collar(ctx), NoHedge>>

-----------------------------------------------------------------------------
(* Pre-filter: a viable hypothesis over one of the three limits is dropped *)
(* before the manager; one that rejected itself passes through.            *)

NonNegative(x) == IF x > 0 THEN x ELSE 0

MaxRatioPct(ctx) == IF ctx.targetPct > 100 THEN ctx.targetPct ELSE 100

PrefilterLimits(ctx) ==
  [ratioPct |-> MaxRatioPct(ctx),
   notional |-> NonNegative(ctx.total),
   budget   |-> (ctx.budgetPct * NonNegative(ctx.total)) \div 100]

\* Mutant: the notional is left to the gate.
CheckAllLimitsNoNotional(h, limits) ==
  h.ratioPct <= limits.ratioPct /\ h.cost <= limits.budget

CheckAllLimits(h, limits) ==
  /\ h.ratioPct <= limits.ratioPct
  /\ Notional(h.legs) <= limits.notional
  /\ h.cost <= limits.budget

Kept(h, ctx) == ~h.viable \/ CheckAllLimits(h, PrefilterLimits(ctx))

(* The places of the hypotheses that stay.                                 *)
Prefilter(hypotheses, ctx) == {i \in DOMAIN hypotheses : Kept(hypotheses[i], ctx)}
=============================================================================
