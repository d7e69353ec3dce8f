------------------------------ MODULE OrderPlan -------------------------------
(***************************************************************************)
(* From a cleared risk decision to the order sent: build_execution_plan    *)
(* with the changes of a MODIFY, the pre-flight checks on a context, and   *)
(* the body of the order.  "badPlan" is an ExecutionPlanError and          *)
(* "invalid" a value that OrderConstraints refuses, which nothing catches. *)
(***************************************************************************)
EXTENDS RiskGate

MaxQuoteAge    == 5       \* minutes a context may be old at pre-flight
DefaultTolerancePct == 5

(* A draft is [legs, limit, tolerance, legging, fault]; a limit of None is  *)
(* one nobody set.  A modification that cannot be applied is a fault, and  *)
(* is never passed over.                                                   *)
LegFields   == {"quantity", "limit_price"}
OrderFields == LegFields \cup {"price_tolerance_pct", "allow_legging"}

Applicable(draft, m) ==
  /\ m.field \in OrderFields
  /\ m.leg # None => m.field \in LegFields /\ m.leg \in DOMAIN draft.legs
  /\ m.field = "quantity" => m.value > 0
  /\ m.field \in {"limit_price", "price_tolerance_pct"} => m.value >= 0

WithLegs(draft, m, field) ==
  [draft EXCEPT !.legs =
     [i \in DOMAIN @ |-> IF m.leg \in {None, i} THEN [@[i] EXCEPT ![field] = m.value] ELSE @[i]]]

Changed(draft, m) ==
  CASE m.field = "quantity" -> WithLegs(draft, m, "qty")
    [] m.field = "limit_price" /\ m.leg # None -> WithLegs(draft, m, "limit")
    [] m.field = "limit_price" /\ m.leg = None -> [draft EXCEPT !.limit = m.value]
    [] m.field = "price_tolerance_pct"         -> [draft EXCEPT !.tolerance = m.value]
    [] m.field = "allow_legging"               -> [draft EXCEPT !.legging = m.value > 0]

\* Mutant: a modification that cannot be applied is passed over.
ApplySkipping(draft, m) ==
  IF draft.fault = None /\ Applicable(draft, m) THEN Changed(draft, m) ELSE draft

Apply(draft, m) ==
  IF draft.fault = None /\ Applicable(draft, m) THEN Changed(draft, m)
  ELSE [draft EXCEPT !.fault = "badPlan"]

(* Net debit per combo; a credit has no limit to set.                      *)
NetComboLimit(legs) ==
  LET net == Total(legs, LAMBDA l : Signed(l, l.limit))
  IN  IF net > 0 THEN net ELSE None

(* The hypothesis cost, scaled by the contracts of all the legs together.  *)
EstimatedCost(h, legs) ==
  LET all(s) == Total(s, LAMBDA l : l.qty)
  IN  (h.cost * all(legs)) \div all(h.legs)

Start(h) ==
  [legs |-> h.legs, limit |-> None, tolerance |-> DefaultTolerancePct,
   legging |-> FALSE, fault |-> IF h.legs = <<>> THEN "badPlan" ELSE None]

(* The draft with all the changes, one after the other.                    *)
Draft(h, mods) ==
  LET after[n \in 0 .. Len(mods)] ==
        IF n = 0 THEN Start(h) ELSE Apply(after[n - 1], mods[n])
  IN  after[Len(mods)]

BuildExecutionPlan(decision) ==
  LET h     == decision.approved
      draft == Draft(h, decision.mods)
      bad   == draft.fault # None
  IN  [legs      |-> draft.legs,
       limit     |-> IF ~bad /\ draft.limit = None THEN NetComboLimit(draft.legs) ELSE draft.limit,
       tolerance |-> draft.tolerance,
       legging   |-> draft.legging,
       fault     |-> IF ~bad /\ draft.tolerance > 100 THEN "invalid" ELSE draft.fault,
       cost      |-> IF bad THEN 0 ELSE EstimatedCost(h, draft.legs)]

-----------------------------------------------------------------------------
(* run_preflight: what a context so many minutes old says of the plan, so  *)
(* many days after the analysis; the first failure, or None to go ahead.   *)
Preflight(plan, ctx, minutes, days) ==
  IF ~Every(plan.legs, LAMBDA l : MatchCandidate(l, ctx) # None) THEN "UNKNOWN_CONTRACT"
  ELSE IF ~Every(plan.legs, LAMBDA l : l.exp >= days) THEN "CONTRACT_EXPIRED"
  ELSE IF minutes > MaxQuoteAge THEN "STALE_QUOTE"
  ELSE IF ~Every(plan.legs, LAMBDA l : ~OffMid(l, MatchCandidate(l, ctx), plan.tolerance))
       THEN "PRICE_DRIFT"
  ELSE IF plan.cost > ctx.buyingPower THEN "INSUFFICIENT_BUYING_POWER"
  ELSE None

(* The order: one combo for several legs, else a plain order, whose price  *)
(* is the leg's; a limit order without a price goes as a market order.     *)
OrderOf(plan) ==
  LET price == IF Len(plan.legs) = 1 THEN plan.legs[1].limit ELSE plan.limit
  IN  [legs |-> plan.legs, type |-> IF price = None THEN "market" ELSE "limit",
       price |-> price]
=============================================================================
