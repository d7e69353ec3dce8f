------------------------------- MODULE RiskGate -------------------------------
(***************************************************************************)
(* The deterministic risk engine (every check of DEFAULT_CHECKS, with the  *)
(* code of its violation) and the Risk Agent that reads the checklist and  *)
(* asks the language model only when nothing failed.  Soft warnings and    *)
(* the wording of a rejection are left out.                                *)
(***************************************************************************)
EXTENDS StrategyAgents

SpreadLimitPct  == 10
MinOpenInterest == 100
BandPct         == 5
DeltaTolerance  == 25
MarginPct       == 15

Every(s, Test(_)) == \A i \in DOMAIN s : Test(s[i])
Underlyings(legs) == {legs[i].underlying : i \in DOMAIN legs}

(* RiskEngineLimits.from_context: the pre-filter's formulas, written again *)
EngineLimits(ctx) ==
  [budget   |-> (ctx.budgetPct * NonNegative(ctx.total)) \div 100,
   ratioPct |-> MaxRatioPct(ctx),
   notional |-> NonNegative(ctx.total)]

CheckHedgeBudget(h, ctx)   == h.cost <= EngineLimits(ctx).budget
CheckMaxHedgeRatio(h, ctx) == h.ratioPct <= EngineLimits(ctx).ratioPct
CheckMaxNotional(h, ctx)   == Notional(h.legs) <= EngineLimits(ctx).notional

(* On each name the longer side, bought or sold, is covered by shares.     *)
CheckPositionLimit(h, ctx) ==
  \A u \in Underlyings(h.legs), side \in {"BUY", "SELL"} :
    ContractsOn(h.legs, u, side) <= ContractsForShares(EquitySharesHeld(ctx, u))

CheckBuyingPower(h, ctx) == h.cost <= ctx.buyingPower

(* (ask - bid) / mid over the limit, with both sides quoted.               *)
TooWide(c) ==
  /\ c.quotes = "both" /\ TwiceMid(c) > 0
  /\ 200 * (c.ask - c.bid) > SpreadLimitPct * TwiceMid(c)

CheckLiquidity(h, ctx) ==
  Every(h.legs, LAMBDA l :
    LET c == MatchCandidate(l, ctx)
    IN  c # None /\ c.quotes # "none" /\ ~TooWide(c) /\ c.oi >= MinOpenInterest)

CheckContractValidity(h, ctx) ==
  Every(h.legs, LAMBDA l : MatchCandidate(l, ctx) # None)

NotExpired(h) == Every(h.legs, LAMBDA l : l.exp >= 0)

(* Only the first offending leg is reported, with one code of the two.     *)
CheckExpirationWindow(h) == Every(h.legs, LAMBDA l : l.exp >= MinExpiryDays)

(* 100 times the share-equivalent slop, so that 15 % of it stays whole.    *)
Slop(shares) == Max({100 * DeltaTolerance, MarginPct * shares})

CheckNetDeltaBounds(h, ctx) ==
  LET shares == FoldSet(LAMBDA u, sum : sum + EquitySharesHeld(ctx, u), 0, Underlyings(h.legs))
  IN  \/ h.delta = None
      \/ /\ 100 * h.delta >= -(100 * shares + Slop(shares))
         /\ 100 * h.delta <= Slop(shares)

The(legs, right, side) ==
  {i \in DOMAIN legs : legs[i].right = right /\ legs[i].side = side}

\* Mutant: one underlying is enough.
CheckMultilegUnderlying(h) ==
  h.legs = <<>> \/ Cardinality(Underlyings(h.legs)) = 1

(* Strikes in order and both legs there; expirations are not compared.     *)
CheckMultilegConsistency(h) ==
  LET bought == The(h.legs, "PUT", "BUY")
      sold   == IF h.strategy = "COLLAR" THEN The(h.legs, "CALL", "SELL")
                                         ELSE The(h.legs, "PUT", "SELL")
      pair   == Cardinality(bought) = 1 /\ Cardinality(sold) = 1
      strike(i) == h.legs[i].strike
  IN  h.legs = <<>> \/
      /\ Cardinality(Underlyings(h.legs)) = 1
      /\ h.strategy # "NO_HEDGE"
      /\ h.strategy = "PUT_SPREAD" =>
           Len(h.legs) = 2 /\ pair /\ \A b \in bought, s \in sold : strike(b) > strike(s)
      /\ h.strategy = "COLLAR" =>
           pair /\ \A b \in bought, s \in sold : strike(b) < strike(s)

CheckPriceBand(h, ctx) ==
  Every(h.legs, LAMBDA l : ~OffMid(l, MatchCandidate(l, ctx), BandPct))

LimitCodes ==
  {"HEDGE_BUDGET_EXCEEDED", "MAX_HEDGE_RATIO_EXCEEDED", "MAX_NOTIONAL_EXCEEDED"}

(* The checklist: the violation code of every check that fails.            *)
Violations(h, ctx) ==
  {c \in {"HEDGE_BUDGET_EXCEEDED"}     : ~CheckHedgeBudget(h, ctx)} \cup
  {c \in {"MAX_HEDGE_RATIO_EXCEEDED"}  : ~CheckMaxHedgeRatio(h, ctx)} \cup
  {c \in {"MAX_NOTIONAL_EXCEEDED"}     : ~CheckMaxNotional(h, ctx)} \cup
  {c \in {"POSITION_LIMIT_EXCEEDED"}   : ~CheckPositionLimit(h, ctx)} \cup
  {c \in {"INSUFFICIENT_BUYING_POWER"} : ~CheckBuyingPower(h, ctx)} \cup
  {c \in {"ILLIQUID_CONTRACT"}         : ~CheckLiquidity(h, ctx)} \cup
  {c \in {"UNKNOWN_CONTRACT"}          : ~CheckContractValidity(h, ctx)} \cup
  {c \in {"CONTRACT_EXPIRED"}          : ~NotExpired(h)} \cup
  {c \in {"EXPIRY_WINDOW_VIOLATION"}   : NotExpired(h) /\ ~CheckExpirationWindow(h)} \cup
  {c \in {"NET_DELTA_OUT_OF_BOUNDS"}   : ~CheckNetDeltaBounds(h, ctx)} \cup
  {c \in {"MULTILEG_INCONSISTENT"}     : ~CheckMultilegConsistency(h)} \cup
  {c \in {"PRICE_BAND_EXCEEDED"}       : ~CheckPriceBand(h, ctx)}

-----------------------------------------------------------------------------
(* The Risk Agent.  A modification is [field, leg, value]; the reply to    *)
(* the prompt is [kind, verdict, mods] with kind as for the manager.       *)

Modifications == [field : STRING, leg : Int \cup {None}, value : Int]

StrategyFields == {"strategy_type"}

(* The usable changes, in their order: the nth has n of them up to itself. *)
ParseModifications(mods) ==
  LET usable == {i \in DOMAIN mods : mods[i].field \notin StrategyFields}
      nth(n) == CHOOSE i \in usable : Cardinality({j \in usable : j <= i}) = n
  IN  [n \in 1 .. Cardinality(usable) |-> mods[nth(n)]]

Verdict(verdict, mods, approved) ==
  [verdict |-> verdict, mods |-> mods, approved |-> approved]

ForcedReject          == Verdict("REJECT", <<>>, None)
DeterministicApprove(h) == Verdict("APPROVE", <<>>, h)

(* Without a usable answer the checklist decides; MODIFY leaves the        *)
(* hypothesis as it was and carries the changes beside it, and without one *)
(* usable change it approves.                                              *)
LlmReview(h, reply) ==
  LET mods == ParseModifications(reply.mods)
      says(verdict) == reply.kind = "answer" /\ reply.verdict = verdict
  IN  CASE says("REJECT") -> Verdict("REJECT", <<>>, None)
        [] says("MODIFY") /\ mods # <<>> -> Verdict("MODIFY", mods, h)
        [] OTHER -> DeterministicApprove(h)

(* A failed check is final: the model is not asked.                        *)
Review(h, ctx, reply) ==
  IF Violations(h, ctx) # {} THEN ForcedReject ELSE LlmReview(h, reply)

(* The repository's _validate.  Its rules on violations hold by the way    *)
(* the three verdicts are built: a REJECT lists one, an APPROVE none.      *)
RowIsValid(v) ==
  /\ v.verdict \in {"APPROVE", "MODIFY", "REJECT"}
  /\ v.verdict = "MODIFY" => v.mods # <<>>

(* persist_risk_decision: the verdict on file, or None when the insert     *)
(* raises.                                                                 *)
PersistRiskDecision(v, dbWorks) ==
  IF dbWorks /\ RowIsValid(v) THEN v ELSE None
=============================================================================
