------------------------------ MODULE OptionBook ------------------------------
(***************************************************************************)
(* What a HedgeContext offers to the strategy agents and to the risk gate: *)
(* the positions, the option candidates the analysis surfaced, the limits  *)
(* of the objective.  A context is a record                                *)
(*   positions     sequence of [symbol, qty, value, kind, side]            *)
(*   chain         sequence of candidates [right, strike, exp, premium,    *)
(*                 bid, ask, quotes, oi, delta] on one underlying          *)
(*   total, buyingPower, budgetPct, tolerancePct, targetPct, degraded      *)
(* Prices are in cents, shares and contracts are counts, exp is in days    *)
(* after the analysis, and a percentage is a whole number.                 *)
(***************************************************************************)
EXTENDS Integers, Sequences, SequencesExt

CONSTANT None

ASSUME NoneAssumption == None \notin Int

Positions ==
  [symbol : STRING, qty : Int, value : Int, kind : STRING, side : {"BUY", "SELL"}]

Candidates ==
  [underlying : STRING, right : {"PUT", "CALL"}, strike : Int, exp : Int,
   premium : Int, bid : Int, ask : Int, quotes : STRING, oi : Int, delta : Int]

Legs ==
  [underlying : STRING, right : {"PUT", "CALL"}, side : {"BUY", "SELL"},
   strike : Int, exp : Int, qty : Int, limit : Int]

Multiplier == 100          \* shares of one contract
MinExpiryDays == 7         \* tenor below which the gate refuses a leg

(* A filtered list is the set of the places in s that it keeps.  Of these, *)
(* Python's min() and max(): the first that nothing comes before.          *)
FirstBest(s, places, Before(_, _)) ==
  s[CHOOSE i \in places :
      \A j \in places : /\ ~Before(s[j], s[i])
                        /\ j < i => Before(s[i], s[j])]

SumUp(numbers) ==
  LET upTo[n \in 0 .. Len(numbers)] == IF n = 0 THEN 0 ELSE upTo[n - 1] + numbers[n]
  IN  upTo[Len(numbers)]

Total(s, Value(_)) == SumUp([i \in DOMAIN s |-> Value(s[i])])

(* The long equity positions, and the one with the largest value, if any.  *)
LongEquities(ctx) ==
  {i \in DOMAIN ctx.positions :
     LET p == ctx.positions[i]
     IN  p.kind = "EQUITY" /\ p.side = "BUY" /\ p.qty > 0 /\ p.value > 0}

PrimaryHolding(ctx) ==
  IF LongEquities(ctx) = {} THEN None
  ELSE FirstBest(ctx.positions, LongEquities(ctx), LAMBDA p, q : p.value > q.value)

Spot(holding) == holding.value \div holding.qty
ContractsForShares(shares) == shares \div Multiplier

HedgeBudgetCash(ctx) == (ctx.budgetPct * ctx.total) \div 100

CandidatesFor(ctx, symbol, right) ==
  {i \in DOMAIN ctx.chain : ctx.chain[i].underlying = symbol /\ ctx.chain[i].right = right}
PutsFor(ctx, symbol)  == CandidatesFor(ctx, symbol, "PUT")
CallsFor(ctx, symbol) == CandidatesFor(ctx, symbol, "CALL")

Distance(a, b) == IF a > b THEN a - b ELSE b - a

(* Ties break toward the nearer expiry, then the lower strike.             *)
NearestStrike(ctx, candidates, target) ==
  FirstBest(ctx.chain, candidates, LAMBDA c, d :
    LET dc == Distance(c.strike, target)
        dd == Distance(d.strike, target)
    IN  \/ dc < dd
        \/ dc = dd /\ c.exp < d.exp
        \/ dc = dd /\ c.exp = d.exp /\ c.strike < d.strike)

(* The analysed candidate a leg stands for; None when there is none.       *)
SameContract(c, d) ==
  /\ c.underlying = d.underlying /\ c.right = d.right
  /\ c.strike = d.strike /\ c.exp = d.exp

MatchCandidate(leg, ctx) ==
  LET same == {i \in DOMAIN ctx.chain : SameContract(ctx.chain[i], leg)}
  IN  IF same = {} THEN None ELSE ctx.chain[Min(same)]

(* Twice the reference price, so that the middle of a quote stays whole:   *)
(* both sides of the quote, else the recorded premium.  0 is "no mid".     *)
TwiceMid(c) == IF c.quotes = "both" THEN c.bid + c.ask ELSE 2 * c.premium

(* |limit - mid| / mid > pct / 100, for a leg that has a mid.              *)
OffMid(leg, c, pct) ==
  /\ c # None
  /\ TwiceMid(c) > 0
  /\ 100 * Distance(2 * leg.limit, TwiceMid(c)) > pct * TwiceMid(c)

Leg(candidate, side, contracts) ==
  [underlying |-> candidate.underlying, right |-> candidate.right,
   side |-> side, strike |-> candidate.strike, exp |-> candidate.exp,
   qty |-> contracts, limit |-> candidate.premium]

Signed(leg, x) == IF leg.side = "BUY" THEN x ELSE -x

(* Net debit of the legs at their limit prices, credits negative.          *)
NetPremiumCash(legs) ==
  Total(legs, LAMBDA l : Signed(l, l.limit * l.qty * Multiplier))

Notional(legs) == Total(legs, LAMBDA l : l.qty * l.strike * Multiplier)

Contracts(legs, side) ==
  Total(legs, LAMBDA l : IF l.side = side THEN l.qty ELSE 0)

ContractsOn(legs, symbol, side) ==
  Total(legs, LAMBDA l : IF l.underlying = symbol /\ l.side = side THEN l.qty ELSE 0)

(* Share-equivalent delta of the legs; a candidate's delta is in percent,  *)
(* which the 100 shares of a contract cancel.                              *)
NetDelta(legs, ctx) ==
  Total(legs, LAMBDA l : Signed(l, l.qty * MatchCandidate(l, ctx).delta))

EquitySharesHeld(ctx, symbol) ==
  Total(ctx.positions, LAMBDA p :
          IF p.symbol = symbol /\ p.kind = "EQUITY" THEN Distance(p.qty, 0) ELSE 0)
=============================================================================
