-------------------------- MODULE MC_DecisionPipeline --------------------------
(* Contexts in which each family is proposed, dropped and refused for its  *)
(* own reasons, on a share at 100.00, the answers of the risk prompt, and  *)
(* decisions posted to the endpoint.                                       *)
EXTENDS DecisionPipeline

Option(right, strike, exp, premium, half, delta) ==
  [underlying |-> "S", right |-> right, strike |-> strike, exp |-> exp,
   premium |-> premium, bid |-> premium - half, ask |-> premium + half,
   quotes |-> "both", oi |-> 1000, delta |-> delta]

Put90  == Option("PUT", 9000, 30, 300, 5, -30)
Put80  == Option("PUT", 8000, 30, 120, 2, -12)
Far85  == Option("PUT", 8500, 60, 220, 4, -18)
Put110 == Option("PUT", 11000, 30, 1200, 10, -60)
Call95  == Option("CALL", 9500, 30, 800, 10, 55)
Call105 == Option("CALL", 10500, 30, 280, 5, 40)
Call110 == Option("CALL", 11000, 30, 310, 5, 35)

Position(symbol, qty, kind, side) ==
  [symbol |-> symbol, qty |-> qty, value |-> Distance(qty, 0) * 10000, kind |-> kind, side |-> side]

Book(positions, chain) ==
  [positions |-> positions, chain |-> chain, total |-> 4000000, buyingPower |-> 100000,
   budgetPct |-> 5, tolerancePct |-> 10, targetPct |-> 0, degraded |-> FALSE]

Two == <<Position("S", 200, "EQUITY", "BUY")>>
One == <<Position("S", 150, "EQUITY", "BUY")>>
Plain == Book(Two, <<Put90, Put80, Far85, Call110>>)

MCBooks ==
  { Plain,
    [Plain EXCEPT !.budgetPct = 1],                             \* only the spread fits
    [Plain EXCEPT !.total = 1900000],                           \* no room for two legs
    [Plain EXCEPT !.degraded = TRUE, !.chain = <<Put90, Call105>>],
    [Plain EXCEPT !.buyingPower = 50000],
    Book(One, <<Put110, Call95>>),                               \* a collar upside down
    Book(One, <<[Put90 EXCEPT !.oi = 10], Put80>>),
    Book(One, <<[Put90 EXCEPT !.ask = 400], Put80>>),
    Book(One, <<[Put90 EXCEPT !.quotes = "none"], Put80>>),
    Book(One, <<[Put90 EXCEPT !.exp = 3], [Put80 EXCEPT !.exp = -1]>>),
    Book(One, <<[Put90 EXCEPT !.premium = 350], Put80>>),        \* premium off the quotes
    Book(<<Position("S", 50, "EQUITY", "BUY")>>, <<Put90>>),
    Book(<<Position("T", 400, "EQUITY", "SELL"), Position("S", 300, "OPTION", "BUY")>>, <<Put90>>),
    Book(<<Position("T", 100, "EQUITY", "BUY"), Position("S", 200, "EQUITY", "BUY"),
           Position("S", -100, "EQUITY", "SELL")>>, <<Put90, Put80, Call105, Call110>>) }

Mod(field, leg, value) == [field |-> field, leg |-> leg, value |-> value]
Mods ==
  { Mod("quantity", None, 1), Mod("quantity", None, 3), Mod("quantity", None, 0),
    Mod("quantity", 1, 1), Mod("quantity", 2, 1), Mod("quantity", 3, 1),
    Mod("limit_price", None, 150), Mod("limit_price", 1, 290), Mod("limit_price", None, -1),
    Mod("price_tolerance_pct", None, 20), Mod("price_tolerance_pct", None, 200),
    Mod("allow_legging", None, 1), Mod("strategy_type", None, 0), Mod("expiration", 1, 9) }

Answer(verdict, mods) == [kind |-> "answer", verdict |-> verdict, mods |-> mods]
MCRiskReplies ==
  {[kind |-> k, verdict |-> None, mods |-> <<>>] : k \in {"down", "garbled"}} \cup
  {Answer("APPROVE", <<>>), Answer("REJECT", <<>>), Answer("MODIFY", <<>>)} \cup
  {Answer("MODIFY", <<m>>) : m \in Mods} \cup
  {Answer("MODIFY", <<m, n>>) : m, n \in Mods}

(* Hypotheses no gate would clear: naked calls, nothing, one put, and a    *)
(* spread with more sold than bought.                                      *)
Bought(c, n) == Leg(c, "BUY", n)
Sold(c, n)   == Leg(c, "SELL", n)
Hypothesis(legs) ==
  [strategy |-> "PUT_SPREAD", viable |-> TRUE, legs |-> legs, cost |-> 20000,
   ratioPct |-> 500, delta |-> None]
MCPosted ==
  {[verdict |-> "REJECT", mods |-> <<>>, approved |-> None],
   [verdict |-> "APPROVE", mods |-> <<>>, approved |-> None]} \cup
  [verdict : {"MODIFY"}, mods : {<<m>> : m \in Mods} \cup {<<m, n>> : m, n \in Mods},
   approved : {Hypothesis(<<Bought(Put90, 1), Sold(Put80, 4)>>)}] \cup
  [verdict : {"APPROVE"}, mods : {<<>>},
   approved : {Hypothesis(<<>>), Hypothesis(<<Sold(Call110, 5)>>), Hypothesis(<<Bought(Put90, 9)>>)}]
=============================================================================
