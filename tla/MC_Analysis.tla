----------------------------- MODULE MC_Analysis -----------------------------
(* Analysis for one reply of each kind from every source: complete, cut off, *)
(* malformed, unreachable; and for answers of the model on both sides of what *)
(* the agents believe it.                                                    *)
EXTENDS Analysis

MCSymbols == <<"AAPL", "AAPL_put", "SPY">>
MCPositionSets == {{}, {"AAPL", "AAPL_put", "SPY"}}

Page(items) == [reply |-> "object", items |-> items, more |-> FALSE]
Unreachable == <<[reply |-> "transport", items |-> <<>>, more |-> FALSE]>>

Bar(symbol, close) == [symbol |-> symbol, close |-> close, wellFormed |-> TRUE]
MCIndexReplies == {<<Page(<<Bar("SPY", 2), Bar("SPY", 1)>>)>>, Unreachable}
MCBarReplies == {<<Page(<<Bar("AAPL", 1)>>)>>, <<Page(<<[Bar("AAPL", 1) EXCEPT !.wellFormed = FALSE]>>)>>}

Article(symbols) == [symbols |-> symbols, wellFormed |-> TRUE]
MCNewsReplies ==
  {<<Page(<<Article({"AAPL"}), Article({"TSLA"})>>)>>,
   <<[Page(<<Article({"SPY"})>>) EXCEPT !.more = TRUE], Page(<<Article({"AAPL"})>>)>>,
   Unreachable}

Contract(dte, bid, ask) ==
  [occ |-> [dte |-> dte, strike |-> 100, wellFormed |-> TRUE], bid |-> bid, ask |-> ask, wellFormed |-> TRUE]
MCChainReplies ==
  {<<Page(<<Contract(30, 9, 10), Contract(60, -1, 10)>>)>>,
   <<[Page(<<Contract(30, 9, 10)>>) EXCEPT !.more = TRUE], Page(<<Contract(60, 9, 10)>>)>>,
   <<Page(<<[Contract(30, 9, 10) EXCEPT !.occ.wellFormed = FALSE]>>)>>,
   <<Page(<<[Contract(30, 9, 10) EXCEPT !.occ.strike = 0]>>)>>}

\* Inputs of the caller's: quotes with an open interest, more liquid ones than the cap,
\* and underlyings that leave one chain out.
Quote(oi, dte, bid, ask) == [oi |-> oi, dte |-> dte, bid |-> bid, ask |-> ask]
MCHandedIn ==
  {[NoInputs EXCEPT !.positions = {"AAPL", "SPY"}, !.curve = <<1, 2, 1>>,
      !.market = [trend |-> "FLAT", vix |-> 30, priced |-> {}],
      !.news = <<Article({"SPY"})>>,
      !.chains = <<[underlying |-> "AAPL",
                    quotes |-> <<Quote(100, 30, 90, 100), Quote(600, 30, 90, 100), Quote(200, 60, 98, 100),
                                 Quote(900, 30, 50, 100), Quote(900, 5, 90, 100), Quote(900, 30, 0, 100),
                                 Quote(99, 30, 98, 100)>>],
                   [underlying |-> "SPY", quotes |-> <<Quote(500, 30, 90, 100)>>]>>,
      !.underlyings = wanted] : wanted \in {{"AAPL"}, {}}}
    \cup {NoInputs}

MCStockReplies == {{}, {"AAPL"}}
MCMarketReplies == {"HIGH_VOL", "SIDEWAYS"}
MCNewsVerdicts ==
  {<<>>, <<[event |-> TRUE, symbols |-> {}]>>, <<[event |-> FALSE, symbols |-> {"SPY"}]>>,
   <<[event |-> FALSE, symbols |-> {"TSLA"}], [event |-> TRUE, symbols |-> {"TSLA"}]>>}
=============================================================================
