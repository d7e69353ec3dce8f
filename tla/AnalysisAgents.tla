--------------------------- MODULE AnalysisAgents ---------------------------
(***************************************************************************)
(* The context slices (agents/context_builder.py) and the five analysis      *)
(* agents that read them.  An agent is an operator on its slice and, for      *)
(* three of them, on the reply of the LLM: [kind |-> "object", body |-> ...]  *)
(* or one of the replies without a body.                                     *)
(***************************************************************************)
EXTENDS VenueData

CONSTANT CandidateCap      \* OptionsFilterConfig.max_candidates_per_underlying

ASSUME CandidateCapAssumption == CandidateCap \in Nat

MinOpenInterest == 100
HighOpenInterest == 500    \* min_open_interest * _HIGH_OI_FACTOR
MinDte == 7
MaxDte == 90
HighVolVix == 28
RiskOffVix == 20

Agents == <<"portfolio", "stock", "market", "news", "options">>

Section == [portfolio |-> "portfolio_state", stock |-> "stock_state", market |-> "market_state",
            news |-> "news_context", options |-> "option_candidates"]

Slice(agent, inputs) ==
  CASE agent = "portfolio" -> [positions |-> inputs.positions, curve |-> inputs.curve]
    [] agent = "stock" -> [holdings |-> Held(inputs.positions), priced |-> inputs.market.priced]
    [] agent = "market" -> [trend |-> inputs.market.trend, vix |-> inputs.market.vix]
    [] agent = "news" -> [feed |-> inputs.news, held |-> inputs.positions]
    [] agent = "options" ->
         [wanted |-> IF inputs.underlyings = {} THEN inputs.positions ELSE inputs.underlyings,
          chains |-> inputs.chains]

-----------------------------------------------------------------------------
(* The LLM.  A failing call and a body that is no JSON object are an          *)
(* AgentError, which each agent catches; a completion whose `choices` is null  *)
(* is a TypeError, which none does.                                           *)

Bodiless == {[kind |-> k] : k \in {"unreachable", "no content", "not json", "choices null"}}

CompleteJson(reply) ==
  CASE reply.kind = "object" -> "ok"
    [] reply.kind = "choices null" -> "TypeError"
    [] OTHER -> "AgentError"

\* Does the agent call the LLM for this slice?
Asks(agent, slice) ==
  \/ agent = "stock" /\ slice.holdings # <<>>
  \/ agent = "market"
  \/ agent = "news" /\ slice.feed # <<>>

Value(v) == [raised |-> FALSE, value |-> v]
Raised == [raised |-> TRUE, value |-> <<>>]

-----------------------------------------------------------------------------

\* The positions are the snapshot's; drawdown and volatility are recomputed only from
\* a curve that is long enough, and kept otherwise.
AnalyzePortfolio(slice) ==
  Value([positions |-> slice.positions,
         concentration |-> IF slice.positions = {} THEN "none" ELSE "hhi",
         drawdown |-> IF Len(slice.curve) >= 2 THEN "curve" ELSE "snapshot",
         volatility |-> IF Len(slice.curve) >= 3 /\ \A i \in DOMAIN slice.curve : slice.curve[i] > 0
                        THEN "curve" ELSE "snapshot"])

\* The symbols the LLM wrote a note about.
Notes(reply) == IF CompleteJson(reply) = "ok" THEN reply.body ELSE {}

FallbackNote(slice, s) == IF s \in slice.priced THEN "rule" ELSE "no data"

\* A view per holding.
AnalyzeStocks(slice, reply) ==
  Value([i \in DOMAIN slice.holdings |->
           LET s == slice.holdings[i] IN
           [symbol |-> s, note |-> IF s \in Notes(reply) THEN "llm" ELSE FallbackNote(slice, s)]])

Regimes == {"RISK_ON", "RISK_OFF", "NEUTRAL", "HIGH_VOL"}

RuleRegime(vix, trend) ==
  IF vix >= HighVolVix THEN "HIGH_VOL"
  ELSE IF trend \in {"DOWN", "BEARISH"} \/ vix >= RiskOffVix THEN "RISK_OFF"
  ELSE IF trend \in {"UP", "BULLISH"} THEN "RISK_ON" ELSE "NEUTRAL"

NamesRegime(reply) == CompleteJson(reply) = "ok" /\ reply.body \in Regimes

AnalyzeMarket(slice, reply) ==
  Value(IF NamesRegime(reply) THEN reply.body ELSE RuleRegime(slice.vix, slice.trend))

NoVerdict == [event |-> FALSE, symbols |-> {}]

Verdicts(reply) == IF CompleteJson(reply) = "ok" THEN reply.body ELSE <<>>

VerdictOf(verdicts, i) == IF i \in DOMAIN verdicts THEN verdicts[i] ELSE NoVerdict

\* The held symbols an article affects: those the LLM names and those it is tagged with.
AffectedByVerdict(article, verdict, held) ==
  (IF verdict.symbols # {} THEN verdict.symbols ELSE article.symbols) \cap held

Affected(article, verdict, held) == (verdict.symbols \cup article.symbols) \cap held

AnalyzeNews(slice, reply) ==
  LET verdict(i) == VerdictOf(Verdicts(reply), i)
      item(i) == [article |-> i, event |-> verdict(i).event,
                  symbols |-> Affected(slice.feed[i], verdict(i), slice.held)] IN
  Value(FlattenSeq([i \in DOMAIN slice.feed |->
                      IF verdict(i).event \/ item(i).symbols # {} THEN <<item(i)>> ELSE <<>>]))

-----------------------------------------------------------------------------

TwoSided(quote) == quote.bid > 0 /\ quote.ask > 0 /\ quote.ask >= quote.bid

\* (ask - bid) / mid against a quarter and against a twentieth.
WideSpread(quote) == 8 * (quote.ask - quote.bid) > quote.ask + quote.bid
TightSpread(quote) == 40 * (quote.ask - quote.bid) <= quote.ask + quote.bid

IsCandidate(quote) ==
  /\ quote.oi >= MinOpenInterest
  /\ quote.dte \in MinDte..MaxDte
  /\ TwoSided(quote)
  /\ ~WideSpread(quote)

Liquidity(quote) == IF quote.oi >= HighOpenInterest \/ TightSpread(quote) THEN "high" ELSE "ok"

\* By open interest, then expiry; sort is stable.
Before(quotes, i, j) ==
  \/ quotes[i].oi > quotes[j].oi
  \/ quotes[i].oi = quotes[j].oi /\ quotes[i].dte < quotes[j].dte
  \/ quotes[i].oi = quotes[j].oi /\ quotes[i].dte = quotes[j].dte /\ i < j

Found(quotes) == {i \in DOMAIN quotes : IsCandidate(quotes[i])}

Rank(quotes, i) == Cardinality({j \in Found(quotes) : Before(quotes, j, i)}) + 1

Ranked(quotes, r) == quotes[CHOOSE i \in Found(quotes) : Rank(quotes, i) = r]

Candidates(chain) ==
  LET count == Cardinality(Found(chain.quotes))
      candidate(quote) ==
        [underlying |-> chain.underlying, quote |-> quote, liquidity |-> Liquidity(quote)] IN
  [r \in 1 .. (IF count < CandidateCap THEN count ELSE CandidateCap) |->
     candidate(Ranked(chain.quotes, r))]

AnalyzeOptions(slice) ==
  LET wanted(chain) == slice.wanted = {} \/ chain.underlying \in slice.wanted IN
  Value(FlattenSeq([i \in DOMAIN slice.chains |->
                      IF wanted(slice.chains[i]) THEN Candidates(slice.chains[i]) ELSE <<>>]))

-----------------------------------------------------------------------------

\* One call of the assembler: the agent's value, or an exception that got out of it.
Run(agent, slice, reply) ==
  IF Asks(agent, slice) /\ CompleteJson(reply) = "TypeError" THEN Raised
  ELSE CASE agent = "portfolio" -> AnalyzePortfolio(slice)
         [] agent = "stock" -> AnalyzeStocks(slice, reply)
         [] agent = "market" -> AnalyzeMarket(slice, reply)
         [] agent = "news" -> AnalyzeNews(slice, reply)
         [] agent = "options" -> AnalyzeOptions(slice)
=============================================================================
