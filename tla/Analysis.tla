------------------------------ MODULE Analysis ------------------------------
(***************************************************************************)
(* One analysis: the ANALYZING node of a cycle, with its retries, or POST     *)
(* /analyze.  It fetches the inputs, runs the five agents over their slices    *)
(* with an agent_runs row each, assembles the HedgeContext and stores the      *)
(* snapshot.  The process may die in between; a cycle is then resumed and      *)
(* analyses again under the same cycle id.                                    *)
(***************************************************************************)
EXTENDS AnalysisAgents, Resilience

CONSTANTS IndexReplies, BarReplies, NewsReplies, ChainReplies,   \* what the venue may serve
          PositionSets,      \* the positions an account may hold
          HandedIn,          \* the inputs a provider of the caller's may return
          StockReplies, MarketReplies, NewsVerdicts,             \* what the LLM may answer
          Replaced,          \* the agents whose function the caller replaced (agent_fns)
          MaxFaults,         \* bound: deaths of the process and failing writes together
          LastCrash          \* bound: the last agent a process may die in

ASSUME NewsRepliesAssumption == NewsReplies \subseteq Resources(RawArticles)
ASSUME ChainRepliesAssumption == ChainReplies \subseteq Resources(RawContracts)
ASSUME NewsVerdictsAssumption ==
  NewsVerdicts \subseteq Seq([event : BOOLEAN, symbols : SUBSET STRING])

Quotes == [oi : Int, dte : Int, bid : Int, ask : Int]

\* What AnalysisInputs validates.
ASSUME HandedInAssumption ==
  \A given \in HandedIn :
    /\ DOMAIN given = {"positions", "curve", "market", "news", "chains", "underlyings"}
    /\ given.news \in Seq(RawArticles)
    /\ given.chains \in Seq([underlying : STRING, quotes : Seq(Quotes)])

VARIABLES
  pass,       \* the running pass: caller, source of the inputs, where it is, the attempt, ...
  served,     \* what the venue served in this attempt: chains by underlying, failed sources
  inputs,     \* AnalysisInputs
  context,    \* the sections the agents have produced, and the degraded ones
  runs,       \* agent_runs: [pass, agent, status]
  snapshots,  \* the passes whose snapshot was stored
  lost,       \* the writes that failed: <<pass, agent, "start" or "finish">>
  crashes

vars == <<pass, served, inputs, context, runs, snapshots, lost, crashes>>

NoInputs ==
  [positions |-> {}, curve |-> <<>>, market |-> [trend |-> "none", vix |-> -1, priced |-> {}],
   news |-> <<>>, chains |-> <<>>, underlyings |-> {}]

NoContext ==
  [portfolio |-> "none", stock |-> <<>>, market |-> "none", news |-> <<>>, options |-> <<>>,
   degraded |-> <<>>]

NothingServed == [failed |-> {}, chains |-> <<>>]

First(caller) == IF caller = "node" THEN "repo" ELSE "fetch"

NewPass(n, caller, source) ==
  [n |-> n, caller |-> caller, source |-> source, at |-> First(caller), attempt |-> 1,
   raised |-> <<>>, agent |-> 1, row |-> 0, failure |-> <<>>]

Init ==
  /\ \E caller \in {"node", "endpoint"}, source \in {"live", "provider"} :
       /\ caller = "endpoint" => source = "live"
       /\ pass = NewPass(1, caller, source)
  /\ served = NothingServed /\ inputs = NoInputs /\ context = NoContext
  /\ runs = <<>> /\ snapshots = {} /\ lost = {} /\ crashes = 0

Over == pass.at \in {"context", "failed", "raised", "503", "500", "dead"}

Goto(place) == pass' = [pass EXCEPT !.at = place]
MayFail == Cardinality(lost) + crashes < MaxFaults

-----------------------------------------------------------------------------
(* The run repository reflects its table: the node opens it before its try.   *)

AfterRepo == IF pass.caller = "node" THEN "fetch" ELSE "agent"

OpenRepo ==
  /\ pass.at = "repo"
  /\ Goto(AfterRepo)
  /\ UNCHANGED <<served, inputs, context, runs, snapshots, lost, crashes>>

RepoFails ==
  /\ pass.at = "repo" /\ MayFail
  /\ Goto(IF pass.caller = "node" THEN "raised" ELSE "500")
  /\ lost' = lost \cup {<<pass.n, "repo", "open">>}
  /\ UNCHANGED <<served, inputs, context, runs, snapshots, crashes>>

-----------------------------------------------------------------------------
(* The fetch.  Only the portfolio can fail it; IngestError hides the type of   *)
(* whatever went wrong.                                                       *)

AfterFetch == IF pass.caller = "node" THEN "agent" ELSE "repo"

\* What POST /analyze answers when its inputs cannot be built.
Refusal(e) == IF e.kind = "IngestError" THEN "503" ELSE "500"

\* The provider raised e.
Fail(e) ==
  pass' = [pass EXCEPT
    !.raised = Append(@, e),
    !.attempt = IF pass.caller = "node" /\ AfterAttempt(@, e) = "again" THEN @ + 1 ELSE @,
    !.at = IF pass.caller = "endpoint" THEN Refusal(e)
           ELSE IF AfterAttempt(pass.attempt, e) = "again" THEN "fetch" ELSE "failed",
    !.failure = IF pass.caller = "node" /\ AfterAttempt(pass.attempt, e) # "again"
                THEN <<FailurePayload("ANALYZING", Surfaced(pass.attempt, e))>> ELSE @]

Source(name, ok) == IF ok THEN {} ELSE {name}

\* Account and positions, whatever the trading API answers to either.
FetchPortfolio ==
  /\ pass.at = "fetch" /\ pass.source = "live"
  /\ \E credentials \in SUBSET {"key", "secret"}, account, reply \in AlpacaReplies,
        rows \in PositionSets \cup {{"no symbol"}} :
       LET portfolio == PortfolioState(credentials, account, reply, rows)
           reached == ~PortfolioUnreachable(credentials, account, reply) IN
       /\ IF portfolio.raises = "none"
          THEN /\ inputs' = [NoInputs EXCEPT !.positions = portfolio.positions,
                                             !.underlyings = portfolio.positions]
               /\ Goto("market")
          ELSE Fail(Plain(portfolio.raises)) /\ UNCHANGED inputs
       /\ served' = [NothingServed EXCEPT !.failed = Source("portfolio_state", reached)]
  /\ UNCHANGED <<context, runs, snapshots, lost, crashes>>

FetchMarket ==
  /\ pass.at = "market"
  /\ \E index \in IndexReplies, bars \in BarReplies :
       /\ inputs' = [inputs EXCEPT !.market = MarketSlice(index, bars, Held(inputs.positions))]
       /\ served' = [served EXCEPT !.failed = @ \cup Source("market_state", GetBars(index).ok)]
  /\ Goto("news")
  /\ UNCHANGED <<context, runs, snapshots, lost, crashes>>

FetchNews ==
  /\ pass.at = "news"
  /\ \E pages \in NewsReplies :
       /\ inputs' = [inputs EXCEPT !.news = NewsSlice(pages, Held(inputs.positions))]
       /\ served' = [served EXCEPT !.failed =
            @ \cup Source("news_context", inputs.positions = {} \/ GetNews(pages).ok)]
  /\ Goto("chains")
  /\ UNCHANGED <<context, runs, snapshots, lost, crashes>>

FetchChains ==
  /\ pass.at = "chains"
  /\ \E chains \in [ToSet(Underlyings(Held(inputs.positions))) -> ChainReplies] :
       /\ inputs' = [inputs EXCEPT !.chains = OptionChains(chains, Held(inputs.positions))]
       /\ served' = [served EXCEPT
            !.chains = chains,
            !.failed = @ \cup Source("option_candidates",
              \A s \in DOMAIN chains : GetChain(chains[s], LiveChainPages).ok)]
  /\ Goto(AfterFetch)
  /\ UNCHANGED <<context, runs, snapshots, lost, crashes>>

\* A provider the caller handed in returns its inputs, under the state's cycle id, or
\* raises what it likes.
FetchHandedIn ==
  /\ pass.at = "fetch" /\ pass.source = "provider"
  /\ \/ inputs' \in HandedIn /\ Goto("agent")
     \/ (\E e \in Exceptions : Fail(e)) /\ UNCHANGED inputs
  /\ UNCHANGED <<served, context, runs, snapshots, lost, crashes>>

-----------------------------------------------------------------------------
(* The assembler: a row is opened, the agent runs, the row is closed; a row    *)
(* that cannot be written never stops the pass.                               *)

Agent == Agents[pass.agent]
Row(status) == [pass |-> pass.n, agent |-> Agent, status |-> status]

RecordStart ==
  /\ pass.at = "agent" /\ pass.agent \in DOMAIN Agents
  /\ \/ /\ runs' = Append(runs, Row("started"))
        /\ pass' = [pass EXCEPT !.at = "run", !.row = Len(runs) + 1]
        /\ UNCHANGED lost
     \/ /\ MayFail
        /\ runs' \in {runs, Append(runs, Row("started"))}   \* not written, or not acknowledged
        /\ pass' = [pass EXCEPT !.at = "run", !.row = 0]
        /\ lost' = lost \cup {<<pass.n, Agent, "start">>}
  /\ UNCHANGED <<served, inputs, context, snapshots, crashes>>

Replies(agent) ==
  Bodiless \cup (CASE agent = "stock" -> [kind : {"object"}, body : StockReplies]
                   [] agent = "market" -> [kind : {"object"}, body : MarketReplies]
                   [] agent = "news" -> [kind : {"object"}, body : NewsVerdicts]
                   [] OTHER -> {})

CloseWithOutputs(table, result) ==
  IF pass.row = 0 THEN table ELSE [table EXCEPT ![pass.row].status = "outputs"]

\* finish() takes the outputs of a value, or else the error.
Close(table, result) ==
  IF pass.row = 0 THEN table
  ELSE [table EXCEPT ![pass.row].status = IF result.raised THEN "error" ELSE "outputs"]

RecordFinish(result) ==
  \/ runs' = Close(runs, result) /\ UNCHANGED lost
  \/ /\ pass.row # 0 /\ MayFail
     /\ runs' \in {runs, Close(runs, result)}
     /\ lost' = lost \cup {<<pass.n, Agent, "finish">>}

Merge(result) ==
  IF result.raised THEN [context EXCEPT !.degraded = Append(@, Section[Agent])]
  ELSE [context EXCEPT ![Agent] = result.value]

RunAgent ==
  /\ pass.at = "run"
  /\ \E result \in {Run(Agent, Slice(Agent, inputs), reply) : reply \in Replies(Agent)}
                     \cup (IF Agent \in Replaced THEN {Raised} ELSE {}) :
       RecordFinish(result) /\ context' = Merge(result)
  /\ pass' = [pass EXCEPT !.at = "agent", !.agent = @ + 1, !.row = 0]
  /\ UNCHANGED <<served, inputs, snapshots, crashes>>

\* Without the Portfolio agent's section the context carries the raw snapshot.
Assembled ==
  IF Section["portfolio"] \in ToSet(context.degraded)
  THEN [context EXCEPT !.portfolio = [positions |-> inputs.positions, concentration |-> "snapshot",
                                      drawdown |-> "snapshot", volatility |-> "snapshot"]]
  ELSE context

\* A snapshot that cannot be stored costs the node nothing and the endpoint its answer.
WithoutSnapshot == IF pass.caller = "node" THEN "context" ELSE "500"

Finish ==
  /\ pass.at = "agent" /\ pass.agent > Len(Agents)
  /\ context' = Assembled
  /\ \/ Goto("context") /\ snapshots' = snapshots \cup {pass.n} /\ UNCHANGED lost
     \/ /\ MayFail
        /\ Goto(WithoutSnapshot)
        /\ lost' = lost \cup {<<pass.n, "snapshot", "save">>}
        /\ UNCHANGED snapshots
  /\ UNCHANGED <<served, inputs, runs, crashes>>

-----------------------------------------------------------------------------

\* The process dies; a cycle is resumed at the node it was in, a request is gone.
Crash ==
  /\ ~Over /\ MayFail /\ pass.agent <= LastCrash
  /\ crashes' = crashes + 1
  /\ pass' = IF pass.caller = "node" THEN NewPass(pass.n + 1, "node", pass.source)
             ELSE [pass EXCEPT !.at = "dead"]
  /\ served' = NothingServed /\ inputs' = NoInputs /\ context' = NoContext
  /\ UNCHANGED <<runs, snapshots, lost>>

Next ==
  \/ OpenRepo \/ RepoFails
  \/ FetchPortfolio \/ FetchMarket \/ FetchNews \/ FetchChains \/ FetchHandedIn
  \/ RecordStart \/ RunAgent \/ Finish
  \/ Crash

Spec == Init /\ [][Next]_vars

-----------------------------------------------------------------------------

\* A closed agent_runs row says what the context of its pass says of the agent (an error
\* iff the section is degraded), a finished pass has one row per agent, and what is
\* missing or still open in the table was lost to a failing write or to a crash.
RunsOf(n, agent) == {i \in DOMAIN runs : runs[i].pass = n /\ runs[i].agent = agent}

RunsTellTheContext ==
  /\ \A k \in DOMAIN Agents :
       pass.at \in {"agent", "context"} /\ k < pass.agent =>
         LET agent == Agents[k]
             rows == RunsOf(pass.n, agent)
             degraded == Section[agent] \in ToSet(context.degraded) IN
         /\ Cardinality(rows) <= 1
         /\ rows = {} => <<pass.n, agent, "start">> \in lost
         /\ \A i \in rows : \/ runs[i].status = IF degraded THEN "error" ELSE "outputs"
                            \/ \E write \in {"start", "finish"} : <<pass.n, agent, write>> \in lost
  /\ \A i \in DOMAIN runs :
       runs[i].status = "started" =>
         \/ i = pass.row
         \/ runs[i].pass < pass.n \/ pass.at = "dead"
         \/ \E write \in {"start", "finish"} : <<runs[i].pass, runs[i].agent, write>> \in lost

\* Judged by the exceptions it raised, by their type and their text -- a live fetch raises
\* IngestError whatever went wrong --: a failed fetch was tried again while its exception
\* called itself a blip and no further, a permission problem is never tried twice and halts
\* the cycle, and nothing was analysed.
Unrepairable(e) ==
  \/ e.kind \in {"AlpacaCredentialsError", "CriticalFailure"}
  \/ e.kind = "AlpacaError" /\ e.auth

GivesUpForACause ==
  pass.at = "failed" =>
    LET tries == Len(pass.raised)
        blip(e) == e.kind = "TransientError" \/ (e.kind = "AlpacaError" /\ e.busy) IN
    /\ tries <= MaxAttempts
    /\ \A i \in 1..tries - 1 : blip(pass.raised[i]) /\ ~Unrepairable(pass.raised[i])
    /\ blip(pass.raised[tries]) => tries = MaxAttempts \/ Unrepairable(pass.raised[tries])
    /\ Unrepairable(pass.raised[tries]) => pass.failure[1].halted
    /\ \A i \in DOMAIN runs : runs[i].pass < pass.n
    /\ context = NoContext

\* News of a holding is never lost silently: an analysis carries it, or says that its news
\* section is degraded (its agent raised); and no answer of the LLM attaches news to a
\* symbol that is not held.
HoldingNewsCarried ==
  \A i \in DOMAIN inputs.news :
    LET holdings == inputs.news[i].symbols \cap inputs.positions IN
    holdings # {} => \E k \in DOMAIN context.news :
                       context.news[k].article = i /\ holdings \subseteq context.news[k].symbols

NewsOfHoldings ==
  pass.at = "context" =>
    /\ HoldingNewsCarried \/ Section["news"] \in ToSet(context.degraded)
    /\ \A k \in DOMAIN context.news :
         /\ context.news[k].symbols \subseteq inputs.positions
         /\ context.news[k].symbols = {} => context.news[k].event

\* The contracts of a chain, whether they were asked for or not.
Contracts(pages) == Len(FlattenSeq([i \in DOMAIN pages |-> pages[i].items]))

\* A chain is used whole or not at all, and what the cap leaves out of a candidate's chain
\* is no more liquid than the candidate.
BestOfAWholeChain ==
  /\ served.chains # <<>> =>
       \A k \in DOMAIN inputs.chains :
         Len(inputs.chains[k].quotes) = Contracts(served.chains[inputs.chains[k].underlying])
  /\ pass.at = "context" =>
       \A k \in DOMAIN context.options :
         LET kept == context.options[k] IN
         \E chain \in ToSet(inputs.chains) :
           /\ chain.underlying = kept.underlying /\ kept.quote \in ToSet(chain.quotes)
           /\ \A quote \in ToSet(chain.quotes) :
                IsCandidate(quote) /\ quote.oi > kept.quote.oi =>
                  \E j \in DOMAIN context.options :
                    context.options[j].underlying = kept.underlying /\ context.options[j].quote = quote

-----------------------------------------------------------------------------
(* Documented, and not so: TLC finds each of them violated.                   *)

\* A source that failed leaves an empty slice and the analysis degrades its section
\* (agents/ingest.py:21-23).
FailedSourceIsDegraded ==
  pass.at = "context" => served.failed \subseteq ToSet(context.degraded)

\* "a transient blip fetching live inputs is retried" (nodes.py:301-302): a cycle gives its
\* live fetch up only after as many attempts as the policy allows when the venue could not
\* be reached.
LiveBlipIsRetried ==
  pass.at = "failed" /\ served.failed # {} => Len(pass.raised) = MaxAttempts

\* "CRITICAL -> do not trade: portfolio unavailable" (resilience.py:15-17): a live fetch that
\* failed for good, which is always the portfolio's, halts the cycle.
PortfolioFailureHalts ==
  pass.at = "failed" /\ pass.source = "live" => pass.failure[1].halted

\* "If it is unavailable, a deterministic fallback keeps exactly the held-symbol items"
\* (news/agent.py:11-13): news of a holding survives every answer of the LLM, as long as the
\* agent is the one of the repository.
NewsFallsBack == pass.at = "context" /\ "news" \notin Replaced => HoldingNewsCarried
=============================================================================
