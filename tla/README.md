# A TLA+ model of the AEGIS hedge agent

AEGIS is an agent that protects a stock portfolio with options.  It analyses the
portfolio, lets several strategy families propose a hedge, puts the chosen one through
a deterministic risk gate and a language model, sends it to the Alpaca broker, and from
then on monitors it and changes it when a trigger fires.  This directory models the parts
of `src/backend` that decide what happens to an order and what its tables tell about it,
checks them with TLC and proves the main results of the core with TLAPS.

Contents: [the system](#the-system) · [the modules](#the-modules) ·
[the runs](#the-runs) · [the proofs](#the-proofs) ·
[disagreements](#where-the-code-and-its-own-words-disagree) ·
[not modelled](#what-is-not-modelled) · [what is left](#what-is-left) ·
[how to run](#how-to-run)

## The system

Paths are relative to `src/backend`.

| component | state | operations | modelled in |
|---|---|---|---|
| Orchestrator graph: `agents/orchestrator/graph.py`, `nodes.py`, `persistence.py` | `OrchestratorState` of one invocation, `workflow_transitions` | one body per node (INITIAL, ANALYZING, STRATEGY_EVALUATION, RISK_CHECK, EXECUTION, MONITORING) with an ENTER and an EXIT row, conditional edges | `HedgeCycle`, `CycleRecords`; node by node also `Analysis`, `DecisionPipeline`, `AdaptiveLoop` |
| Hedge changes: `agents/monitoring/apply_change.py` | `hedge_changes`, `orders`, `risk_checks` | gate, plan, submit and record a close; start a reopen cycle | `HedgeCycle`, `HedgeBook` |
| Order submission: `integrations/alpaca/orders.py`, `client.py`, `api/execute.py` | live orders at the broker | submit a combo, or leg by leg when combos are refused; three callers | `OrderSubmission`, `OrderPlan` |
| Execution results: `agents/execution/result.py`, `models/execution.py` | `orders`, `fills`, `execution_failures` | map the broker's answer to a status, flag a naked short | `ExecutionResult` |
| Resilience: `agents/orchestrator/resilience.py` | none | sort a failure, retry, halt or degrade | `Resilience` |
| Analysis: `agents/ingest.py`, `assembler.py`, `context_builder.py`, the five agents, the market, news and option clients | `agent_runs`, `portfolio_snapshots` | fetch the slices, run the agents, assemble the context | `VenueData`, `AnalysisAgents`, `Analysis` |
| Strategies: `agents/strategies/*` | none | propose, pre-filter, validate the language model's choice, fall back | `OptionBook`, `StrategyAgents`, `StrategyManager` |
| Risk gate and plan: `agents/risk/*`, `agents/execution/plan.py`, `preflight.py` | `risk_checks` | every check, the language model's APPROVE, MODIFY or REJECT, the plan, the pre-flight | `RiskGate`, `OrderPlan`, `DecisionPipeline` |
| Level 1: `agents/monitoring/agent.py`, `triggers.py` | `monitoring_state`, `monitoring_events` | which triggers fire, deadband | `Level1` |
| Level 2: `agents/monitoring/reassessment.py` | `reassessment_events` | escalate or not, the answer or the heuristic | `Reassessment` |
| The hedge on the book: `reconstruct_current_hedge` in `agents/ingest.py` | reads `strategy_decisions`, `orders` | what the next context believes is held | `HedgeBook`, `AdaptiveLoop` |
| Event stream: `api/workflow.py` | one watermark per connection | poll `workflow_transitions`, send, close | `WorkflowStream`, `LogFollower` |
| Read-back: `api/decision_trail.py`, `exec_readback.py`, `strategy_evaluate.py`, ... | reads every table | answers put together from several queries | `ReadBack`, `Reading` |
| Cycle runner: `agents/orchestrator/runner.py`, `db/workflow_repo.py` | `workflow_state`, `workflow_transitions` | run, checkpoint, halt on an interrupt, resume | `CycleRunner` |
| Monitor scheduler: `api/monitor.py`, `api/app.py` | `_running`, `_jobs`, one timer per job | register, start, stop, fire, re-arm | `MonitorScheduler` |
| Frontend: `../frontend/src`, its dashboard page | the query cache of one page | poll the state, read the panels of the cycle it names, refetch, start a cycle | `Dashboard` |
| Prompts, provider, demo replay, seeds, scripts | | | no module |

What is hard here, and what the properties are for:

- **The broker and the database are two systems.**  An order is live before its row
  exists; a crash, a lost reply or a failed write between the two leaves them in
  disagreement, and the guard that keeps a cycle from ordering twice reads the row.
- **One `cycle_id`, several actors.**  A cycle, its re-invocation, a monitoring tick and
  the reopen cycle that a REPLACE starts inside MONITORING all work under one id, with the
  same tables and no lock.
- **Several legs, one status.**  The result of an order is folded out of what the broker
  says of each leg, and each leg goes on living after it was asked.
- **Best effort.**  Most writes and most sources swallow errors; what is lost then must not
  matter, or must show.
- **The language model.**  It may not answer, answer nonsense, or change the plan; the rules
  around it must hold whatever it says.
- **Limits in several places.**  The pre-filter, the gate, the modifications, the plan and
  the pre-flight judge the same hedge one after the other.
- **Memory by reconstruction.**  What the next cycle knows of the hedge is rebuilt from
  tables several cycles wrote for other purposes.
- **Readers beside writers.**  Trails, executions and the event stream are several queries
  over rows that appear one transaction at a time.
- **Interrupts and timers.**  The runner is stopped anywhere and another run takes over;
  the scheduler has threads and no lock.

## The modules

`PROJECT.json` maps every definition to the lines it stands for.

```
HedgeCycle ------ HedgeCycle_proofs              Level1 -- Reassessment --+
CycleRunner ----- CycleRunner_proofs                          HedgeBook --+-- AdaptiveLoop
MonitorScheduler                                 OptionBook -- StrategyAgents -- StrategyManager --+
ExecutionResult -+- OrderSubmission              OptionBook -- RiskGate -- OrderPlan --------------+-- DecisionPipeline
                 +- CycleRecords -+- ReadBack -------+
                                  +- WorkflowStream -+-- Reading      (implements LogFollower)
VenueData -- AnalysisAgents --+
Resilience -------------------+-- Analysis       Dashboard -- Dashboard_proofs
```

`OrderSubmission`, `DecisionPipeline`, `Reading` and `Analysis` have their proofs in
`<module>_proofs` too; those of `AdaptiveLoop` and of `MonitorScheduler`, which starts its ticks,
are in `Monitoring_proofs`.

### The life of an order: `ExecutionResult`, `OrderSubmission`

`ExecutionResult` holds the pure part of `agents/execution/result.py`: the broker's
words (`map_broker_status`), the tally of legs, `build_execution_result` with the
validator of `models/execution.py`, the recovery flag, the row status.
`OrderSubmission` follows one plan through `submit_plan`: the combo, its refusal, the
fallback to independent legs, `_combine_legged`, the mapping, and what each of the
three callers writes.  The broker is the environment: it accepts an order and
reports any mixture of leg states, refuses it, accepts it and loses the reply, and
goes on working live legs after it has replied.  One action stands for one call to
the broker or to the database; the thread can die between any two.

### The life of a cycle: `HedgeCycle`

The graph, MONITORING's Level 2, `apply_change`, the nested reopen cycle and the
monitoring tick, under one `cycle_id` (the tables are only ever asked by `cycle_id`).
`Runs` are the invocations.  `run[r]` is the `OrchestratorState` of an invocation
with a program counter; `book` is the broker's memory; `orders`, `checks`, `failures` and
`changes` are the tables, reduced to what a property or a guard can see.  An action is
what happens between two calls that other threads or a crash can separate, so the guard
of EXECUTION (`_order_already_on_file`), the submission and the row are three steps.
What an agent answers is chosen freely here and computed in the modules below.
`ApprovedLeavesARow` is about all three gates of an invocation (the cycle's, the reopen's and
the close's) and asks for the row of that very order; it makes an exception for two cases
only, both of them in the code: another order of the cycle was on file and kept this one back, or an exception that
the node does not catch left it (`escaped`).  `gaps` is a history variable: it names what may make the orders table say less than the broker knows
(invocations that overlapped; an order or a row that was lost).  The properties that
depend on the table are stated for cycles without such a gap, and the runs show that the
named gaps are the only ones.

### Over several cycles: `Level1`, `Reassessment`, `HedgeBook`, `AdaptiveLoop`

`Level1` computes which triggers a context fires, in whole percent points: the absolute
checks, the emergency and change evaluators and the deadband, in the order in which
`_run_level1_checks` applies them.  `Reassessment` is `should_escalate`, the model's answer,
and the heuristic that replaces it.  `HedgeBook` is `reconstruct_current_hedge` and the legs
of a change with their quantities (`_close_quantity`, `build_change_hypothesis`).
`AdaptiveLoop` composes them: cycles and ticks follow one another, each under its own
`cycle_id`; a cycle first decides and trades; both end in MONITORING; an order fills at
once, later or never (partial fills are in `OrderSubmission`); and `position` is what the broker holds, next to what the next
context believes.  What is checked is the distance between the two.

Three facts of the code shape this module.  Nothing calls `start_cooldown`, so no cooldown is
ever in force.  The previous monitoring state is rebuilt from a row without the numbers a
change is measured against, so change triggers never fire (`ThinPrevious`).  Live ticks have no
broker and live market data has no VIX; the readings of the instance include both worlds.
A breach that VIX alone shows is measured against the deadband in points where volatility
would be a ratio, so without a volatility it always passes.

### From a context to an order: `OptionBook`, `StrategyAgents`, `StrategyManager`, `RiskGate`, `OrderPlan`, `DecisionPipeline`

Options and hypotheses are records of integers (cents, days, percent).  `StrategyAgents` are
the four families; `StrategyManager` the pre-filter, the validation of the model's choice,
the fallback and the REASSESS override of a degraded context; `RiskGate` every deterministic
check with its violation code, the rails around the risk prompt, and which rows of
`risk_checks` its `_validate` accepts; `OrderPlan` the modifications, the constraints, the
pre-flight and the payload.  `DecisionPipeline` runs one context through all of them, for the
graph; and it runs what is posted to `POST /execute`.  That endpoint takes the `RiskDecision`
of its body for cleared, and no gate runs on the server: `Posted` holds decisions that
a gate could have made and ones that none has.  What is said of cover and cost is therefore said of the
graph, and that nothing the decision asks for gets lost is said of both.  The market moves on
in between: the graph runs its pre-flight on the context of the analysis, the endpoint on the
one its caller sends.

### The analysis: `VenueData`, `AnalysisAgents`, `Resilience`, `Analysis`

`VenueData` is what a paged venue may answer (an object, garbage, a page that points to
another, nothing) and what each fetch of `agents/ingest.py` makes of it, including the
`except` around each slice.  `AnalysisAgents` are the slices and the five agents on them.
`Resilience` is which failure is transient, an authentication failure or critical, and what
each does to a cycle.  `Analysis` is one pass: fetch, the agents one by one with an
`agent_runs` row that is opened and closed, the context, the snapshot, for the ANALYZING node
with its retries and for `POST /analyze`.  The process can die between two steps and the
cycle then analyses again under the same `cycle_id`; every best-effort write can be lost
(`lost` names it).

### What is written and what is read: `CycleRecords`, `ReadBack`, `WorkflowStream`, `Reading`

`CycleRecords` is the same cycle as in `HedgeCycle` seen from the tables: which rows each
node writes, in which order, in which transactions, and which failing write ends the cycle.
An order whose answer gives no terminal result, one that is still working among them, is stored
as REJECTED.  A close goes on without the row of its check when that row's repository cannot be
built.  An answer that no contract shape fits, and constraints that are no constraints, leave
EXECUTION as exceptions and end the thread (`Thrown`), so nobody writes MONITORING EXIT.
`ReadBack` is the decision trail, `GET /execution` and `GET /cycle/{id}/state`, a query a step.
`WorkflowStream` is one SSE connection: resolve the cycle, poll for rows above the
watermark, send, close on MONITORING EXIT.  `Reading` puts a reader beside the writer.

**Refinement.**  `LogFollower` is what the docstring of the stream promises: one event per row
of the followed cycle's log, in its order, none twice and none left out, closing only behind
a row that ends a cycle or when there is no cycle to follow.  `WorkflowStream` instantiates
it (`Follower == INSTANCE LogFollower WITH ...`, the log being that of the cycle the connection
resolved to), and the property `FollowsTheLog == Follower!Spec` says that watermark, polling and failed
queries implement it.  The run `reading` checks it and `Reading_proofs` proves it.

### `CycleRunner`

`CycleRunner.run` over the repository calls it makes, by any number of runs on one
database.  A row is the latest `workflow_state` row of a cycle; `ran` remembers
which bodies have finished, and row ids are reduced to the question which cycle's
latest row is older.  `inTurn` is a history variable: it marks a run that resumes and has
had the database to itself so far.  An interrupt can strike anywhere in the `try` block,
also after the transaction of a checkpoint and before the `append` that follows.

### `MonitorScheduler`

`MonitorScheduler` and the startup and shutdown hooks, statement by statement, by
the main thread and the timer threads.  The job is the one the application installs
(`api/app.py:104`): a tick enters `TestClient(create_app())`, whose startup hook registers
and starts the process-wide scheduler from inside the tick, and whose shutdown hook stops it.
Little is true of that: the flag always has an owner (`RunningHasOwner`), but a job may be armed
twice and the ticking may end, as [below](#where-the-code-and-its-own-words-disagree).

### `Dashboard`

One page of the frontend over cycles that write rows.  `workflow` is the poll of the latest
state row and `views` stands for the panels, one query per cycle whose answer is a list.  An
answer is a number, how much was on file when the server read it, so that an older answer is
a smaller one; `flights` holds the request under way or the answer on its way back.  What a
query does is TanStack Query's: the interval joins a request under way, `refetch()` cancels it,
a key with data is read again only when it has become stale, data outlives a failure.
`ReceiveWorkflow` is one render: the key changes with the cycle, and the effect on status and
cycle runs.  Left out are the panels before a cycle is known, the state rows between a cycle's
first and last (they name a cycle the page may already follow), and the removal of data nobody
has looked at for five minutes.

### How the parts meet

`OrderSubmission` is the inside of the submit and persist steps of `HedgeCycle` (there the
answer is one of: taken and mapped, taken and unmappable, refused or lost);
`DecisionPipeline`, `Analysis` and `AdaptiveLoop` compute what `HedgeCycle` lets an agent
answer freely; `CycleRecords` lets the outcomes be free and keeps the rows;
`MonitorScheduler` calls what `HedgeCycle` and `AdaptiveLoop` model as a tick.

## The runs

| run | instance | properties |
|---|---|---|
| `order_submission` | plans of one and two legs, three callers | `NoFalseSuccess`, `CancelledRowHoldsNothing`, `NakedShortIsFlagged`, `UnrecordedOrderHasCause`, `ReplyIsRecorded` (liveness): a status never says more than the fills, and an order without a row has a named cause |
| `hedge_cycle` | two invocations, each a cycle or a tick, overlapping or not, dying anywhere | `GatedOrders`, `OrderOnFile`, `OneOpenOrder`, `ApprovedLeavesARow`, `SubmitOnce` |
| `hedge_cycle_db_fails` | one invocation, whose database answers or fails call by call | `EveryInvocationEnds` (liveness) |
| `adaptive_loop` | three cycles or ticks, legs of seven contracts, eight readings of the market | `EmergencyEscalates`, `FallbackNeverTrimsInEmergency`, `TrimLandsOnTarget`, `IdleDecisionHidesNothing` |
| `decision_pipeline` | fourteen contexts, 215 answers of the risk prompt, both callers, posted decisions with single and paired changes | `PrefilterAgreesWithGate`, `GraphOrderIsCovered`, `ModificationsAreKept` |
| `analysis` | pages, articles, chains and verdicts of each kind, three attempts, a death or a lost write | `RunsTellTheContext`, `GivesUpForACause`, `NewsOfHoldings`, `BestOfAWholeChain` |
| `reading` | one cycle, one family, four broker answers (filled, a leg unfilled, still working, filled short), one reader | `PointsAtWhatItLists`, `TradeHasItsReasons`, `ExecutionIsReported`, `AnnouncedIsFinal`, `FollowsTheLog` (refinement), `SeesTheEnd` (liveness) |
| `cycle_runner` | three runs, two cycles, overlapping or not, some with `resume=False` | `RowsAreEarned`, `InterruptedIsFound`, `FallsBackByOneNode` (action property) |
| `dashboard` | two cycles, one row each, one failure | `ViewNeverGoesBack` (action property), `RefreshIsFresh`, `PollCatchesUp` (liveness) |
| `monitor_scheduler` | the default tick, one boot and one shutdown, three timers | `RunningHasOwner` |

The types (`TypeOK`) are proved for each of the state machines that has them; `order_submission`, where
they are the statuses a row may hold, checks them as well.  The two runs that are expected to find a
violation are listed [below](#where-the-code-and-its-own-words-disagree).

**Bounds.**

- `HedgeCycle`: two invocations are what it takes for every conflict, one that leaves
  something behind or is under way, and one that meets it; each contains three places an
  order can come from.  The graph has no loop.
- `OrderSubmission`: two legs are the widest a strategy family builds; one of them may be
  short, which is what the recovery flag is about.
- `AdaptiveLoop`: `MaxRuns` = 3 is one run that opens, one that changes and one that reads
  back what the change left; the markets of `MCMarkets` lie on both sides of each
  threshold that decides an outcome.  Every fresh leg is of seven contracts, which the ratios
  of `TrimLandsOnTarget` split into shares that round up, round down and tie.
- `DecisionPipeline`: each context of `MCBooks` makes a family be proposed, dropped or
  refused for a reason of its own; modifications come singly and in pairs, which is what
  "a later one replaces an earlier one" needs.
- `Analysis`: one death or one lost write (`MaxFaults`), a death up to the second agent
  (`LastCrash`), the caps scaled to two (`CandidateCap`, pages), `MaxAttempts` as in the code.
  The two agents in `Replaced` stand for the `agent_fns` of a caller and may fail at
  will; the others fail for the reasons the code has.
- `Reading`: one connection, query or evaluation at a time, because reading changes no row;
  transition rows can be lost at MONITORING, the one the stream waits for, once.
- `CycleRunner`: two runs that conflict and one that resumes; two cycles give
  `latest_unfinished_cycle` a choice.
- `Dashboard`: two cycles are one to follow and one to change to; one row (`MaxRows`) is one to be
  missed, and one failure falls on any request or on the button.
- `MonitorScheduler`: timers and jobs are pools whose members are used again when nothing
  refers to them; a tick at work needs its own timer and those it arms, so three let two
  ticks overlap.

Runs of `CycleRunner` and invocations of `HedgeCycle` are interchangeable; symmetry is used
in runs without liveness properties only.

**Fairness.**  `HedgeCycle` and `OrderSubmission` have weak fairness on the steps of a
thread that has started: it is one thread of the server, and each call it makes has a
timeout or a bounded retry.  Starting an invocation, the choices of the environment and
crashes are not fair.  `Reading` has weak fairness on the cycle's thread and on the
generator of an open connection (a client that stays connected); questions and lost rows are
not fair, and `SeesTheEnd` names the two ways in which a stream never ends: a transition row was
lost, or the thread died in EXECUTION.  `Dashboard` has weak fairness on the poll of a page that
stays open, on the server's answers and their arrival, and on the last row of a cycle's thread;
clicks, failures and what a cycle writes are not fair.  The other modules have safety properties only.

`CHECK_DEADLOCK FALSE` stands in each configuration because each system may stop: all
invocations have ended, all runs returned, the answer was given, the application is down.

## The proofs

**`HedgeCycle_proofs`** proves, for every set of invocations and whether or not the
database can fail, `TypeOK`, `GatedOrders`, `SubmitOnce`, `OrderOnFile`,
`OneOpenOrder` and `ApprovedLeavesARow`.  The only assumption is `DbFailsAssumption`.  None of the safety
properties is inductive: that a placed order was cleared depends on where the
invocation is and on the verdict it carries.  `IInv` adds

- `Local(r)`, what is known of an invocation by itself: `Shape` (its steps belong to
  its node; Level 2 never runs inside the reopen cycle), `Order` (what it has placed
  or recorded says how far it is), `Cleared` (the verdict it carries is the one in
  the table), `Gated` and `Once`;
- `Alone`, which relates invocations: without a gap one works at a time, and one that
  has passed the guard of EXECUTION does so on an orders table that is still empty.

The proof first shows that every action stays within a frame (`ActFrame`: it changes
its own invocation's entries and no others), so that the local part needs the acting
invocation only (`LocalStep`, `LocalOthers`); then that without gaps a step does one
of three things (`Effect`: nothing to be seen outside, an order to the broker, the
row of the order just placed), from which the statements about the tables
follow.  `ApprovedLeavesARow` needs one more part, `Accounted`, for each of the three
gates and without excepting gaps: what was approved is still on its way (`Underway`, `Closing`), or
a row says what became of it, or one of the two causes of the property kept it back, or the
invocation was cut off (`Told`, `ToldClose`).  `AInv` is `IInv` with this part; the causes
outlast the steps of other invocations because no row is ever removed.

**`OrderSubmission_proofs`** proves all five invariants of the run `order_submission` for
plans of any number of legs, from `MaxLegsAssumption`.  The broker goes on working a live leg
after it has replied, so what the row says has to be traced back to the reply.  `IInv`
follows it: `Held` and `Stage` (what the broker can hold, and what there is at each step of
the thread), `Heard` (what the reply says of the legs), `Judged` (what the mapping made of the
reply) and `Settled` (what was final in the reply still is).

**`Reading_proofs`** proves that `Reading` implements `LogFollower` (`StreamFollows`), and
`ExecutionIsReported`, `TradeHasItsReasons`, `PointsAtWhatItLists` and `AnnouncedIsFinal`, for any
families, broker answers, lost rows and earlier logs, from `FamiliesAssumption` (names),
`BrokerCasesAssumption` (an answer tells of finitely many legs) and `EarlierLogsAssumption`.
`AllInv` has five parts:

- `RInv`, for the stream: the logs are sequences of rows (`Logged`) and what was sent is the log
  up to the last id (`Sent`).  Every step of the cycle adds one row to its log or none
  (`CycleGrows`), and every step of a connection is a step of the follower or a stutter;
- `RecInv`, for the tables: the order in which nodes run (`Placed`) decides which rows are there
  when a node saves its own, or known to be lost (`Founded`, with the check of a close among
  them), and a decision points into the
  hypotheses of its own evaluation although two evaluations share the table (`Pointed`);
- `Ended`, that a node whose EXIT was logged has been left for good, and `Alone`, that a second
  evaluation and a connection do not overlap;
- `RdInv`, for a question under way: what its earlier queries found (`TrailRead`,
  `ExecutionRead`, `StateRead`).  It survives what is written in between because no row is
  touched again (`Grown`).

**`Monitoring_proofs`** proves the four properties of the run `adaptive_loop`, for any readings,
tables of any length and any number of runs.  `FallbackNeverTrimsInEmergency` and
`EmergencyEscalates` rest on facts about one context, `EmergencyFires` for the triggers and
`HeuristicHolds` for the rules (from `NoneAssumption` and `MarketsAssumption`: a reading is an
integer or missing), and `Working` carries them along the run.  `TrimLandsOnTarget` needs to know
that the legs a run closes are of one contract or more: `Booked` follows the legs from an order
to the tables and back into the next context (from `QuantitiesAssumption`), and the rest is the
arithmetic of rounding.  `IdleDecisionHidesNothing` compares two tables: a decision without an
order is passed over by the search for the latest change and by the search for its legs.

**`DecisionPipeline_proofs`** proves the three properties of the run `decision_pipeline` for any
contexts and answers, chains of any length and any number of changes, from `BooksAssumption`
(positions and candidates are of their types, and a chain lists a contract once: the venue's
chain is an object keyed by OCC symbol, `options.py:331-337`), `RiskRepliesAssumption` (a reply
carries a list of changes), `PostedAssumption` (a posted decision is of the schema of the body,
no more) and `NoneAssumption`.
None of the three is inductive, because an order is a matter of the whole way that led to it.
`Carried` says at each stage what it brought along: the selected hypothesis is a `Proposal` (what
the four families can build: nothing, a put bought, or beside it a put or a call of the same name
sold for as many contracts, within the budget), the pre-filter kept it, it is what was cleared and
nothing failed in it, the plan is made of what was cleared and the order of the plan.  Under it lie

- *the agents*: sums of one and of two legs (`SumUpIs`), the first of a ranking (`BestExists`, so
  `nearest_strike`, `min` and `max` return a candidate of their list), and one lemma per family
  (`PutProposed`, `SpreadProposed`, `CollarProposed`);
- *the manager*: whichever way a strategy is selected, it is one the pre-filter kept
  (`SelectedIsKept`), and that is inside the gate's limits (`KeptIsWithinLimits`);
- *the changes*: what holds between one change and the next (`Carries`, `ApplyCarries`),
  so of the draft with all of them (`DraftCarries`), whatever decision they came with;
- *the order*: its legs at the premiums of the analysis are those of the hypothesis
  (`RepricedIs`), so `CostIsBounded`; the shape of a proposal (`HasShape`) survives every
  change but a resized leg (`StrikesInOrder`, `AlikeIsBalanced`), and the cover follows from the checks that did
  not fail (`BoughtIsCovered`).

Where these lemmas need induction (a sum, a ranking, the changes one after the other) they take
the set of places up to which a statement holds and look at the least one outside it
(`NoLeastCounterexample`), which needs no induction theorem over an operator.

**`Analysis_proofs`** proves the four properties of the run `analysis`, for any symbols, pages,
caps, answers, verdicts, number of attempts and of faults.  The assumptions say what the venue and
the caller may hand over: a resource has pages, each an object or not, and a token on every page
but the last (`NewsRepliesAssumption`, `ChainRepliesAssumption`), the news agent's answer is a
list of symbols and an event flag (`NewsVerdictsAssumption`), a caller's inputs are what `AnalysisInputs` validates, types and no more
(`HandedInAssumption`), and the caps are natural numbers, positive where a client always asks once.
There are two inductive invariants:

- `LedgerInv`, for `RunsTellTheContext` and `GivesUpForACause`.  What `agent_runs` says is compared
  with a context that exists at the end only, so it follows the pass: the agents that are still to
  come have no row (`Ledger`), a row that is open is the running agent's or has a cause, a death or a
  lost write (`OpenRow`, `OpenRowsExplained`), sections nobody has worked on are untouched
  (`Untouched`), and a pass is one of the attempts the policy allows (`Attempts`).
- `ContentInv`, for `NewsOfHoldings` and `BestOfAWholeChain`, adds what was gathered before the
  agents ran (`Gathered`: chains are whole, and only a live pass has any that were served) and what
  the agents have made of it (`Analysed`: the news are attached to the holdings, the options are the
  best of their chains).

Under `ContentInv` lie lemmas about the operators.  The pages a client asked for are the first ones
(`AskedPrefix`), so a chain that is used has the contracts of all its pages (`ChainIsWhole`); what is
in a flattened sequence is in one of its parts (`FlattenHas`); ranks are a bijection (`Ranks`), so
what the cap leaves out is not more liquid than what it keeps (`MoreLiquidIsKept`).

**`Dashboard_proofs`** proves `TypeOK`, `RefreshIsFresh` and `ViewNeverGoesBack` for any number of
cycles, rows and failures, from `BoundsAssumption`.  `Sound` says what one query keeps to itself:
at most one request is under way, and its answer is not older than what is shown or than the
moment it was asked for.  Every operation on a query keeps it and goes forward, and what is on
file only grows (`OnFileGrows`).

**`CycleRunner_proofs`** proves `TypeOK`, `RowsAreEarned`, `InterruptedIsFound` and
`FallsBackByOneNode` for any runs and cycles, from `CyclesAssumption`.  A row is written
from what its run believes to be done, so `IInv` says where a run stands (`Stands`) and
that what it counts, and what it is about to checkpoint, has been done (`Earned`).
`FallsBackByOneNode` needs more: `TInv` adds that a run in its turn is alone (`Alone`,
`Waiting`) and that its count is the node of its cycle's latest row, or one behind it
between a checkpoint and the append (`Follow`).

For the scheduler, `Monitoring_proofs` proves, for any timers and jobs and from
`ThreadsAssumption`, `TypeOK` and `RunningHasOwner`, for the tick that starts and stops the
scheduler it runs under.  The flag is shared by threads without a lock: whichever of them
raised it last is past its start and before its stop, and a stop by another lowers it.

**Only model-checked.**  Liveness (fairness and ENABLED are out of the prover's reach):
`ReplyIsRecorded`, `EveryInvocationEnds`, `SeesTheEnd`, `PollCatchesUp`.  Every invariant and
action property of the passing runs has a theorem.

## Where the code and its own words disagree

Each of these runs checks one property that quotes the repository, and TLC finds a
behaviour of the code that breaks it; `PROJECT.json` has the quotes.

| run | what happens |
|---|---|
| `replace_never_reopens` | the orders row of a REPLACE's own close makes the guard of EXECUTION skip the reopened hedge |
| `removed_hedge_is_read_back` | a REMOVE is an outcome of Level 2 and never the action of a strategy decision, so the test for it in `reconstruct_current_hedge` never succeeds; the next context carries the legs of the closing order as a hedge |

More disagreements the models contain, without a run of their own.  TLC refutes the
named statement when it is checked under the configuration of its module:

- `NothingRaisedOutOfNode` (`OrderSubmission`): a leg filled short, with none unfilled, makes
  the result's own validator raise out of EXECUTION after the order went live
  (`result.py:212`).
- `SubmitErrorMeansNothingLive` (`OrderSubmission`): a reply that never came, and a fallback
  that broke off after its first leg, are handled as if nothing went live (`nodes.py:632`).
- `CloseNoFalseSuccess` (`OrderSubmission`): a close that went out leg by leg is judged by its
  first leg (`apply_change.py:362`).
- `HaltedCycleNeverTrades` (`HedgeCycle`): a cycle halted by a CRITICAL failure still submits
  through Level 2 (`nodes.py:814`).
- `ReopenOnlyAfterClose` (`HedgeCycle`): a REPLACE reopens although its close was refused
  (`nodes.py:1027`).
- `TighteningReachesOrder` (`DecisionPipeline`): a net price the gate tightened is dropped for a
  single-leg order, which `build_single_leg_payloads` prices by its leg (`orders.py:159`), against
  `plan.py:10-12`.
- `DegradedIsReassessed` (`DecisionPipeline`): when the model does not answer, the fallback selects
  before anyone looks at the degraded sections (`manager.py:377`), against "A degraded context ...
  produces a REASSESS decision" (`manager.py:19-20`).
- `SentContractsAreCovered` (`DecisionPipeline`): a MODIFY may raise a quantity, the plan takes any
  positive number (`plan.py:183-193`), and nothing counts the contracts against the shares again;
  `engine.py:327-328` calls that "an over-hedged or naked single-name bet, not a hedge".
- `UnfinishedIsNotReported` (`Reading`): an order that is accepted and still working is stored as
  REJECTED (`nodes.py:648-657`) and `GET /execution` answers FAILED, against
  `exec_readback.py:58-60` ("instead of fabricating a terminal result for an order that hasn't
  finished yet").
- `OneTimer` (`MonitorScheduler`): the first tick's startup hook registers a new job while the
  scheduler runs, which arms it, and `start` arms it again (`monitor.py:295-297`, `306-307`), against "one
  re-arming threading.Timer per job" (`monitor.py:270`).
- `KeepsTicking` (`MonitorScheduler`): the tick's shutdown hook lowers the flag before `_fire` asks
  for it (`monitor.py:322-324`), so no tick is left while the application is up, against "a minimal
  in-process periodic runner" (`monitor.py:268`).  Nor is the scheduler quiet once stopped: a tick
  at work starts it again.
- `LiveBlipIsRetried` (`Analysis`): `IngestError` hides the timeout or 503 of a live fetch from the retry loop
  (`ingest.py:111-112`), against "a transient blip fetching live inputs is retried"
  (`nodes.py:301-302`).
- `PortfolioFailureHalts` (`Analysis`): the same exception is classified by its stage as RECOVERABLE,
  against "CRITICAL ... portfolio unavailable" (`resilience.py:15-17`).
- `NewsFallsBack` (`Analysis`): an answer whose `choices` are null raises `TypeError`, which
  `complete_json` does not catch (`base.py:105`), and all news of holdings are lost, against "a
  deterministic fallback keeps exactly the held-symbol items" (`news/agent.py:11-13`).
- `FailedSourceIsDegraded` (`Analysis`): a news or market source that fails becomes an empty
  slice, which its agent analyses without a word, and the section is not degraded, against
  `ingest.py:21-23`.
- `FinishedIsShown` (`Dashboard`): the page waits for `completed` or `idle` and the server says
  `RUNNING` or `HALTED`, so what a cycle wrote after the first answer is not shown when it ends,
  against `DashboardPage.tsx:78`.
- `LocksWhileRunning` (`Dashboard`): the button compares with `running`, so it starts a second
  cycle beside the first (`DashboardPage.tsx:869`), against "disabled while a cycle runs" in
  `docs/phased-implementation-plan.md:667`.

Said by the code read beside the models:

- *Orders.*  `_combine_legged` reports one rejected and one still working leg as rejected.
  `hedge_changes` gets its row although the close was not submitted.  An order that was
  accepted and not yet filled, a close included, is stored as REJECTED for ever: no code writes
  SUBMITTED, and nothing outside the tests calls `update_status`.
- *The loop.*  `start_cooldown` has no caller.  The deadband compares known realised
  volatility, so a VIX breach below the emergency level over calm volatility is dropped.  A
  DECREASE without a ratio closes the whole leg.
- *The pipeline.*  What the language model modifies is not checked again by the gate, and a
  per-leg quantity scales the estimated cost by total contracts.  A credit
  collar goes out as a market order.  The legs of a spread may expire on different days.  A
  `price_tolerance_pct` above 1 raises out of the plan.
- *The analysis.*  Live quotes carry no `open_interest`, and the options agent drops what has
  less than 100, so a live chain has no candidate.  OCC symbols take the places of equities in
  the list of symbols that are fetched.  `IngestError` also hides missing credentials.  `POST /analyze` answers 500 when
  only the snapshot could not be stored (`api/analyze.py:110` says it must not).  One option of strike 0 drops the chains
  of every name (`ingest.py:235`), and a non-positive close ends the list of bars
  (`ingest.py:161-169`).  Live equity curves are empty.
- *The readers.*  The trail of an order shows the newest decision and approval of its cycle, so
  a close shows those of the reopen pass.  A trade without a trigger has an incomplete trail.
  Reassessment rows never carry a trigger id.  The stream of a cycle whose MONITORING EXIT was
  lost, or whose thread died in EXECUTION, has no deadline and does not end.  `performance_repo.get_series` returns the oldest rows of a limit.

- *The page.*  The banner of a halted cycle waits for `halted` as well, or for a `halt_reason`,
  which the server does not send (`WorkflowState.tsx:82`).  The same panel knows other node names
  than the server (`RISK_GATE` for `RISK_CHECK`).

## What is not modelled

- Black-Scholes, payoff curves, volatility and the comparison table: floating-point formulas
  whose values only reach the prompts; delta and premium are inputs.
- Prompts, the provider, wording, logging and the other fields of a payload.  What the broker
  makes of `position_intent` is not in this repository.
- `TriggerEngine`, `apply_cooldown`, `start_cooldown`, `MonitoringAgent.evaluate`,
  `route_after_monitoring`, `OrderRepository.update_status`, `set_broker_order_id`,
  `record_fill`, `MonitorScheduler.unregister`: no caller outside the tests.
- The escalation a tick reports after the node has acted, single-query endpoints, the
  rendering of the frontend, its other pages and the settings it keeps in the browser, demo
  replay, scripts, seeds, backups.
- The runner and the graph on one table: nothing wires the two together.
- Three branches no property can tell from those that are there: the bare snapshot MONITORING
  falls back to when a Level-1 check raises (`nodes.py:910-915`), an agent of a caller's that
  returns a value of another type (`assembler.py:222-225`), and orders filled in part in
  `AdaptiveLoop`.

`PROJECT.json` lists every component with its status, and the hazards no property covers with
the reason.

## What is left

The components above are modelled as far as their callers go.  What would add most now:

1. An order register (wanted, live, on file) that `HedgeCycle` implements without gaps.
2. `Reading` with the reopen cycle of a second pass while two connections are open, when a
   handler starts to share state between them.

## How to run

```
tlc -workers 2 -config MC_HedgeCycle.cfg MC_HedgeCycle.tla
tlapm HedgeCycle_proofs.tla
```

Every run of `PROJECT.json` names its module and configuration.  `reading` and `hedge_cycle`
take one to three minutes, the others seconds.
