---------------------------- MODULE CycleRecords ----------------------------
(***************************************************************************)
(* The rows one hedge cycle leaves behind: which table each node body writes, *)
(* in which order and in which transactions, and which failing write stops    *)
(* the cycle (backend/agents/orchestrator/nodes.py, persistence.py,           *)
(* backend/api/analyze.py, backend/agents/monitoring/apply_change.py and the  *)
(* repositories of backend/db).                                              *)
(*                                                                          *)
(* HedgeCycle is about what a cycle may do; here its outcomes are chosen      *)
(* freely and the tables are what the readers of the API find.  One cycle     *)
(* writes, started by POST /run-cycle, in one thread; POST /strategy/evaluate *)
(* can evaluate the same cycle once more beside it.  Every step is one         *)
(* database transaction.  A row's place in its table is its id.  "slot" says  *)
(* which part of the cycle wrote a row: it is no column, the code finds rows   *)
(* by cycle_id alone.                                                        *)
(***************************************************************************)
EXTENDS ExecutionResult, Sequences, SequencesExt

CONSTANTS
  Families,    \* the hedge families in the order they propose (a sequence)
  BrokerCases, \* the broker answers the rows are written from
  LossyNodes,  \* bound: the nodes whose transition rows may be lost
  MaxLost      \* bound: database writes that fail

ASSUME FamiliesAssumption == Families \in Seq(STRING)

\* A broker answer has a state and, of finitely many legs, how far each one filled.
ASSUME BrokerCasesAssumption ==
  \A a \in BrokerCases : a.state \in BrokerStates /\ IsFiniteSet(DOMAIN a.fills)

ASSUME MaxLostAssumption == MaxLost \in Nat

Slots == {"primary", "close", "reopen", "request"}

Tables == {"log", "snapshot", "strategy", "reassessment", "change", "monitoring", "check"}

Nodes == {"INITIAL", "ANALYZING", "STRATEGY_EVALUATION", "RISK_CHECK", "EXECUTION",
          "MONITORING", "COMPLETED", "FAILED"}

VARIABLES
  thread,        \* the cycle's thread: where it is and the state it carries
  log,           \* workflow_transitions (workflow_state gets the same rows)
  snapshots,     \* portfolio_snapshots with their positions
  hypotheses, decisions, riskChecks,
  orders,        \* orders with their fills
  reassessments, changes, events,
  request,       \* a POST /strategy/evaluate for this cycle
  lost           \* history: the writes that failed and were passed over, <<slot, table>>

tables == <<snapshots, hypotheses, decisions, riskChecks, orders, reassessments, changes,
            events>>
records == <<thread, request, log, tables, lost>>

Rows == [node : Nodes, phase : {"none", "ENTER", "EXIT"}]
RowOf(node, phase) == [node |-> node, phase |-> phase]

\* One broker answer to a plan of these sides.
Answer(sides, state, fills) == [sides |-> sides, state |-> state, fills |-> fills]

Result(answer) == BuildStatus(answer.state, answer.fills)

RecordsInit ==
  /\ thread = [node |-> "INITIAL", at |-> "stamp", slot |-> "primary", context |-> FALSE,
               selected |-> "none", saved |-> 0, cleared |-> FALSE, outcome |-> "HOLD",
               fired |-> FALSE]
  /\ log = <<>>
  /\ snapshots = <<>>
  /\ hypotheses = <<>>
  /\ decisions = <<>>
  /\ riskChecks = <<>>
  /\ orders = <<>>
  /\ reassessments = <<>>
  /\ changes = <<>>
  /\ events = <<>>
  /\ request = [at |-> "idle", saved |-> 0]
  /\ lost = {}

-----------------------------------------------------------------------------

At(node, at) == thread.node = node /\ thread.at = at
Nested == thread.slot = "reopen"

\* The reopen cycle of MONITORING has no transition hook; its end is the rest of
\* the MONITORING body that started it.
BodyDone(state) ==
  IF Nested /\ state.node = "MONITORING"
  THEN [state EXCEPT !.slot = "primary", !.at = "state"]
  ELSE [state EXCEPT !.at = "exit"]

Goto(state) == thread' = state
Loses(table) == Cardinality(lost) < MaxLost /\ lost' = lost \cup {<<thread.slot, table>>}
Kept == UNCHANGED lost

\* WorkflowRepository.set_state: a state row and a transition in one transaction.
SetState(node, phase) == log' = Append(log, RowOf(node, phase))

\* WorkflowTransitionSink.record: a failing write is logged and forgotten.
Record(node, phase) ==
  \/ SetState(node, phase) /\ Kept
  \/ node \in LossyNodes /\ Loses("log") /\ UNCHANGED log

\* POST /run-cycle stamps the new cycle before its thread starts.
StampInitial ==
  /\ At("INITIAL", "stamp")
  /\ Record("INITIAL", "none")
  /\ Goto([thread EXCEPT !.at = "enter"])
  /\ UNCHANGED <<request, tables>>

\* Mutant: a body's EXIT is recorded before its rows are written.
EnterAndExit ==
  /\ thread.at = "enter"
  /\ log' = log \o <<RowOf(thread.node, "ENTER"), RowOf(thread.node, "EXIT")>>
  /\ Goto([thread EXCEPT !.at = "body"])
  /\ UNCHANGED <<request, tables, lost>>

Enter ==
  /\ thread.at = "enter"
  /\ Record(thread.node, "ENTER")
  /\ Goto([thread EXCEPT !.at = "body"])
  /\ UNCHANGED <<request, tables>>

NextNode ==
  CASE thread.node = "INITIAL" -> "ANALYZING"
    [] thread.node = "ANALYZING" /\ thread.context -> "STRATEGY_EVALUATION"
    [] thread.node = "STRATEGY_EVALUATION" /\ thread.selected # "none" -> "RISK_CHECK"
    [] thread.node = "RISK_CHECK" /\ thread.cleared -> "EXECUTION"
    [] OTHER -> "MONITORING"

\* The routing of the graph; the reopen cycle routes the same way without rows.
Exit ==
  /\ thread.at = "exit"
  /\ IF Nested THEN UNCHANGED <<log, lost>> ELSE Record(thread.node, "EXIT")
  /\ Goto(IF thread.node = "MONITORING"
          THEN [thread EXCEPT !.at = "done"]
          ELSE [thread EXCEPT !.node = NextNode,
                              !.at = IF Nested THEN "body" ELSE "enter"])
  /\ UNCHANGED <<request, tables>>

InitialBody ==
  /\ At("INITIAL", "body")
  /\ Goto([thread EXCEPT !.at = "exit"])
  /\ UNCHANGED <<request, log, tables, lost>>

-----------------------------------------------------------------------------
(* ANALYZING, STRATEGY_EVALUATION, RISK_CHECK                                *)

\* save_with_positions: the snapshot and its positions in one transaction.
SaveWithPositions == snapshots' = Append(snapshots, [slot |-> thread.slot])

\* The snapshot of a context; a failing write only loses the row.
PersistSnapshot ==
  \/ SaveWithPositions /\ Kept
  \/ Loses("snapshot") /\ UNCHANGED snapshots

\* A context whose snapshot is saved, or none.
AnalyzingBody ==
  /\ At("ANALYZING", "body")
  /\ \/ Goto([thread EXCEPT !.at = "exit", !.context = TRUE]) /\ PersistSnapshot
     \/ Goto([thread EXCEPT !.at = "exit"]) /\ UNCHANGED <<snapshots, lost>>
  /\ UNCHANGED <<request, log, hypotheses, decisions, riskChecks, orders, reassessments, changes, events>>

\* save_many: the hypotheses of all families in one transaction.
SaveMany(rows) == hypotheses' = hypotheses \o rows

HypothesisRows(slot) == [i \in DOMAIN Families |-> [slot |-> slot, family |-> Families[i]]]

\* The families proposed and the manager decided, or the evaluation raised (its
\* decision is then none and nothing is saved).  What could not be saved takes
\* the decision's row with it: both writes share one try.
StrategyBody ==
  /\ At("STRATEGY_EVALUATION", "body")
  /\ \/ /\ \E selected \in ToSet(Families) \cup {"none"} :
             Goto([thread EXCEPT !.at = "decide", !.selected = selected,
                                 !.saved = Len(hypotheses)])
        /\ SaveMany(HypothesisRows(thread.slot))
        /\ Kept
     \/ /\ \E selected \in ToSet(Families) \cup {"none"} :
             Goto([thread EXCEPT !.at = "exit", !.selected = selected])
        /\ Loses("strategy")
        /\ UNCHANGED hypotheses
     \/ /\ Goto([thread EXCEPT !.at = "exit", !.selected = "none"])
        /\ UNCHANGED <<hypotheses, lost>>
  /\ UNCHANGED <<request, log, snapshots, decisions, riskChecks, orders, reassessments, changes,
                 events>>

\* The id of the first row of the selected family among those just saved.
SelectedId(family, saved) ==
  IF family = "none" THEN 0 ELSE saved + SelectInSeq(Families, LAMBDA f : f = family)

CreateDecision(slot, family, saved) ==
  decisions' = Append(decisions,
                      [slot |-> slot, family |-> family, selected |-> SelectedId(family, saved)])

SaveDecision ==
  /\ At("STRATEGY_EVALUATION", "decide")
  /\ \/ CreateDecision(thread.slot, thread.selected, thread.saved) /\ Kept
     \/ Loses("strategy") /\ UNCHANGED decisions
  /\ Goto([thread EXCEPT !.at = "exit", !.saved = 0])
  /\ UNCHANGED <<request, log, snapshots, hypotheses, riskChecks, orders, reassessments, changes,
                 events>>

RequestHypotheses == HypothesisRows("request")

\* POST /strategy/evaluate of the cycle's context (bound: begun while the cycle itself
\* evaluates for the first time, and it selects a family): the same two writes.  A
\* failure of either is the caller's 500; one of the first leaves nothing behind and is
\* not a step.
EvaluateHypotheses ==
  /\ request.at = "idle"
  /\ thread.node = "STRATEGY_EVALUATION" /\ ~Nested
  /\ request' = [at |-> "decide", saved |-> Len(hypotheses)]
  /\ SaveMany(RequestHypotheses)
  /\ UNCHANGED <<thread, log, snapshots, decisions, riskChecks, orders, reassessments, changes,
                 events, lost>>

EvaluateDecision ==
  /\ request.at = "decide"
  /\ request' = [at |-> "done", saved |-> 0]
  /\ \/ \E family \in ToSet(Families) : CreateDecision("request", family, request.saved)
     \/ UNCHANGED decisions
  /\ UNCHANGED <<thread, log, snapshots, hypotheses, riskChecks, orders, reassessments, changes,
                 events, lost>>

CreateCheck(slot) == riskChecks' = Append(riskChecks, [slot |-> slot])

\* Mutant: a failing risk_checks write is swallowed like the others.
RiskBodySwallows ==
  /\ At("RISK_CHECK", "body")
  /\ \E cleared \in BOOLEAN : Goto([thread EXCEPT !.at = "exit", !.cleared = cleared])
  /\ \/ Kept /\ CreateCheck(thread.slot)
     \/ Loses("strategy") /\ UNCHANGED riskChecks
  /\ UNCHANGED <<request, log, snapshots, hypotheses, decisions, orders, reassessments, changes, events>>

\* RiskAgent.review writes the row before it returns, and its failure is the
\* gate's: no approval.
RiskBody ==
  /\ At("RISK_CHECK", "body")
  /\ \/ /\ \E cleared \in BOOLEAN : Goto([thread EXCEPT !.at = "exit", !.cleared = cleared])
        /\ CreateCheck(thread.slot)
     \/ /\ Goto([thread EXCEPT !.at = "exit", !.cleared = FALSE])
        /\ UNCHANGED riskChecks
  /\ UNCHANGED <<request, log, snapshots, hypotheses, decisions, orders, reassessments, changes, events,
                 lost>>

-----------------------------------------------------------------------------
(* EXECUTION and what MONITORING does to the position                        *)

\* What is persisted of an order the broker took: its result, or a FAILED one with no
\* fills when no result can be made of the answer, a still working order among them.
Mappable(answer) == Result(answer) \notin Raised
Persisted(answer) == IF Mappable(answer) THEN Result(answer) ELSE "FAILED"
PersistedFills(answer) == IF Mappable(answer) THEN FilledLegs(answer.fills) ELSE {}

\* persist_execution_result: the order and its fills in one transaction.
OrderRow(answer) ==
  [slot |-> thread.slot, status |-> OrderRowStatus(Persisted(answer)), sides |-> answer.sides,
   fills |-> SetToSeq(PersistedFills(answer)), live |-> answer]

\* Mutant: the order row is committed before its fills.
SaveOrderWithoutFills(answer) == orders' = Append(orders, [OrderRow(answer) EXCEPT !.fills = <<>>])

SaveWithFills(answer) == orders' = Append(orders, OrderRow(answer))

\* The row is best effort: an abort before the broker, a refused submission and a
\* failing write leave none.
PersistOrder(answers, state) ==
  /\ (\E answer \in answers : SaveWithFills(answer)) \/ UNCHANGED orders
  /\ Goto(state)
  /\ UNCHANGED <<request, log, snapshots, hypotheses, decisions, riskChecks, reassessments,
                 changes, events, lost>>

\* Whatever leaves the node ends the thread, without a row; the reopen cycle it only ends.
Thrown == IF Nested THEN [thread EXCEPT !.node = "MONITORING", !.at = "state", !.slot = "primary"]
                   ELSE [thread EXCEPT !.at = "dead"]

\* An order of this cycle already on file is not sent again.  A plan with values its
\* model refuses leaves the node, and so does the answer no contract shape fits, which
\* the node expects as little (the order is live then and has no row).
ExecutionBody ==
  /\ At("EXECUTION", "body")
  /\ \/ PersistOrder({a \in BrokerCases : orders = <<>> /\ Result(a) # "RAISES_VALIDATION"},
                     [thread EXCEPT !.at = "exit"])
     \/ orders = <<>> /\ PersistOrder({}, Thrown)

\* The Level-1 checks; a cycle without context and the reopen cycle stop there.
MonitoringBody ==
  /\ At("MONITORING", "body")
  /\ \E fired \in BOOLEAN :
       Goto(IF Nested THEN BodyDone(thread)
            ELSE [thread EXCEPT !.at = IF fired /\ thread.context THEN "assess" ELSE "state",
                                !.fired = fired /\ thread.context])
  /\ UNCHANGED <<request, log, tables, lost>>

RecordReassessment == reassessments' = Append(reassessments, [slot |-> thread.slot])

PersistReassessment ==
  \/ RecordReassessment /\ Kept
  \/ Loses("reassessment") /\ UNCHANGED reassessments

\* Level 2: the reassessment row, then what its outcome asks for.
Reassess ==
  /\ At("MONITORING", "assess")
  /\ \E outcome \in {"HOLD", "INCREASE", "CLOSE", "REPLACE"} :
       LET after == CASE outcome = "HOLD" -> "state"
                      [] outcome = "INCREASE" -> "reopen"
                      [] OTHER -> "gate"
       IN Goto([thread EXCEPT !.at = after, !.outcome = outcome])
  /\ PersistReassessment
  /\ UNCHANGED <<request, log, snapshots, hypotheses, decisions, riskChecks, orders, changes, events>>

\* The row of the close's verdict; without a repository to write it, the gate does.
LogCloseCheck ==
  \/ CreateCheck("close") /\ Kept
  \/ /\ Cardinality(lost) < MaxLost /\ lost' = lost \cup {<<"close", "check">>}
     /\ UNCHANGED riskChecks

\* apply_change: no hypothesis to close, or a gate that raises, leaves no row; a close
\* the gate cleared goes to the broker unless its plan cannot be built, and then a
\* REPLACE reopens all the same.
CloseGate ==
  /\ At("MONITORING", "gate")
  /\ \/ /\ LogCloseCheck
        /\ \/ Goto([thread EXCEPT !.at = "state"])
           \/ Goto([thread EXCEPT !.at = "close", !.slot = "close"])
           \/ thread.outcome = "REPLACE" /\ Goto([thread EXCEPT !.at = "reopen"])
     \/ Goto([thread EXCEPT !.at = "state"]) /\ UNCHANGED <<riskChecks, lost>>
  /\ UNCHANGED <<request, log, snapshots, hypotheses, decisions, orders, reassessments, changes,
                 events>>

\* The close order's row, whatever the broker answered; of a close sent leg by leg it is
\* the first leg's answer.  None either without a broker or after a refused submission.
CloseOrder == At("MONITORING", "close") /\ PersistOrder(BrokerCases, [thread EXCEPT !.at = "change"])

RecordChange == changes' = Append(changes, [slot |-> thread.slot])

RecordHedgeChange ==
  /\ At("MONITORING", "change")
  /\ \/ RecordChange /\ Kept
     \/ Loses("change") /\ UNCHANGED changes
  /\ Goto([thread EXCEPT !.at = IF thread.outcome = "REPLACE" THEN "reopen" ELSE "state",
                         !.slot = "primary"])
  /\ UNCHANGED <<request, log, snapshots, hypotheses, decisions, riskChecks, orders, reassessments, events>>

\* The nested cycle re-enters at STRATEGY_EVALUATION under the same cycle_id.
Reopen ==
  /\ At("MONITORING", "reopen")
  /\ Goto([thread EXCEPT !.node = "STRATEGY_EVALUATION", !.at = "body", !.slot = "reopen",
                         !.selected = "none", !.cleared = FALSE])
  /\ UNCHANGED <<request, log, tables, lost>>

RecordEvent == events' = Append(events, [slot |-> thread.slot])

\* The monitoring_state row, then the events in the same try (taken as one step:
\* nothing here reads the row).
PersistMonitoring ==
  /\ At("MONITORING", "state")
  /\ \/ (IF thread.fired THEN RecordEvent ELSE UNCHANGED events) /\ Kept
     \/ Loses("monitoring") /\ UNCHANGED events
  /\ Goto([thread EXCEPT !.at = "exit", !.outcome = "HOLD", !.fired = FALSE])
  /\ UNCHANGED <<request, log, snapshots, hypotheses, decisions, riskChecks, orders, reassessments, changes>>

RunCycle ==
  \/ StampInitial \/ Enter \/ Exit \/ InitialBody
  \/ AnalyzingBody \/ StrategyBody \/ SaveDecision
  \/ RiskBody \/ ExecutionBody
  \/ MonitoringBody \/ Reassess \/ CloseGate \/ CloseOrder \/ RecordHedgeChange \/ Reopen
  \/ PersistMonitoring
=============================================================================
