------------------------------ MODULE HedgeCycle ------------------------------
(***************************************************************************)
(* One hedge cycle: the orchestrator graph                                  *)
(*                                                                          *)
(*   INITIAL -> ANALYZING -> STRATEGY_EVALUATION -> RISK_CHECK -> EXECUTION  *)
(*           -> MONITORING                                                  *)
(*                                                                          *)
(* (backend/agents/orchestrator/graph.py, nodes.py), the                     *)
(* Level-2 reassessment its MONITORING node dispatches                       *)
(* (backend/agents/monitoring/apply_change.py, escalation.py) and the        *)
(* monitoring tick POST /monitor (backend/api/monitor.py), which runs the    *)
(* MONITORING body on its own.                                              *)
(*                                                                          *)
(* Every table is queried by cycle_id, so one cycle_id is modelled and Runs  *)
(* are the invocations that work under it: first invocations, re-invocations *)
(* and ticks.  An invocation is one thread; its steps are the database and   *)
(* broker calls, with what is computed between two of them.  It can die at   *)
(* any step, and best-effort writes can fail.  The transition rows around    *)
(* the nodes are in CycleRecords; nothing here reads them.                   *)
(*                                                                          *)
(* Outcomes the model does not compute -- what the agents analyse, propose,  *)
(* approve or reassess, which triggers fire -- are chosen freely.            *)
(***************************************************************************)
EXTENDS Naturals

CONSTANTS
  Runs,      \* the invocations (a bound: each starts once)
  DbFails    \* can the database of an invocation be flaky?

ASSUME DbFailsAssumption == DbFails \in BOOLEAN

Nodes == {"INITIAL", "ANALYZING", "STRATEGY_EVALUATION", "RISK_CHECK", "EXECUTION",
          "MONITORING"}

\* The places an invocation can submit an order from: EXECUTION of the graph,
\* the close of apply_change, and EXECUTION of the nested reopen cycle.
Slots == {"primary", "close", "reopen"}
OpenSlots == {"primary", "reopen"}

\* MAINTAIN and NO_TRADE leave the position alone (HOLD); DECREASE and REMOVE
\* close legs and stop there (CLOSE).
Outcomes == {"HOLD", "INCREASE", "CLOSE", "REPLACE"}

Verdicts == {"none", "clear", "reject", "unlogged"}

\* What can make the orders table say less than the broker knows: invocations of
\* the cycle that overlapped ("overlap"), and an order or a row that was lost
\* ("lost") to a crash between the submission and its row, to a reply that never
\* came or could not be mapped, or to a database call that failed.
Gaps == {"overlap", "lost"}

Over == {"done", "raised", "crashed"}
Steps == {"idle", "enter", "body", "submit", "persist", "exit", "assess", "closegate",
          "closesubmit", "closepersist", "change", "snapshot"} \cup Over

VARIABLES
  run,       \* per invocation: where it is and its OrchestratorState; as history, in
             \* escaped, the slots an exception left after their order was approved
  book,      \* the broker: how many orders it took from an invocation's slot
  orders,    \* orders table: the <<invocation, slot>> with a row
  checks,    \* risk_checks table: verdict of the row for a slot; "unlogged"
             \* when the gate cleared it with no repository to write to
  failures,  \* execution_failures table: the <<invocation, slot>> with a row
  changes,   \* hedge_changes table: the invocations with a row
  gaps       \* history: which of Gaps happened in this cycle

vars == <<run, book, orders, checks, failures, changes, gaps>>

tables == <<orders, checks, failures, changes>>

Idle == [pc |-> "idle", kind |-> "cycle", node |-> "INITIAL", nested |-> FALSE,
         context |-> FALSE, decision |-> "none", outcome |-> "HOLD",
         result |-> "none", halted |-> FALSE, flaky |-> FALSE, escaped |-> {}]

Init ==
  /\ run = [r \in Runs |-> Idle]
  /\ book = [k \in Runs \X Slots |-> 0]
  /\ orders = {}
  /\ checks = [k \in Runs \X Slots |-> "none"]
  /\ failures = {}
  /\ changes = {}
  /\ gaps = {}

-----------------------------------------------------------------------------

Active(r) == run[r].pc \notin Over \cup {"idle"}
At(r, pc) == run[r].pc = pc
AtNode(r, node, pc) == run[r].pc = pc /\ run[r].node = node
OpenSlot(r) == IF run[r].nested THEN "reopen" ELSE "primary"

Become(r, state) == run' = [run EXCEPT ![r] = state]
Go(r, pc) == Become(r, [run[r] EXCEPT !.pc = pc])

\* The thread ends and its state with it (what stays is for the properties).
End(r, pc) ==
  Become(r, [Idle EXCEPT !.pc = pc, !.flaky = run[r].flaky, !.escaped = run[r].escaped])

\* A caught failure classified CRITICAL.  The nested cycle has a state of its
\* own, so the halt of a nested node stays in it.
Halt(r) == Become(r, [run[r] EXCEPT !.pc = "exit", !.halted = run[r].halted \/ ~run[r].nested])

\* The broker takes an order.
Place(r, s) == book' = [book EXCEPT ![<<r, s>>] = @ + 1]

\* OrderRepository.list_for_cycle finds a row, whoever wrote it.
OnFile == orders # {}

\* Whether a best-effort write is written, or lost with a log line: with a flaky
\* database either can happen, call by call.
Writes(r) == IF run[r].flaky THEN BOOLEAN ELSE {TRUE}

Flakiness == IF DbFails THEN BOOLEAN ELSE {FALSE}

WriteFailure(r) ==
  \E written \in Writes(r) :
    /\ failures' = IF written THEN failures \cup {<<r, OpenSlot(r)>>} ELSE failures
    /\ gaps' = gaps \cup {g \in {"lost"} : ~written}

-----------------------------------------------------------------------------
(* starting, entering and leaving a node                                    *)

Overlap == {g \in {"overlap"} : \E q \in Runs : Active(q)}

\* graph.invoke({"cycle_id": ...}); POST /run-cycle stamps a new id INITIAL.
InvokeCycle(r) ==
  /\ At(r, "idle")
  /\ \E flaky \in Flakiness :
       /\ Become(r, [run[r] EXCEPT !.pc = "enter", !.flaky = flaky])
  /\ gaps' = gaps \cup Overlap
  /\ UNCHANGED <<book, tables>>

\* POST /monitor for this cycle: the context provider answered, the MONITORING
\* body starts from {"cycle_id", "hedge_context"}.  Whether there is a broker is the
\* deps factory's choice (the default has none: then no step here places an order).
InvokeTick(r) ==
  /\ At(r, "idle")
  /\ \E flaky \in Flakiness :
       Become(r, [run[r] EXCEPT !.pc = "body", !.kind = "tick", !.node = "MONITORING",
                                !.context = TRUE, !.flaky = flaky])
  /\ gaps' = gaps \cup Overlap
  /\ UNCHANGED <<book, tables>>

Enter(r) ==
  /\ At(r, "enter")
  /\ Go(r, "body")
  /\ UNCHANGED <<book, tables, gaps>>

\* The conditional edges.  route_after_analyzing is the only one that looks at
\* halted; the others look at the decision itself.
NextNode(r) ==
  CASE run[r].node = "INITIAL" -> "ANALYZING"
    [] run[r].node = "ANALYZING" ->
         IF run[r].halted \/ ~run[r].context THEN "MONITORING" ELSE "STRATEGY_EVALUATION"
    [] run[r].node = "STRATEGY_EVALUATION" ->
         IF run[r].decision = "hedge" THEN "RISK_CHECK" ELSE "MONITORING"
    [] run[r].node = "RISK_CHECK" ->
         IF run[r].decision = "clear" THEN "EXECUTION" ELSE "MONITORING"
    [] OTHER -> "MONITORING"

\* Nothing after EXECUTION reads the decision any more.
Exit(r) ==
  /\ At(r, "exit")
  /\ run[r].node # "MONITORING"
  /\ Become(r, [run[r] EXCEPT !.pc = "enter", !.node = NextNode(r),
                              !.decision = IF NextNode(r) = "MONITORING" THEN "none"
                                           ELSE run[r].decision])
  /\ UNCHANGED <<book, tables, gaps>>

\* MONITORING is terminal.
ExitMonitoring(r) ==
  /\ AtNode(r, "MONITORING", "exit")
  /\ ~run[r].nested
  /\ End(r, "done")
  /\ UNCHANGED <<book, tables, gaps>>

\* The end of the reopen cycle returns into the MONITORING body that started it.
ExitReopen(r) ==
  /\ AtNode(r, "MONITORING", "exit")
  /\ run[r].nested
  /\ Become(r, [run[r] EXCEPT !.pc = "snapshot", !.nested = FALSE])
  /\ UNCHANGED <<book, tables, gaps>>

-----------------------------------------------------------------------------
(* the bodies before EXECUTION                                              *)

InitialBody(r) ==
  /\ AtNode(r, "INITIAL", "body")
  /\ Go(r, "exit")
  /\ UNCHANGED <<book, tables, gaps>>

\* A context, or a failure classified RECOVERABLE or CRITICAL.
AnalyzingBody(r) ==
  /\ AtNode(r, "ANALYZING", "body")
  /\ \/ \E context \in BOOLEAN : Become(r, [run[r] EXCEPT !.pc = "exit", !.context = context])
     \/ Halt(r)
  /\ UNCHANGED <<book, tables, gaps>>

\* NO_TRADE and REASSESS skip, anything else selects a hypothesis; a failure
\* leaves no decision.
StrategyBody(r) ==
  /\ AtNode(r, "STRATEGY_EVALUATION", "body")
  /\ \/ \E decision \in {"none", "skip", "hedge"} :
          Become(r, [run[r] EXCEPT !.pc = "exit", !.decision = decision])
     \/ Halt(r)
  /\ UNCHANGED <<book, tables, gaps>>

\* RiskAgent.review writes the risk_checks row before it returns.
RiskBody(r) ==
  /\ AtNode(r, "RISK_CHECK", "body")
  /\ \E verdict \in {"clear", "reject"} :
       /\ Become(r, [run[r] EXCEPT !.pc = "exit", !.decision = verdict])
       /\ checks' = [checks EXCEPT ![<<r, OpenSlot(r)>>] = verdict]
  /\ UNCHANGED <<book, orders, failures, changes, gaps>>

\* Mutant: a gate that cannot answer lets the hypothesis pass.
RiskBodyFailsOpen(r) ==
  /\ AtNode(r, "RISK_CHECK", "body")
  /\ Become(r, [run[r] EXCEPT !.pc = "exit", !.decision = "clear"])
  /\ UNCHANGED <<book, tables, gaps>>

\* The engine or the row's write raised: CRITICAL, and no decision.
RiskBodyFails(r) ==
  /\ AtNode(r, "RISK_CHECK", "body")
  /\ Halt(r)
  /\ UNCHANGED <<book, tables, gaps>>

-----------------------------------------------------------------------------
(* EXECUTION                                                                *)

\* No approved decision, or an order row of this cycle on file: nothing is
\* submitted.
SkipGuarded(r) ==
  /\ AtNode(r, "EXECUTION", "body")
  /\ run[r].decision # "clear" \/ OnFile
  /\ Go(r, "exit")
  /\ UNCHANGED <<book, tables, gaps>>

\* Mutant: the orders table is not consulted.
PassGuardUnchecked(r) ==
  /\ AtNode(r, "EXECUTION", "body")
  /\ run[r].decision = "clear"
  /\ Go(r, "submit")
  /\ UNCHANGED <<book, tables, gaps>>

\* No row, or the lookup raised and the guard fails open.
PassGuard(r) ==
  /\ AtNode(r, "EXECUTION", "body")
  /\ run[r].decision = "clear"
  /\ ~OnFile \/ run[r].flaky
  /\ Go(r, "submit")
  /\ gaps' = gaps \cup {g \in {"lost"} : OnFile}
  /\ UNCHANGED <<book, tables>>

\* Mutant: the abort is only a note on the state.
AbortUnrecorded(r) ==
  /\ AtNode(r, "EXECUTION", "submit")
  /\ Go(r, "exit")
  /\ UNCHANGED <<book, tables, gaps>>

\* A plan that cannot be built, a pre-flight abort, no broker.
AbortBeforeSubmit(r) ==
  /\ AtNode(r, "EXECUTION", "submit")
  /\ WriteFailure(r)
  /\ Go(r, "exit")
  /\ UNCHANGED <<book, orders, checks, changes>>

\* Out of the node.  The full graph dies with it; of the reopen cycle
\* _run_reopen_cycle makes a log line.
Escape(r) ==
  IF run[r].nested
  THEN Become(r, [run[r] EXCEPT !.pc = "snapshot", !.nested = FALSE, !.node = "MONITORING",
                                !.decision = "none", !.escaped = @ \cup {"reopen"}])
  ELSE End(r, "raised")

\* OrderConstraints refuses a modification (price_tolerance_pct over 1) with an
\* error the node does not catch.
PlanRaises(r) ==
  /\ AtNode(r, "EXECUTION", "submit")
  /\ Escape(r)
  /\ UNCHANGED <<book, tables, gaps>>

\* submit_plan returned: a terminal result, or FAILED for an order the broker
\* rejected or one that cannot be mapped and may well be live.
Submit(r) ==
  /\ AtNode(r, "EXECUTION", "submit")
  /\ Place(r, OpenSlot(r))
  /\ \E result \in {"terminal", "FAILED"} :
       Become(r, [run[r] EXCEPT !.pc = "persist", !.result = result])
  /\ UNCHANGED <<tables, gaps>>

\* submit_plan returned, the ExecutionResult failed its own validation.
SubmitUnmappable(r) ==
  /\ AtNode(r, "EXECUTION", "submit")
  /\ Place(r, OpenSlot(r))
  /\ Escape(r)
  /\ gaps' = gaps \cup {"lost"}
  /\ UNCHANGED tables

\* AlpacaError: refused, or taken and the answer lost (a timeout, the second leg
\* of a legged fallback).  A broker failure in EXECUTION is CRITICAL.
SubmitFails(r) ==
  /\ AtNode(r, "EXECUTION", "submit")
  /\ \/ UNCHANGED book /\ WriteFailure(r)
     \/ /\ Place(r, OpenSlot(r))
        /\ failures' \in {failures \cup {<<r, OpenSlot(r)>>}} \cup {f \in {failures} : run[r].flaky}
        /\ gaps' = gaps \cup {"lost"}
  /\ Halt(r)
  /\ UNCHANGED <<orders, checks, changes>>

\* Mutant: only a terminal result gets an orders row.
PersistOrderTerminalOnly(r) ==
  /\ AtNode(r, "EXECUTION", "persist")
  /\ orders' = IF run[r].result = "terminal" THEN orders \cup {<<r, OpenSlot(r)>>} ELSE orders
  /\ UNCHANGED failures
  /\ Go(r, "exit")
  /\ UNCHANGED <<book, checks, changes, gaps>>

\* _persist_submitted_order: the orders row for every status, and the audit row
\* of a FAILED one.  (The result stays on the state for the monitoring_state
\* row's detail, which is not modelled.)
PersistOrder(r) ==
  /\ AtNode(r, "EXECUTION", "persist")
  /\ \E written, audited \in Writes(r) :
       /\ orders' = IF written THEN orders \cup {<<r, OpenSlot(r)>>} ELSE orders
       /\ failures' = IF run[r].result = "FAILED" /\ audited
                      THEN failures \cup {<<r, OpenSlot(r)>>} ELSE failures
       /\ gaps' = gaps \cup {g \in {"lost"} : ~written \/ ~audited}
  /\ Become(r, [run[r] EXCEPT !.pc = "exit", !.result = "none"])
  /\ UNCHANGED <<book, checks, changes>>

-----------------------------------------------------------------------------
(* MONITORING                                                               *)

\* Mutant: reassessment_origin is not looked at.
Level1Recursive(r) ==
  /\ AtNode(r, "MONITORING", "body")
  /\ \/ Go(r, "snapshot")
     \/ run[r].context /\ Go(r, "assess")
  /\ UNCHANGED <<book, tables, gaps>>

\* Level 1, and the gate to Level 2: a trigger that no cooldown suppresses.  A
\* state that came from a reassessment never escalates again.
Level1(r) ==
  /\ AtNode(r, "MONITORING", "body")
  /\ \/ Go(r, "snapshot")
     \/ ~run[r].nested /\ run[r].context /\ Go(r, "assess")
  /\ UNCHANGED <<book, tables, gaps>>

\* build_reassessment_entry_state: a fresh state that keeps the cycle_id and the
\* context.
Reopened(r) == [run[r] EXCEPT !.pc = "enter", !.node = "STRATEGY_EVALUATION", !.nested = TRUE,
                              !.decision = "none"]

\* The ReassessmentAgent chooses: hold, add protection through a reopen cycle,
\* or close.  A dispatch that raises is a log line.
Assess(r) ==
  /\ At(r, "assess")
  /\ \/ Go(r, "snapshot")
     \/ Become(r, [Reopened(r) EXCEPT !.outcome = "INCREASE"])
     \/ \E outcome \in {"CLOSE", "REPLACE"} :
          Become(r, [run[r] EXCEPT !.pc = "closegate", !.outcome = outcome])
  /\ UNCHANGED <<book, tables, gaps>>

\* apply_change up to the gate: no legs on record, or the gate raised or said
\* no.  Nothing is closed and nothing is reopened.
CloseStops(r) ==
  /\ At(r, "closegate")
  /\ \/ UNCHANGED checks
     \/ checks' = [checks EXCEPT ![<<r, "close">>] = "reject"]
  /\ Go(r, "snapshot")
  /\ UNCHANGED <<book, orders, failures, changes, gaps>>

CloseCleared(r) ==
  \E verdict \in {"clear"} \cup {u \in {"unlogged"} : run[r].flaky} :
    checks' = [checks EXCEPT ![<<r, "close">>] = verdict]

\* The gate cleared the close; without a broker nothing is submitted.
CloseGate(r) ==
  /\ At(r, "closegate")
  /\ CloseCleared(r)
  /\ \E pc \in {"closesubmit", "change"} : Go(r, pc)
  /\ UNCHANGED <<book, orders, failures, changes, gaps>>

\* The gate cleared the close and its plan could not be built: a REPLACE goes on
\* to reopen, and an error of OrderConstraints is swallowed with the dispatch.
ClosePlanFails(r) ==
  /\ At(r, "closegate")
  /\ CloseCleared(r)
  /\ \/ Become(r, [run[r] EXCEPT !.pc = "snapshot", !.escaped = @ \cup {"close"}])
     \/ /\ run[r].outcome = "REPLACE"
        /\ Become(r, [Reopened(r) EXCEPT !.escaped = @ \cup {"close"}])
  /\ UNCHANGED <<book, orders, failures, changes, gaps>>

\* No lookup of orders on file here: apply_change submits whenever it is called.
CloseSubmit(r) ==
  /\ At(r, "closesubmit")
  /\ Place(r, "close")
  /\ Go(r, "closepersist")
  /\ UNCHANGED <<tables, gaps>>

\* Mutant: a failed close is sent again.
CloseSubmitRetries(r) ==
  /\ At(r, "closesubmit")
  /\ \/ UNCHANGED <<run, book, gaps>>
     \/ /\ Place(r, "close")
        /\ gaps' = gaps \cup {"lost"}
        /\ UNCHANGED run
  /\ UNCHANGED tables

\* AlpacaError: no row of any table.
CloseSubmitFails(r) ==
  /\ At(r, "closesubmit")
  /\ \/ UNCHANGED <<book, gaps>>
     \/ Place(r, "close") /\ gaps' = gaps \cup {"lost"}
  /\ Go(r, "change")
  /\ UNCHANGED tables

\* _submit persists every result, an unmappable one as FAILED.
ClosePersist(r) ==
  /\ At(r, "closepersist")
  /\ \E written \in Writes(r) :
       /\ orders' = IF written THEN orders \cup {<<r, "close">>} ELSE orders
       /\ gaps' = gaps \cup {g \in {"lost"} : ~written}
  /\ Go(r, "change")
  /\ UNCHANGED <<book, checks, failures, changes>>

\* The hedge_changes row, whatever became of the close; a REPLACE reopens.
RecordChange(r) ==
  /\ At(r, "change")
  /\ \E written \in Writes(r) : changes' = IF written THEN changes \cup {r} ELSE changes
  /\ IF run[r].outcome = "REPLACE"
     THEN Become(r, Reopened(r))
     ELSE Go(r, "snapshot")
  /\ UNCHANGED <<book, orders, checks, failures, gaps>>

\* The monitoring_state row; the reopen cycle writes none.
Snapshot(r) ==
  /\ At(r, "snapshot")
  /\ IF run[r].kind = "tick" /\ ~run[r].nested THEN End(r, "done") ELSE Go(r, "exit")
  /\ UNCHANGED <<book, tables, gaps>>

-----------------------------------------------------------------------------
(* the process dies                                                         *)

\* An order is in hand from the moment the broker has it until its row is
\* written; a crash inside the submit call may come before or after it has.
InHand(r) == run[r].pc \in {"persist", "closepersist"}

Crash(r) ==
  /\ Active(r)
  /\ End(r, "crashed")
  /\ gaps' = gaps \cup {g \in {"lost"} : InHand(r)}
  /\ UNCHANGED <<book, tables>>

CrashInSubmit(r) ==
  /\ run[r].pc \in {"submit", "closesubmit"}
  /\ End(r, "crashed")
  /\ Place(r, IF At(r, "submit") THEN OpenSlot(r) ELSE "close")
  /\ gaps' = gaps \cup {"lost"}
  /\ UNCHANGED tables

-----------------------------------------------------------------------------

Graph(r) ==
  \/ Enter(r) \/ Exit(r) \/ ExitMonitoring(r) \/ ExitReopen(r)
  \/ InitialBody(r) \/ AnalyzingBody(r) \/ StrategyBody(r) \/ RiskBody(r) \/ RiskBodyFails(r)

Execution(r) ==
  \/ SkipGuarded(r) \/ PassGuard(r) \/ AbortBeforeSubmit(r) \/ PlanRaises(r)
  \/ Submit(r) \/ SubmitUnmappable(r) \/ SubmitFails(r) \/ PersistOrder(r)

Monitoring(r) ==
  \/ Level1(r) \/ Assess(r) \/ CloseStops(r) \/ CloseGate(r) \/ ClosePlanFails(r)
  \/ CloseSubmit(r) \/ CloseSubmitFails(r) \/ ClosePersist(r) \/ RecordChange(r) \/ Snapshot(r)

Step(r) == Graph(r) \/ Execution(r) \/ Monitoring(r)

Act(r) == InvokeCycle(r) \/ InvokeTick(r) \/ Step(r) \/ Crash(r) \/ CrashInSubmit(r)

Next == \E r \in Runs : Act(r)

\* A thread that was started goes on: every call it makes has a timeout or is
\* bounded by a retry policy.  Invocations and crashes are not promised.
Spec == Init /\ [][Next]_vars /\ \A r \in Runs : WF_vars(Step(r))


-----------------------------------------------------------------------------
(* Properties                                                               *)

Placed(r, s) == book[<<r, s>>] # 0

\* The invocation has an order in hand that its next write puts on file.
Persisting(r, s) ==
  \/ At(r, "persist") /\ s = OpenSlot(r)
  \/ At(r, "closepersist") /\ s = "close"

RunState ==
  [pc : Steps, kind : {"cycle", "tick"}, node : Nodes, nested : BOOLEAN, context : BOOLEAN,
   decision : {"none", "skip", "hedge", "clear", "reject"}, outcome : Outcomes,
   result : {"none", "terminal", "FAILED"}, halted : BOOLEAN,
   flaky : BOOLEAN, escaped : SUBSET Slots]

TypeOK ==
  /\ run \in [Runs -> RunState]
  /\ book \in [Runs \X Slots -> Nat]
  /\ orders \subseteq Runs \X Slots
  /\ checks \in [Runs \X Slots -> Verdicts]
  /\ failures \subseteq Runs \X Slots
  /\ changes \subseteq Runs
  /\ gaps \subseteq Gaps

\* Nothing reaches the broker, from whichever of the three places, and no
\* hedge_changes row is written, before the risk gate has cleared that very
\* order; an order that opens protection also has the risk_checks row to show
\* for it.
GatedOrders ==
  \A r \in Runs :
    /\ \A s \in OpenSlots : Placed(r, s) => checks[<<r, s>>] = "clear"
    /\ Placed(r, "close") \/ r \in changes => checks[<<r, "close">>] \in {"clear", "unlogged"}

\* "Once submit_plan returns, an orders row is written unconditionally" (nodes.py):
\* an order the broker has is on file or about to be, unless one of the named
\* gaps occurred in this cycle.
OrderOnFile ==
  gaps = {} => \A r \in Runs, s \in Slots : Placed(r, s) => <<r, s>> \in orders \/ Persisting(r, s)

\* "A graph re-invoke does not double an order" (nodes.py): over all the
\* invocations, ticks and nested reopen cycles of one cycle_id at most one order
\* that opens protection reaches the broker, unless one of the gaps occurred.
OneOpenOrder ==
  gaps = {} =>
    \A q, r \in Runs, s, t \in OpenSlots : Placed(q, s) /\ Placed(r, t) => q = r /\ s = t

\* The guard of EXECUTION kept an approved order back: the cycle has another one on file,
\* which for the primary order is another invocation's.
KeptBack(r, s) ==
  /\ ~Placed(r, s)
  /\ \E other \in orders : other # <<r, s>> /\ (s = "primary" => other[1] # r)

\* What the gate approved leaves a row that tells what became of it, overlaps, crashes of
\* other invocations and lost replies or not: when an invocation is done, the order of its
\* EXECUTION and that of its reopen cycle are in the orders table, or their failure is in
\* execution_failures, or the guard kept them back; an approved close has its
\* hedge_changes row.  The exceptions: the invocation's own database calls failed, or an
\* error nobody writes down left the node or apply_change after the approval.
ApprovedLeavesARow ==
  \A r \in Runs :
    At(r, "done") /\ ~run[r].flaky =>
      /\ \A s \in OpenSlots : checks[<<r, s>>] = "clear" /\ s \notin run[r].escaped =>
           <<r, s>> \in orders \cup failures \/ KeptBack(r, s)
      /\ checks[<<r, "close">>] = "clear" /\ "close" \notin run[r].escaped => r \in changes

\* Each invocation submits from each place at most once: the broker never sees a
\* second submission for the same slot, through retries or nested escalations.
SubmitOnce == \A k \in Runs \X Slots : book[k] <= 1

\* An invocation ends: no loop through escalation and reopen, no step without a
\* successor.
EveryInvocationEnds == \A r \in Runs : Active(r) ~> run[r].pc \in Over

(* What the repository says of a cycle and the code does not do: TLC finds     *)
(* each of them violated, ReplaceReopens in a run of its own.                  *)

\* CRITICAL "routes to MONITORING so nothing trades" (nodes.py).
HaltedCycleNeverTrades == [][\A r \in Runs : run[r].halted =>
                               \A s \in Slots : book'[<<r, s>>] = book[<<r, s>>]]_vars

\* "REPLACE -> close + open" (phased-implementation-plan.md, P7-BE-7): a REPLACE
\* that closed and whose fresh hedge was approved tries to open it.
ReplaceReopens ==
  \A r \in Runs :
    At(r, "snapshot") /\ run[r].outcome = "REPLACE" /\ gaps = {}
      /\ Placed(r, "close") /\ checks[<<r, "reopen">>] = "clear"
      => Placed(r, "reopen") \/ <<r, "reopen">> \in failures

\* "REPLACE closes it entirely and flags that a fresh hedge cycle should follow"
\* (apply_change.py): the reopened hedge replaces one that was closed.
ReopenOnlyAfterClose ==
  \A r \in Runs :
    run[r].outcome = "REPLACE" /\ Placed(r, "reopen") => Placed(r, "close")

=============================================================================
