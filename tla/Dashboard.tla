------------------------------ MODULE Dashboard ------------------------------
(***************************************************************************)
(* The dashboard of one browser (frontend/src/pages/DashboardPage.tsx and the  *)
(* hooks of frontend/src/api/queries.ts) over cycles that write their rows.    *)
(*                                                                         *)
(* The page polls GET /workflow-state and follows the cycle it names.  Panels   *)
(* are queries keyed by that cycle, fetched when the key is new, when the       *)
(* cycle is seen to finish and after the button; views stands for one such      *)
(* query per key whose answer is a list (hypotheses, agent runs, risk checks).  *)
(* The cache is TanStack Query's: Request to Fail are its rules.  An answer is  *)
(* a number: how much of what it lists was on file when the server read it.     *)
(***************************************************************************)
EXTENDS Integers, Sequences, FiniteSets

CONSTANTS
  MaxCycles,    \* bound: cycles started
  MaxRows,      \* bound: rows a cycle writes for the panels
  MaxFailures   \* bound: requests that fail

ASSUME BoundsAssumption == MaxCycles \in Nat /\ MaxRows \in Nat /\ MaxFailures \in Nat

VARIABLES
  cycles,     \* where each cycle's thread is, in the order they were started
  log,        \* workflow_state in the order of updated_at: cycle and status
  rows,       \* what the panels list, of which cycle
  workflow,   \* the query of GET /workflow-state
  views,      \* the panels' query, by cycle
  button,     \* RunCycleButton: "ready", or its POST "sent" or "answered"
  failures

server == <<cycles, log, rows>>
vars == <<cycles, log, rows, workflow, views, button, failures>>

NoCycle == 0
Cycles == 1..MaxCycles

None == -1    \* no data yet
Asked == -1   \* a request the server has not answered

\* What GET of a panel lists.
OnFile(cycle) == Cardinality({row \in rows : row.cycle = cycle})

-----------------------------------------------------------------------------
(* One query of the cache                                                    *)

\* wanted is a history variable: what was on file when the data was last asked for.
NoData == [value |-> None, flights |-> {}, failed |-> FALSE, wanted |-> None]

\* Mutant: a new request does not cancel the one under way.
RequestBeside(q, now) == [q EXCEPT !.flights = @ \cup {Asked}, !.wanted = now]

Request(q, now) == [q EXCEPT !.flights = {Asked}, !.wanted = now]

\* A key that is observed, and the interval: a request under way is joined.
Fetch(q, now) == IF q.flights = {} THEN Request(q, now) ELSE q

\* Mutant: refetch({ cancelRefetch: false }).
RefetchJoins(q, now) == IF q.flights = {} THEN Request(q, now) ELSE [q EXCEPT !.wanted = now]

\* refetch(): a request under way is cancelled, or joined while there is no data.
Refetch(q, now) == IF q.value = None THEN Fetch(q, now) ELSE Request(q, now)

Answer(q, now) == [q EXCEPT !.flights = (@ \ {Asked}) \cup {now}]

Receive(q, answer) == [q EXCEPT !.value = answer, !.flights = @ \ {answer}, !.failed = FALSE]

\* After the retry failed too, the data there is stays.
Fail(q) == [q EXCEPT !.flights = {}, !.failed = TRUE]

Answers(q) == q.flights \ {Asked}

-----------------------------------------------------------------------------
(* The server                                                               *)

Statuses == {"RUNNING", "HALTED"}

SetState(cycle, status) == log' = Append(log, [cycle |-> cycle, status |-> status])

\* POST /run-cycle, from this page or from elsewhere.
TriggerRunCycle ==
  /\ Len(cycles) < MaxCycles
  /\ cycles' = Append(cycles, "begun")
  /\ SetState(Len(cycles) + 1, "RUNNING")
  /\ UNCHANGED rows

\* A node's body writes what the panels show, ...
Persist(cycle) ==
  /\ cycles[cycle] # "ended"
  /\ OnFile(cycle) < MaxRows
  /\ rows' = rows \cup {[cycle |-> cycle, n |-> OnFile(cycle) + 1]}
  /\ UNCHANGED <<cycles, log, workflow, views, button, failures>>

\* ... and the hook around it state rows.  Those in between name the cycle a page may
\* already follow; the last is the EXIT of MONITORING, RUNNING or HALTED.
RecordLast(cycle) ==
  /\ cycles[cycle] = "begun"
  /\ cycles' = [cycles EXCEPT ![cycle] = "ended"]
  /\ \E status \in Statuses : SetState(cycle, status)
  /\ UNCHANGED <<rows, workflow, views, button, failures>>

Elsewhere == TriggerRunCycle /\ UNCHANGED <<workflow, views, button, failures>>

-----------------------------------------------------------------------------
(* The page                                                                 *)

\* useWorkflowState has the latest row: its number is the answer.
CycleOf(answer) == IF answer = None THEN NoCycle ELSE log[answer].cycle
StatusOf(answer) == IF answer = None THEN "none" ELSE log[answer].status

EffectiveCycle == CycleOf(workflow.value)

\* The page has just been opened.  What panels list without a cycle is left out: it is
\* not shown again once a cycle is known.
Init ==
  /\ cycles = <<>>
  /\ log = <<>>
  /\ rows = {}
  /\ workflow = Request(NoData, 0)
  /\ views = [cycle \in Cycles |-> NoData]
  /\ button = "ready"
  /\ failures = 0

\* Mutant: the interval runs while the cycle is seen to run only.
PollWhileRunning ==
  /\ workflow.flights = {}
  /\ StatusOf(workflow.value) \in {"none", "RUNNING"}
  /\ workflow' = Fetch(workflow, Len(log))
  /\ UNCHANGED <<server, views, button, failures>>

\* refetchInterval of useWorkflowState.
PollWorkflow ==
  /\ workflow.flights = {}
  /\ workflow' = Fetch(workflow, Len(log))
  /\ UNCHANGED <<server, views, button, failures>>

\* GET /workflow-state; 404 while no cycle has a row.
AnswerWorkflow ==
  /\ Asked \in workflow.flights
  /\ workflow' = IF log = <<>> THEN Fail(workflow) ELSE Answer(workflow, Len(log))
  /\ UNCHANGED <<server, views, button, failures>>

\* The statuses after which the page refetches its panels.
FinishedStatuses == {"completed", "idle"}

\* A key with data is fetched again only when the data is older than staleTime.
Observe(q, now) ==
  IF q.value = None THEN {Fetch(q, now)} ELSE {q, Fetch(q, now)}

\* The row is rendered: the panels observe the key of its cycle, and the effect on its
\* status and cycle runs.
ReceiveWorkflow ==
  /\ \E answer \in Answers(workflow) :
       LET cycle == CycleOf(answer)
           same == cycle = EffectiveCycle
           finished ==
             /\ StatusOf(answer) \in FinishedStatuses
             /\ ~(same /\ StatusOf(answer) = StatusOf(workflow.value))
       IN /\ workflow' = Receive(workflow, answer)
          /\ \E q \in IF same THEN {views[cycle]} ELSE Observe(views[cycle], OnFile(cycle)) :
               views' = [views EXCEPT ![cycle] =
                           IF finished THEN Refetch(q, OnFile(cycle)) ELSE q]
  /\ UNCHANGED <<server, button, failures>>

AnswerView(cycle) ==
  /\ Asked \in views[cycle].flights
  /\ views' = [views EXCEPT ![cycle] = Answer(@, OnFile(cycle))]
  /\ UNCHANGED <<server, workflow, button, failures>>

ReceiveView(cycle) ==
  /\ \E answer \in Answers(views[cycle]) : views' = [views EXCEPT ![cycle] = Receive(@, answer)]
  /\ UNCHANGED <<server, workflow, button, failures>>

\* isRunning of the button, or its own POST under way.
Locked == StatusOf(workflow.value) = "running" \/ button # "ready"

Click ==
  /\ ~Locked
  /\ button' = "sent"
  /\ UNCHANGED <<server, workflow, views, failures>>

StartCycle ==
  /\ button = "sent"
  /\ button' = "answered"
  /\ TriggerRunCycle
  /\ UNCHANGED <<workflow, views, failures>>

\* onCycleTriggered: the queries of the cycle that is shown now.
CycleTriggered ==
  /\ button = "answered"
  /\ button' = "ready"
  /\ workflow' = Refetch(workflow, Len(log))
  /\ views' = [cycle \in Cycles |->
                 IF cycle = EffectiveCycle THEN Refetch(views[cycle], OnFile(cycle))
                 ELSE views[cycle]]
  /\ UNCHANGED <<server, failures>>

\* The POST or its answer is lost; the cycle may have been started all the same.
TriggerFailed ==
  /\ button # "ready"
  /\ button' = "ready"
  /\ failures' = failures + 1
  /\ UNCHANGED <<server, workflow, views>>

RequestFailed ==
  /\ \/ /\ workflow.flights # {}
        /\ workflow' = Fail(workflow)
        /\ UNCHANGED views
     \/ \E cycle \in Cycles :
          /\ views[cycle].flights # {}
          /\ views' = [views EXCEPT ![cycle] = Fail(@)]
          /\ UNCHANGED workflow
  /\ failures' = failures + 1
  /\ UNCHANGED <<server, button>>

-----------------------------------------------------------------------------

RunCycles ==
  \/ Elsewhere
  \/ \E cycle \in DOMAIN cycles : Persist(cycle) \/ RecordLast(cycle)

Browse ==
  \/ PollWorkflow \/ AnswerWorkflow \/ ReceiveWorkflow
  \/ \E cycle \in Cycles : AnswerView(cycle) \/ ReceiveView(cycle)
  \/ Click \/ StartCycle \/ CycleTriggered
  \/ failures < MaxFailures /\ (TriggerFailed \/ RequestFailed)

Next == RunCycles \/ Browse

\* A page that stays open polls, the server answers and its threads run on; what a
\* cycle writes, clicks and failures are up to others.
Fairness ==
  /\ WF_vars(PollWorkflow) /\ WF_vars(AnswerWorkflow) /\ WF_vars(ReceiveWorkflow)
  /\ \A cycle \in Cycles : WF_vars(AnswerView(cycle)) /\ WF_vars(ReceiveView(cycle))
  /\ WF_vars(CycleTriggered)
  /\ \A cycle \in Cycles : WF_vars(cycle \in DOMAIN cycles /\ RecordLast(cycle))

Spec == Init /\ [][Next]_vars /\ Fairness

-----------------------------------------------------------------------------

Query == [value : Int, flights : SUBSET Int, failed : BOOLEAN, wanted : Int]

\* The types.
TypeOK ==
  /\ cycles \in Seq({"begun", "ended"})
  /\ log \in Seq([cycle : Cycles, status : Statuses])
  /\ rows \subseteq [cycle : Cycles, n : 1..MaxRows]
  /\ workflow \in Query
  /\ views \in [Cycles -> Query]
  /\ button \in {"ready", "sent", "answered"}
  /\ failures \in Nat

\* What is shown never goes back to an older answer, although the interval, a change of
\* the key and the button ask for the same data with answers still under way.
ViewNeverGoesBack ==
  [][/\ workflow'.value >= workflow.value
     /\ \A cycle \in Cycles : views'[cycle].value >= views[cycle].value]_vars

\* A refresh is one: what is shown when nothing is under way is no older than the moment
\* it was last asked for, unless that request failed.
RefreshIsFresh ==
  \A q \in {workflow} \cup {views[cycle] : cycle \in Cycles} :
    q.flights = {} /\ ~q.failed => q.value >= q.wanted

\* Again and again an open page has the newest state row, whatever has finished, failed or
\* been clicked before; cycles are finitely many, so every row reaches it.
PollCatchesUp == []<>(log # <<>> => workflow.value = Len(log))

\* Documented, and not so: "When workflow finishes running, automatically refetch
\* telemetry and decisions" (DashboardPage.tsx:78).  A cycle that has ended is shown with
\* all it has on file, or another cycle is shown.
FinishedIsShown ==
  \A cycle \in Cycles :
    (Len(cycles) >= cycle /\ cycles[cycle] = "ended" /\ EffectiveCycle = cycle)
      ~> (EffectiveCycle # cycle \/ views[cycle].value = OnFile(cycle))

\* Documented, and not so: "disabled while a cycle runs" (phased-implementation-plan.md:667).
\* No click starts a cycle while the one the page shows is under way.
LocksWhileRunning ==
  [][Click /\ EffectiveCycle # NoCycle => cycles[EffectiveCycle] = "ended"]_vars
=============================================================================
