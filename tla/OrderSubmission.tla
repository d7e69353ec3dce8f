--------------------------- MODULE OrderSubmission ---------------------------
(***************************************************************************)
(* One order on its way to the broker and back into the database:           *)
(* submit_plan (backend/integrations/alpaca/orders.py), the folding of      *)
(* legged responses, the mapping of ExecutionResult and the rows the three  *)
(* callers write.                                                           *)
(*                                                                          *)
(*   "node"   execution_node, backend/agents/orchestrator/nodes.py          *)
(*   "close"  apply_change._submit, backend/agents/monitoring               *)
(*   "api"    POST /execute, backend/api/execute.py                         *)
(*                                                                          *)
(* The broker is the environment: it accepts an order and reports any       *)
(* mixture of leg states, refuses it, or accepts it and loses the reply,    *)
(* and goes on working live legs after it has replied.                      *)
(***************************************************************************)
EXTENDS ExecutionResult

CONSTANT MaxLegs    \* bound: the largest number of legs a plan has

ASSUME MaxLegsAssumption == MaxLegs \in Nat \ {0}

Callers == {"node", "close", "api"}

VARIABLES
  caller,      \* who submits the plan
  side,        \* the plan: leg |-> side; its domain is 1 .. n
  mayLeg,      \* plan.constraints.allow_legging
  pc,          \* where the submitting thread is
  leg,         \* the broker's view of each leg: [state, fill]
  resp,        \* what the broker said of each leg when it replied
  legged,      \* submit_plan fell back to independent legs
  reply,       \* the order object handed to the mapping: [state, fills]
  result,      \* status of the ExecutionResult, or how the mapping raised
  recovery,    \* its recovery_action
  row,         \* status of the orders row, "none" when there is none
  failureRow,  \* an execution_failures row was written
  dbFailed     \* a best-effort write of the orders row failed

vars == <<caller, side, mayLeg, pc, leg, resp, legged, reply, result, recovery,
          row, failureRow, dbFailed>>

plan == <<caller, side, mayLeg>>

PlanLegs == DOMAIN side

LegStates == {"absent", "working", "partially_filled", "filled", "canceled", "rejected"}

\* A leg order as the broker holds it.  A canceled one may have filled in part.
LegOrder == [state : LegStates, fill : FillLevels]
Absent == [state |-> "absent", fill |-> "none"]
AcceptedLeg ==
  {[state |-> "working", fill |-> "none"],
   [state |-> "partially_filled", fill |-> "short"],
   [state |-> "filled", fill |-> "full"],
   [state |-> "canceled", fill |-> "none"],
   [state |-> "canceled", fill |-> "short"],
   [state |-> "rejected", fill |-> "none"]}

NoReply == [state |-> "unknown", fills |-> [l \in {} |-> "none"]]

Live(l) == leg[l].state \in {"working", "partially_filled"}
Ended == {"done", "raised", "crashed"}

-----------------------------------------------------------------------------

Plans == UNION {[1 .. n -> Sides] : n \in 1 .. MaxLegs}

Init ==
  /\ caller \in Callers
  /\ side \in Plans
  /\ mayLeg \in BOOLEAN
  /\ pc = "submit"
  /\ leg = [l \in PlanLegs |-> Absent]
  /\ resp = [l \in PlanLegs |-> Absent]
  /\ legged = FALSE
  /\ reply = NoReply
  /\ result = "none"
  /\ recovery = "NONE"
  /\ row = "none"
  /\ failureRow = FALSE
  /\ dbFailed = FALSE

-----------------------------------------------------------------------------
(* submit_plan                                                              *)

\* The parent state the broker reports for a combo whose legs stand as `legs`.
\* It may claim "filled" for an order with a leg that is not.
ParentStates(legs) ==
  LET states == {legs[l].state : l \in DOMAIN legs} IN
  IF states = {"filled"} THEN {"filled"}
  ELSE IF states = {"working"} THEN {"working"}
  ELSE IF states = {"rejected"} THEN {"rejected"}
  ELSE IF \A l \in DOMAIN legs : legs[l].fill = "none"
       THEN IF "working" \in states THEN {"working"} ELSE {"canceled"}
  ELSE {"partially_filled", "filled"}
       \cup (IF states \cap {"working", "partially_filled"} = {} THEN {"canceled"} ELSE {})

\* A combo reply without the legs array shows one aggregate record.
Aggregate(legs) ==
  IF \A l \in DOMAIN legs : legs[l].fill = "full" THEN "full"
  ELSE IF \A l \in DOMAIN legs : legs[l].fill = "none" THEN "none"
  ELSE "short"

Fills(legs) == [l \in DOMAIN legs |-> legs[l].fill]

\* The one call of a single-leg plan and the first call of a combo: the broker
\* takes the order and answers.
SubmitAccepted ==
  /\ pc = "submit"
  /\ \E legs \in [PlanLegs -> AcceptedLeg] :
       /\ leg' = legs
       /\ resp' = legs
       /\ \/ /\ PlanLegs = {1}
             /\ reply' = [state |-> legs[1].state, fills |-> Fills(legs)]
          \/ /\ PlanLegs # {1}
             /\ \E state \in ParentStates(legs) :
                  reply' \in {[state |-> state, fills |-> Fills(legs)],
                              [state |-> state,
                               fills |-> [p \in {Parent} |-> Aggregate(legs)]]}
  /\ pc' = "map"
  /\ UNCHANGED <<plan, legged, result, recovery, row, failureRow, dbFailed>>

\* AlpacaError: an answer that is not a 2xx.
SubmitRefused ==
  /\ pc = "submit"
  /\ pc' = "error"
  /\ UNCHANGED <<plan, leg, resp, legged, reply, result, recovery, row, failureRow, dbFailed>>

\* AlpacaError as well: a timeout, a dropped connection or a body that is not
\* JSON, after the broker took the order.
SubmitReplyLost ==
  /\ pc = "submit"
  /\ leg' \in [PlanLegs -> AcceptedLeg]
  /\ pc' = "error"
  /\ UNCHANGED <<plan, resp, legged, reply, result, recovery, row, failureRow, dbFailed>>

\* The combo is refused as unsupported and the plan opted into legging.
FallBackToLegs ==
  /\ pc = "submit"
  /\ PlanLegs # {1}
  /\ mayLeg
  /\ legged' = TRUE
  /\ pc' = "legs"
  /\ UNCHANGED <<plan, leg, resp, reply, result, recovery, row, failureRow, dbFailed>>

\* The legs go out one by one, in the plan's order.
NextLeg == CHOOSE l \in PlanLegs : /\ resp[l] = Absent
                                    /\ \A k \in PlanLegs : resp[k] = Absent => l <= k

LegAccepted ==
  /\ pc = "legs"
  /\ \E l \in PlanLegs : resp[l] = Absent
  /\ \E order \in AcceptedLeg :
       /\ leg' = [leg EXCEPT ![NextLeg] = order]
       /\ resp' = [resp EXCEPT ![NextLeg] = order]
  /\ UNCHANGED <<plan, pc, legged, reply, result, recovery, row, failureRow, dbFailed>>

\* A leg that fails raises out of submit_plan; the earlier legs stay live and
\* their responses are gone.
LegFailed ==
  /\ pc = "legs"
  /\ \E l \in PlanLegs : resp[l] = Absent
  /\ leg' \in {leg} \cup {[leg EXCEPT ![NextLeg] = order] : order \in AcceptedLeg}
  /\ pc' = "error"
  /\ UNCHANGED <<plan, resp, legged, reply, result, recovery, row, failureRow, dbFailed>>

\* _combine_legged; apply_change takes the first response instead.
CombineLegged ==
  /\ pc = "legs"
  /\ \A l \in PlanLegs : resp[l] # Absent
  /\ \/ /\ caller # "close"
        /\ \E state \in CombinedStates({resp[l].state : l \in PlanLegs}) :
             reply' = [state |-> state, fills |-> Fills(resp)]
     \/ /\ caller = "close"
        /\ reply' = [state |-> resp[1].state, fills |-> [l \in {1} |-> resp[1].fill]]
  /\ pc' = "map"
  /\ UNCHANGED <<plan, leg, resp, legged, result, recovery, row, failureRow, dbFailed>>

\* The caller's except AlpacaError: nothing is put in the orders table, and the
\* close does not even write an execution_failures row.
SubmitError ==
  /\ pc = "error"
  /\ result' = "FAILED"
  /\ failureRow' = (caller # "close")
  /\ pc' = "done"
  /\ UNCHANGED <<plan, leg, resp, legged, reply, recovery, row, dbFailed>>

-----------------------------------------------------------------------------
(* build_execution_result and what each caller does when it raises           *)

mapped == BuildStatus(reply.state, reply.fills)

MapResult ==
  /\ pc = "map"
  /\ mapped \notin Raised
  /\ result' = mapped
  /\ recovery' = RecoveryAction(side, mapped, reply.fills)
  /\ pc' = "persist"
  /\ UNCHANGED <<plan, leg, resp, legged, reply, row, failureRow, dbFailed>>

\* Mutant: the node returns without a row, as POST /execute does.
MapUnmappableNoRow ==
  /\ pc = "map"
  /\ mapped \in Raised
  /\ caller = "close" \/ mapped = "RAISES_RESULT_ERROR"
  /\ result' = "FAILED"
  /\ failureRow' = TRUE
  /\ pc' = "done"
  /\ UNCHANGED <<plan, leg, resp, legged, reply, recovery, row, dbFailed>>

\* The node and the close report FAILED and go on to persist the live order;
\* POST /execute records a failure and returns.
MapUnmappable ==
  /\ pc = "map"
  /\ mapped \in Raised
  /\ \/ caller = "close"
     \/ mapped = "RAISES_RESULT_ERROR"
  /\ result' = "FAILED"
  /\ IF caller = "api"
     THEN failureRow' = TRUE /\ pc' = "done"
     ELSE pc' = "persist" /\ UNCHANGED failureRow
  /\ UNCHANGED <<plan, leg, resp, legged, reply, recovery, row, dbFailed>>

\* The contract's validator raises an error neither the node nor the endpoint
\* catches.
MapRaises ==
  /\ pc = "map"
  /\ caller # "close"
  /\ mapped = "RAISES_VALIDATION"
  /\ pc' = "raised"
  /\ UNCHANGED <<plan, leg, resp, legged, reply, result, recovery, row, failureRow, dbFailed>>

\* Mutant: only results with a fill are persisted.
PersistOnlyFills ==
  /\ pc = "persist"
  /\ row' = IF result \in {"FILLED", "PARTIALLY_FILLED"} THEN result ELSE row
  /\ failureRow' = (failureRow \/ (caller = "node" /\ result = "FAILED"))
  /\ pc' = "done"
  /\ UNCHANGED <<plan, leg, resp, legged, reply, result, recovery, dbFailed>>

\* persist_execution_result: order row and fills in one transaction, and the
\* node's audit row for a FAILED result.
Persist ==
  /\ pc = "persist"
  /\ \/ row' = OrderRowStatus(result) /\ UNCHANGED dbFailed
     \/ dbFailed' = TRUE /\ UNCHANGED row
  /\ failureRow' = (failureRow \/ (caller = "node" /\ result = "FAILED"))
  /\ pc' = "done"
  /\ UNCHANGED <<plan, leg, resp, legged, reply, result, recovery>>

-----------------------------------------------------------------------------
(* the environment                                                          *)

\* The broker goes on working a live leg.  Nothing in the backend asks again.
BrokerWorks(l) ==
  /\ Live(l)
  /\ \E order \in AcceptedLeg :
       /\ order.state \in {"partially_filled", "filled", "canceled"}
       /\ leg[l].fill = "short" => order.fill # "none"
       /\ leg' = [leg EXCEPT ![l] = order]
  /\ UNCHANGED <<plan, pc, resp, legged, reply, result, recovery, row, failureRow, dbFailed>>

\* The process dies; an order the broker already has stays there.
Crash ==
  /\ pc \notin Ended
  /\ pc' = "crashed"
  /\ UNCHANGED <<plan, leg, resp, legged, reply, result, recovery, row, failureRow, dbFailed>>

Submission ==
  \/ SubmitAccepted \/ SubmitRefused \/ SubmitReplyLost \/ FallBackToLegs
  \/ LegAccepted \/ LegFailed \/ CombineLegged \/ SubmitError
  \/ MapResult \/ MapUnmappable \/ MapRaises \/ Persist

Next ==
  \/ Submission
  \/ \E l \in PlanLegs : BrokerWorks(l)
  \/ Crash

\* The submitting thread is scheduled; the broker and crashes are not promised.
Spec == Init /\ [][Next]_vars /\ WF_vars(Submission)


-----------------------------------------------------------------------------
(* Properties                                                               *)

TypeOK ==
  /\ caller \in Callers
  /\ side \in Plans
  /\ mayLeg \in BOOLEAN
  /\ pc \in {"submit", "legs", "map", "persist", "error"} \cup Ended
  /\ leg \in [PlanLegs -> LegOrder]
  /\ resp \in [PlanLegs -> LegOrder]
  /\ legged \in BOOLEAN
  /\ reply.state \in BrokerStates
  /\ DOMAIN reply.fills \subseteq PlanLegs \cup {Parent}
  /\ \A l \in DOMAIN reply.fills : reply.fills[l] \in FillLevels
  /\ result \in ExecutionStatuses \cup {"none"}
  /\ recovery \in RecoveryActions
  /\ row \in OrderRowStatuses \cup {"none"}
  /\ failureRow \in BOOLEAN
  /\ dbFailed \in BOOLEAN

\* The close of a legged plan is mapped from its first leg's response alone.
FirstLegOnly == caller = "close" /\ legged

\* A FILLED orders row means that every leg of the plan really filled in full
\* at the broker, whatever the parent order claimed and whatever the broker
\* did afterwards ("never report false success", result.py).
NoFalseSuccess == row = "FILLED" /\ ~FirstLegOnly => \A l \in PlanLegs : leg[l].fill = "full"

\* A CANCELLED orders row of a combo, or of a single leg, means that nothing of
\* the plan is or will be held: no leg filled and none is still working.
CancelledRowHoldsNothing ==
  row = "CANCELLED" /\ ~legged =>
    \A l \in PlanLegs : leg[l].fill = "none" /\ ~Live(l)

\* A naked short the broker reported -- a sold leg filled at least in part while
\* a bought leg of the plan did not fill at all -- never gets an orders row
\* without the unwind action on its result.  (The close is left out: it maps a
\* result that fails validation to FAILED.)
NakedShortIsFlagged ==
  /\ row # "none"
  /\ caller # "close"
  /\ \E l \in PlanLegs : side[l] = "SELL" /\ resp[l].fill # "none"
  /\ \E l \in PlanLegs : side[l] = "BUY" /\ resp[l].fill = "none"
  => recovery = "UNWIND_FILLED_LEGS"

\* A submission that no orders row will ever describe although something of it
\* was accepted by the broker went through one of four doors: the submit call
\* raised, the mapping raised, POST /execute met a working order, or the write
\* failed.  The node and the close have no other way to lose an order.
UnrecordedOrderHasCause ==
  /\ pc = "done"
  /\ row = "none"
  /\ \E l \in PlanLegs : leg[l] # Absent
  => \/ dbFailed
     \/ reply = NoReply
     \/ caller = "api" /\ mapped = "RAISES_RESULT_ERROR"

\* Every reply the node receives ends as an orders row, unless the write fails,
\* the mapping raises or the process dies: the thread cannot stop half way.
ReplyIsRecorded ==
  caller = "node" /\ pc = "map" ~> row # "none" \/ dbFailed \/ pc \in {"raised", "crashed"}

(* What comments of the repository say and the code does not do: TLC finds     *)
(* each of them violated.                                                     *)

\* "Every failure [...] is written to state as a FAILED ExecutionResult [...]
\* nothing is raised out of the node" (nodes.py, execution_node).
NothingRaisedOutOfNode == caller = "node" => pc # "raised"

\* "The broker rejected the combo outright -- nothing went live, so this stays
\* retryable" (nodes.py, the except AlpacaError of execution_node); the known
\* gap it goes on to name, legging, is left out.
SubmitErrorMeansNothingLive ==
  caller = "node" /\ pc = "error" /\ ~legged => \A l \in PlanLegs : leg[l] = Absent

\* "never report false success" (result.py), for the close that
\* apply_change._submit makes "mirror the EXECUTION node's persistence split".
CloseNoFalseSuccess ==
  caller = "close" /\ row = "FILLED" => \A l \in PlanLegs : leg[l].fill = "full"

=============================================================================
