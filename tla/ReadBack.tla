------------------------------ MODULE ReadBack ------------------------------
(***************************************************************************)
(* Three GET handlers that put an answer together from several queries, each on *)
(* a connection of its own, while the cycle goes on writing:                  *)
(*   /decision-trail/{order_id}  (backend/api/decision_trail.py)             *)
(*   /execution                  (backend/api/exec_readback.py)              *)
(*   /cycle/{cycle_id}/state     (backend/api/workflow.py)                   *)
(* A handler's step is one query with what is computed from it; orders and     *)
(* fills of one order are committed together and never change, so a trail      *)
(* reads them in one step.                                                   *)
(***************************************************************************)
EXTENDS CycleRecords

VARIABLE reader   \* the request: which endpoint, where it is, what it has read

NoRead == [at |-> "none", state |-> 0, order |-> 0, decision |-> 0, listed |-> {}, missing |-> {},
           answer |-> "none", filled |-> {}, unfilled |-> {}]

ReaderInit == reader = NoRead

Read(state) == reader' = state /\ UNCHANGED records
Missing(link, absent) == reader.missing \cup {l \in {link} : absent}

\* for_cycle: the row with the highest id, 0 for none.
LatestApproval == Len(riskChecks)
LatestDecision == Len(decisions)
LatestSnapshot == Len(snapshots)

\* Everything on file for the cycle, in insertion order.
ListHypotheses == DOMAIN hypotheses
ListEvents == DOMAIN events
ListReassessments == DOMAIN reassessments
FillsFor(order) == ToSet(orders[order].fills)

-----------------------------------------------------------------------------
(* GET /decision-trail/{order_id}                                           *)

\* The newest approval and the newest decision of the order's cycle.
TrailDecision(order) ==
  Read([reader EXCEPT !.at = "hypotheses", !.order = order, !.decision = LatestDecision,
                      !.missing = {l \in {"risk_approval"} : LatestApproval = 0} \cup
                                  {l \in {"strategy_decision"} : LatestDecision = 0}])

\* The order's own row names the cycle the rest is looked up by (an unknown id is 404 and
\* not a step).  An order stays as it is, so the queries up to the decision are one step.
TrailOrder == reader.at = "none" /\ \E order \in DOMAIN orders : TrailDecision(order)

TrailHypotheses ==
  /\ reader.at = "hypotheses"
  /\ Read([reader EXCEPT !.at = "context", !.listed = ListHypotheses,
                         !.missing = Missing("hypotheses", ListHypotheses = {})])

\* Mutant: the decision is looked up last.
TrailContextThenDecision ==
  /\ reader.at = "context"
  /\ Read([reader EXCEPT !.at = "trail", !.decision = LatestDecision])

\* The snapshot, the trigger events and the reassessments: three queries that only ask
\* what exists.
TrailContext ==
  /\ reader.at = "context"
  /\ Read([reader EXCEPT !.at = "trail",
       !.missing = Missing("analysis_context", LatestSnapshot = 0) \cup
                   {l \in {"trigger"} : ListEvents \cup ListReassessments = {}}])

-----------------------------------------------------------------------------
(* GET /execution                                                           *)

\* The inverse of the mapping the row was written with; PENDING and SUBMITTED
\* are not terminal.
ExecutionStatusOf(status) ==
  CASE status \in {"FILLED", "PARTIALLY_FILLED", "CANCELLED"} -> status
    [] status = "EXPIRED" -> "CANCELLED"
    [] status = "REJECTED" -> "FAILED"
    [] OTHER -> "none"

\* The newest order of the cycle; one that is still working is a 404, as no order is
\* (which is not a step).
ExecutionOrder ==
  /\ reader.at = "none"
  /\ orders # <<>>
  /\ LET answer == ExecutionStatusOf(orders[Len(orders)].status) IN
       Read([reader EXCEPT !.at = IF answer = "none" THEN "404" ELSE "fills",
                           !.order = Len(orders), !.answer = answer])

\* The fills are the filled legs.  The plan's legs are stored without occ symbols,
\* so a partial fill lists one failed leg named "unknown" (0).
ExecutionFills ==
  /\ reader.at = "fills"
  /\ Read([reader EXCEPT !.at = "execution", !.filled = FillsFor(reader.order),
                         !.unfilled = IF reader.answer = "PARTIALLY_FILLED" THEN {0} ELSE {}])

-----------------------------------------------------------------------------
(* GET /cycle/{cycle_id}/state: the newest state, then the history            *)

\* workflow_state holds the rows of the log: set_state writes both.
GetState == Len(log)

CycleState ==
  /\ reader.at = "none"
  /\ log # <<>>
  /\ Read([reader EXCEPT !.at = "history", !.state = GetState])

GetTransitions == DOMAIN log

CycleHistory ==
  /\ reader.at = "history"
  /\ Read([reader EXCEPT !.at = "cycle state", !.listed = GetTransitions])

ReadCycle == CycleState \/ CycleHistory

ReadRecords ==
  \/ TrailOrder \/ TrailHypotheses \/ TrailContext
  \/ ExecutionOrder \/ ExecutionFills
=============================================================================
