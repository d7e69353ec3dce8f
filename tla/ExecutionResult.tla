--------------------------- MODULE ExecutionResult ---------------------------
(***************************************************************************)
(* Mapping one broker order object to the terminal ExecutionResult          *)
(* (backend/agents/execution/result.py and the validator of                 *)
(* backend/models/execution.py).                                            *)
(*                                                                          *)
(* A plan's legs are the numbers 1 .. n, in the plan's order; Parent stands *)
(* for the single record the mapping falls back to when the broker order    *)
(* carries no "legs" array.  A leg's fill is compared with the ordered      *)
(* quantity and with nothing else, so three levels are enough:              *)
(*   "none"   filled_qty <= 0, or no average price reported                 *)
(*   "short"  something filled, less than ordered                           *)
(*   "full"   the ordered quantity filled                                   *)
(***************************************************************************)
EXTENDS Naturals, FiniteSets

Parent == 0
FillLevels == {"none", "short", "full"}
Sides == {"BUY", "SELL"}

\* The groups of Alpaca order states the mapping tells apart.
BrokerStates ==
  {"filled", "partially_filled", "canceled", "rejected", "working", "unknown"}

ExecutionStatuses == {"FILLED", "PARTIALLY_FILLED", "CANCELLED", "FAILED"}

\* What a caller sees when the mapping raises instead of returning.
Raised == {"RAISES_RESULT_ERROR", "RAISES_VALIDATION"}

RecoveryActions == {"NONE", "CANCEL_UNFILLED_LEGS", "UNWIND_FILLED_LEGS"}

OrderRowStatuses == {"FILLED", "PARTIALLY_FILLED", "CANCELLED", "REJECTED"}

-----------------------------------------------------------------------------

MapBrokerStatus(state) ==
  CASE state = "filled"           -> "FILLED"
    [] state = "partially_filled" -> "PARTIALLY_FILLED"
    [] state = "canceled"         -> "CANCELLED"
    [] state = "rejected"         -> "FAILED"
    [] OTHER                      -> "RAISES_RESULT_ERROR"

FilledLegs(fills) == {l \in DOMAIN fills : fills[l] # "none"}
FailedLegs(fills) == {l \in DOMAIN fills : fills[l] = "none"}
AnyPartial(fills) == \E l \in DOMAIN fills : fills[l] = "short"

\* The status when no leg filled: the broker's own terminal reason, and FAILED
\* for a broker that claims a fill it does not show.
NothingFilledStatus(state) ==
  IF MapBrokerStatus(state) \in {"CANCELLED", "FAILED", "RAISES_RESULT_ERROR"}
  THEN MapBrokerStatus(state)
  ELSE "FAILED"

\* Mutants: the parent state is believed before the legs are looked at.
FillStatusTrustsFilled(state, fills) ==
  IF state = "filled" THEN "FILLED"
  ELSE IF FilledLegs(fills) # {} THEN "PARTIALLY_FILLED"
  ELSE NothingFilledStatus(state)

FillStatusTrustsCanceled(state, fills) ==
  IF FailedLegs(fills) = {} /\ ~AnyPartial(fills) THEN "FILLED"
  ELSE IF FilledLegs(fills) # {} /\ state # "canceled" THEN "PARTIALLY_FILLED"
  ELSE NothingFilledStatus(state)

FillStatus(state, fills) ==
  IF FailedLegs(fills) = {} /\ ~AnyPartial(fills) THEN "FILLED"
  ELSE IF FilledLegs(fills) # {} THEN "PARTIALLY_FILLED"
  ELSE NothingFilledStatus(state)

\* The contract's model validator: a FILLED result has no failed leg, a
\* PARTIALLY_FILLED one has at least one.
StatusMatchesLegs(status, fills) ==
  /\ status = "FILLED" => FailedLegs(fills) = {}
  /\ status = "PARTIALLY_FILLED" => FailedLegs(fills) # {}

BuildStatus(state, fills) ==
  LET status == FillStatus(state, fills) IN
  IF status \in Raised \/ StatusMatchesLegs(status, fills)
  THEN status
  ELSE "RAISES_VALIDATION"

\* Mutant: the check looks for a filled bought leg.
RecoveryActionWrongSide(side, status, fills) ==
  LET longFilled == \E l \in FilledLegs(fills) \cap DOMAIN side : side[l] = "BUY"
  IN  IF status # "PARTIALLY_FILLED" THEN "NONE"
      ELSE IF longFilled /\ FailedLegs(fills) # {} THEN "UNWIND_FILLED_LEGS"
      ELSE "CANCEL_UNFILLED_LEGS"

\* side is the plan's: legs the broker reports that the plan does not have
\* (Parent) never count as a filled short.
RecoveryAction(side, status, fills) ==
  LET shortFilled == \E l \in FilledLegs(fills) \cap DOMAIN side : side[l] = "SELL"
  IN  IF status # "PARTIALLY_FILLED" THEN "NONE"
      ELSE IF shortFilled /\ FailedLegs(fills) # {} THEN "UNWIND_FILLED_LEGS"
      ELSE "CANCEL_UNFILLED_LEGS"

\* Mutant: the execution status is stored as it is.
OrderRowStatusUnmapped(status) == status

\* persist_execution_result: the status the orders row is written with.
OrderRowStatus(status) == IF status = "FAILED" THEN "REJECTED" ELSE status

-----------------------------------------------------------------------------
(* Independent single-leg responses folded into one combo-shaped order.  The  *)
(* last branch takes whichever status the Python set yields first, so the     *)
(* parent state is one of a set.                                              *)

CombinedStates(states) ==
  IF states = {"filled"} THEN {"filled"}
  ELSE IF states \cap {"filled", "partially_filled"} # {} THEN {"partially_filled"}
  ELSE IF "rejected" \in states THEN {"rejected"}
  ELSE states
=============================================================================
