----------------------------- MODULE Resilience -----------------------------
(***************************************************************************)
(* The retry of an external fetch and the two classes of failure           *)
(* (agents/orchestrator/resilience.py).  An exception is its type and what  *)
(* its text matches: `auth` one of the markers of a permission problem,     *)
(* `busy` one of "429", "5xx", "timeout"; the text may match both.          *)
(***************************************************************************)
EXTENDS Naturals

CONSTANT MaxAttempts    \* RetryPolicy.max_attempts

\* RetryPolicy refuses a policy that would not try once.
ASSUME MaxAttemptsAssumption == MaxAttempts \in Nat \ {0}

Plain(kind) == [kind |-> kind, auth |-> FALSE, busy |-> FALSE]

AlpacaErrors == [kind : {"AlpacaError"}, auth : BOOLEAN, busy : BOOLEAN]

Exceptions ==
  AlpacaErrors \cup
  {Plain(kind) : kind \in {"TransientError", "CriticalFailure", "RecoverableFailure",
                           "AlpacaCredentialsError", "AgentError", "IngestError", "other"}}

LooksLikeAuth(e) == e.kind = "AlpacaError" /\ e.auth

IsTransientWhenBusy(e) == e.kind = "TransientError" \/ (e.kind = "AlpacaError" /\ e.busy)

IsTransient(e) ==
  \/ e.kind = "TransientError"
  \/ e.kind = "AlpacaError" /\ ~LooksLikeAuth(e) /\ e.busy

\* What run_with_retry does with the failure of attempt n: it propagates unchanged, the
\* call is made again, or it comes back inside RetriesExhausted.
AfterAttempt(n, e) ==
  IF ~IsTransient(e) THEN "raise" ELSE IF n < MaxAttempts THEN "again" ELSE "exhausted"

RetriesExhausted(e) == [kind |-> "RetriesExhausted", cause |-> e]

Surfaced(n, e) == IF AfterAttempt(n, e) = "exhausted" THEN RetriesExhausted(e) ELSE e

Cause(e) == IF e.kind = "RetriesExhausted" THEN e.cause ELSE e

\* Marker, known type, stage, and CRITICAL when nothing else is known.
ClassifyFailure(e, stage) ==
  LET c == Cause(e) IN
  IF \/ c.kind \in {"CriticalFailure", "AlpacaCredentialsError"}
     \/ LooksLikeAuth(c)
  THEN "CRITICAL"
  ELSE IF \/ c.kind \in {"RecoverableFailure", "AgentError"}
          \/ stage \in {"ANALYZING", "STRATEGY_EVALUATION"}
  THEN "RECOVERABLE"
  ELSE "CRITICAL"

\* The state update of a node that caught e: to MONITORING, and halted when CRITICAL.
FailurePayload(stage, e) ==
  [route |-> "MONITORING",
   class |-> ClassifyFailure(e, stage),
   halted |-> ClassifyFailure(e, stage) = "CRITICAL"]
=============================================================================
