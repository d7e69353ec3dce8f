----------------------------- MODULE Reassessment -----------------------------
(***************************************************************************)
(* Level 2 of the adaptive loop: whether fired triggers start a reassessment *)
(* and what it decides about the hedge on the book                          *)
(* (backend/agents/monitoring/reassessment.py, models/reassessment.py).      *)
(***************************************************************************)
EXTENDS Level1

ReassessmentOutcomes == {"MAINTAIN", "INCREASE", "DECREASE", "REMOVE", "REPLACE", "NO_TRADE"}
ChangeOutcomes == {"DECREASE", "REMOVE", "REPLACE"}

\* What the model can answer: an outcome, or something complete_json or
\* _parse_outcome refuses (no key, a timeout, another word, NEW_HEDGE).
Answers == ReassessmentOutcomes \cup {"unusable"}

StableVolatility == 20
CalmVolatility == 14
DeepeningVolatility == 30
RecoveredDrawdown == 2
FlatDrawdown == 1
DeepeningDrawdown == 6
StableVix == 20

Below(x, limit) == x # None /\ x < limit
NotAbove(x, limit) == x = None \/ x < limit

-----------------------------------------------------------------------------

ShouldEscalate(observations, cooling) ==
  LET emergency == \E o \in observations : o.emergency
      escalate == observations # {} /\ (~cooling \/ emergency)
  IN [escalate |-> escalate, emergency |-> escalate /\ emergency,
      bypassed |-> escalate /\ cooling]

Deepening(c) ==
  AtLeast(Drawdown(c), DeepeningDrawdown) \/ AtLeast(c.volatility, DeepeningVolatility)

\* Mutant: the VIX is not consulted.
StabilizingWithoutVix(c) ==
  NotAbove(c.volatility, StableVolatility) /\ NotAbove(Drawdown(c), RecoveredDrawdown)

Stabilizing(c) ==
  /\ NotAbove(c.volatility, StableVolatility)
  /\ NotAbove(Drawdown(c), RecoveredDrawdown)
  /\ NotAbove(c.vix, StableVix)

FullyCalm(c) == Below(c.volatility, CalmVolatility) /\ Below(Drawdown(c), FlatDrawdown)

Heuristic(c, observations) ==
  LET fired == {o.type : o \in observations}
      shock == {"DRAWDOWN_LIMIT", "VOLATILITY_SPIKE"}
  IN CASE ~c.hedge.active -> "NO_TRADE"
       [] c.hedge.active /\ "CORRELATION_BREAKDOWN" \in fired -> "REPLACE"
       [] c.hedge.active /\ "CORRELATION_BREAKDOWN" \notin fired
            /\ Deepening(c) /\ fired \cap shock # {} -> "INCREASE"
       [] c.hedge.active /\ fired = {"TIME_ELAPSED"} -> "REPLACE"
       [] OTHER -> IF ~Stabilizing(c) THEN "MAINTAIN"
                   ELSE IF FullyCalm(c) THEN "REMOVE" ELSE "DECREASE"

Assess(c, observations, answer) ==
  IF answer \in ReassessmentOutcomes THEN answer ELSE Heuristic(c, observations)

=============================================================================
