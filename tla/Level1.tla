-------------------------------- MODULE Level1 --------------------------------
(***************************************************************************)
(* Level 1 of the adaptive loop: which triggers a hedge context fires, as    *)
(* the MONITORING node computes them (backend/agents/monitoring/agent.py,    *)
(* triggers.py and _run_level1_checks in orchestrator/nodes.py).            *)
(*                                                                          *)
(* Quantities are whole percent points (VIX in points, beta in percent,      *)
(* days in days), so nothing is lost to round(x, 4).  A reading that misses  *)
(* a threshold by exactly the deadband is decided by binary rounding in the  *)
(* program; no reading of the instances is such a tie.                      *)
(*                                                                          *)
(* A context is a record                                                    *)
(*   [drawdown, volatility, vix, gross, beta, event, sentiment, target,      *)
(*    hedge |-> [active, ratio, target, days]]                              *)
(* where any number may be None; sentiment is that of the item the news scan  *)
(* stops at and days is the time left to the hedge's earliest expiration.    *)
(***************************************************************************)
EXTENDS Integers

CONSTANT None     \* Python's None

ASSUME NoneAssumption == None \notin Int

\* MonitoringThresholds.
DrawdownLimit == 5
HedgeDriftLimit == 5
VolatilityLimit == 30
VixLimit == 30
GrossLimit == 100
DaysLimit == 7
BetaMin == 0
BetaMax == 200
SentimentMin == -60
DrawdownChange == 3
VolatilityChange == 10
EmergencyDrawdown == 15
EmergencyVolatility == 60
EmergencyVix == 45
DeadBand == 2

Magnitude(x) == IF x < 0 THEN -x ELSE x
OrZero(x) == IF x = None THEN 0 ELSE x
AtLeast(x, limit) == x # None /\ x >= limit
Over(x, limit) == x # None /\ x > limit

Observation(type, observed, threshold, emergency) ==
  [type |-> type, observed |-> observed, threshold |-> threshold, emergency |-> emergency]

\* A check answers with one observation or with None.
Fires(condition, type, observed, threshold) ==
  IF condition THEN {Observation(type, observed, threshold, FALSE)} ELSE {}

-----------------------------------------------------------------------------
(* MonitoringAgent: the absolute thresholds                                  *)

Drawdown(c) == IF c.drawdown = None THEN None ELSE Magnitude(c.drawdown)

CheckDrawdown(c) ==
  Fires(AtLeast(Drawdown(c), DrawdownLimit), "DRAWDOWN_LIMIT", Drawdown(c), DrawdownLimit)

HedgeTarget(c) == IF c.hedge.target # None THEN c.hedge.target ELSE c.target

Drift(c) == Magnitude(OrZero(c.hedge.ratio) - OrZero(HedgeTarget(c)))

CheckHedgeDrift(c) ==
  Fires(Drift(c) > HedgeDriftLimit, "PORTFOLIO_DELTA", Drift(c), HedgeDriftLimit)

\* Either limit fires it; what it reports is the volatility whenever there is one, and else
\* the points of the index, which are hundreds of percents beside the volatility's limit.
CheckVolatility(c) ==
  Fires(AtLeast(c.volatility, VolatilityLimit) \/ AtLeast(c.vix, VixLimit), "VOLATILITY_SPIKE",
        IF c.volatility # None THEN c.volatility ELSE 100 * c.vix, VolatilityLimit)

CheckExposure(c) ==
  Fires(Over(c.gross, GrossLimit), "PORTFOLIO_DELTA", c.gross, GrossLimit)

CheckExpiration(c) ==
  Fires(c.hedge.active /\ c.hedge.days # None /\ ~Over(c.hedge.days, DaysLimit),
        "TIME_ELAPSED", c.hedge.days, DaysLimit)

SevereNews(c) == c.event \/ (c.sentiment # None /\ c.sentiment <= SentimentMin)

CheckMajorStateChange(c) ==
  Fires(SevereNews(c) \/ (c.beta # None /\ (c.beta < BetaMin \/ c.beta > BetaMax)),
        "CORRELATION_BREAKDOWN", c.beta, BetaMax)

EvaluateAllTriggers(c) ==
  UNION {CheckDrawdown(c), CheckHedgeDrift(c), CheckVolatility(c), CheckExposure(c),
         CheckExpiration(c), CheckMajorStateChange(c)}

-----------------------------------------------------------------------------
(* triggers.py: changes since the previous snapshot, emergencies, deadband   *)

Moved(now, before, limit) == now # None /\ before # None /\ Magnitude(now - before) > limit

EvaluateDrawdownChange(c, previous) ==
  IF Moved(c.drawdown, previous.drawdown, DrawdownChange)
  THEN {Observation("DRAWDOWN_LIMIT", Magnitude(c.drawdown - previous.drawdown),
                    DrawdownChange, FALSE)}
  ELSE {}

EvaluateVolatilityChange(c, previous) ==
  IF Moved(c.volatility, previous.volatility, VolatilityChange)
  THEN {Observation("VOLATILITY_SPIKE", Magnitude(c.volatility - previous.volatility),
                    VolatilityChange, FALSE)}
  ELSE {}

\* The most portfolio-critical one only.
EvaluateEmergency(c) ==
  CASE AtLeast(Drawdown(c), EmergencyDrawdown) ->
         {Observation("DRAWDOWN_LIMIT", Drawdown(c), EmergencyDrawdown, TRUE)}
    [] ~AtLeast(Drawdown(c), EmergencyDrawdown) /\ AtLeast(c.volatility, EmergencyVolatility) ->
         {Observation("VOLATILITY_SPIKE", c.volatility, EmergencyVolatility, TRUE)}
    [] ~AtLeast(Drawdown(c), EmergencyDrawdown) /\ ~AtLeast(c.volatility, EmergencyVolatility)
         /\ AtLeast(c.vix, EmergencyVix) ->
         {Observation("VOLATILITY_SPIKE", c.vix, EmergencyVix, TRUE)}
    [] OTHER -> {}

DeadbandTypes == {"PORTFOLIO_DELTA", "DRAWDOWN_LIMIT", "VOLATILITY_SPIKE"}

\* Mutant: the band is applied to every deviation, emergencies included.
ApplyDeadbandToAll(triggers) ==
  {o \in triggers :
     o.type \in DeadbandTypes /\ o.observed # None
       => Magnitude(o.observed) - Magnitude(o.threshold) > DeadBand}

ApplyDeadband(triggers) ==
  {o \in triggers :
     ~o.emergency /\ o.type \in DeadbandTypes /\ o.observed # None
       => Magnitude(o.observed) - Magnitude(o.threshold) > DeadBand}

-----------------------------------------------------------------------------
(* _run_level1_checks                                                       *)

DedupeTypes == {"PORTFOLIO_DELTA", "TIME_ELAPSED"}

\* The previous snapshot is a monitoring_state row read back with its cooldown
\* and nothing else, so there is no drawdown or volatility to compare with.
ThinPrevious == [drawdown |-> None, volatility |-> None]

RunLevel1Checks(c) ==
  LET absolute == EvaluateAllTriggers(c)
      seen == {o.type : o \in absolute} \cap DedupeTypes
      extra == UNION {EvaluateEmergency(c), EvaluateDrawdownChange(c, ThinPrevious),
                      EvaluateVolatilityChange(c, ThinPrevious)}
  IN ApplyDeadband(absolute \cup {o \in extra : o.type \notin seen})

=============================================================================
