------------------------- MODULE Monitoring_proofs -------------------------
(***************************************************************************)
(* What holds of the monitoring of a hedge.                                 *)
(*                                                                         *)
(* AdaptiveLoop, for any readings, any tables and any number of runs.  An    *)
(* emergency reaches Level 2 as one, and the rules that stand in for the    *)
(* model never answer it by taking protection off: both are facts about one *)
(* context (EmergencyFires, HeuristicHolds), carried along the run that     *)
(* works on it (Working).  The legs a run closes are legs it holds (Booked,  *)
(* which follows them from an order to the tables and back into a context), *)
(* so a trim lands on its target; and a decision without an order does not   *)
(* change the hedge.                                                       *)
(*                                                                         *)
(* MonitorScheduler, whose timers start the ticks, for any number of timers *)
(* and jobs: a running flag has a timer that answers for it, whatever the    *)
(* job does.                                                                 *)
(***************************************************************************)
EXTENDS AdaptiveLoop, MonitorScheduler, SequenceTheorems, FiniteSetTheorems,
        FunctionTheorems, WellFoundedInduction, TLAPS

\* A context whose readings are numbers or missing.
Readable(c) == {c.drawdown, c.volatility, c.vix} \subseteq Int \cup {None}

\* The emergency as the limits of EvaluateEmergency put it.
LEMMA CatastrophicCases ==
  ASSUME NEW c, Readable(c), Catastrophic(c)
  PROVE  \/ AtLeast(Drawdown(c), EmergencyDrawdown)
         \/ AtLeast(c.volatility, EmergencyVolatility)
         \/ AtLeast(c.vix, EmergencyVix)
<1>1. CASE c.drawdown # None /\ (c.drawdown >= 15 \/ c.drawdown <= -15)
  <2>1. c.drawdown \in Int
    BY <1>1 DEF Readable
  <2>2. Drawdown(c) \in Int /\ Drawdown(c) >= 15
    BY <1>1, <2>1 DEF Drawdown, Magnitude
  <2> QED
    BY <2>2, NoneAssumption DEF AtLeast, EmergencyDrawdown
<1> QED
  BY <1>1 DEF Catastrophic, AtLeast, EmergencyVolatility, EmergencyVix

\* One of the observations of an emergency is marked as one: nothing else it fires
\* hides it, and the deadband lets it through.
LEMMA EmergencyFires ==
  ASSUME NEW c, Readable(c), Catastrophic(c)
  PROVE  \E o \in RunLevel1Checks(c) : o.emergency
<1> DEFINE big == AtLeast(Drawdown(c), EmergencyDrawdown)
           wild == AtLeast(c.volatility, EmergencyVolatility)
           scared == AtLeast(c.vix, EmergencyVix)
           fall == Observation("DRAWDOWN_LIMIT", Drawdown(c), EmergencyDrawdown, TRUE)
           swing == Observation("VOLATILITY_SPIKE", c.volatility, EmergencyVolatility, TRUE)
           fear == Observation("VOLATILITY_SPIKE", c.vix, EmergencyVix, TRUE)
<1>1. EvaluateEmergency(c) =
        CASE big -> {fall} [] ~big /\ wild -> {swing} [] ~big /\ ~wild /\ scared -> {fear}
          [] OTHER -> {}
  BY DEF EvaluateEmergency
<1>2. big \/ wild \/ scared
  BY CatastrophicCases
<1>3. EvaluateEmergency(c) \in {{fall}, {swing}, {fear}}
  <2> HIDE DEF big, wild, scared, fall, swing, fear
  <2>1. CASE big
    BY <1>1, <2>1, Zenon
  <2>2. CASE ~big /\ wild
    BY <1>1, <2>2, Zenon
  <2>3. CASE ~big /\ ~wild /\ scared
    BY <1>1, <2>3, Zenon
  <2> QED
    BY <1>2, <2>1, <2>2, <2>3
<1>4. PICK o \in EvaluateEmergency(c) : o \in {fall, swing, fear}
  BY <1>3
<1>5. o.emergency = TRUE /\ o.type \notin DedupeTypes
  BY <1>4 DEF Observation, DedupeTypes
<1>6. o \in RunLevel1Checks(c)
  BY <1>4, <1>5 DEF RunLevel1Checks, ApplyDeadband
<1> QED
  BY <1>5, <1>6

\* The rules never take protection off a book in an emergency.
LEMMA HeuristicHolds ==
  ASSUME NEW c, Readable(c), Catastrophic(c), NEW observations
  PROVE  Heuristic(c, observations) \notin {"DECREASE", "REMOVE"}
<1>1. ~Stabilizing(c)
  BY CatastrophicCases DEF Stabilizing, NotAbove, AtLeast, EmergencyDrawdown, RecoveredDrawdown,
     EmergencyVolatility, StableVolatility, EmergencyVix, StableVix, Readable, Drawdown, Magnitude
<1> DEFINE fired == {o.type : o \in observations}
           shock == {"DRAWDOWN_LIMIT", "VOLATILITY_SPIKE"}
           none == ~c.hedge.active
           broken == c.hedge.active /\ "CORRELATION_BREAKDOWN" \in fired
           deeper == c.hedge.active /\ "CORRELATION_BREAKDOWN" \notin fired
                       /\ Deepening(c) /\ fired \cap shock # {}
           expiring == c.hedge.active /\ fired = {"TIME_ELAPSED"}
           rest == IF ~Stabilizing(c) THEN "MAINTAIN"
                   ELSE IF FullyCalm(c) THEN "REMOVE" ELSE "DECREASE"
<1>2. rest = "MAINTAIN"
  BY <1>1
<1>3. Heuristic(c, observations) =
        CASE none -> "NO_TRADE" [] broken -> "REPLACE" [] deeper -> "INCREASE"
          [] expiring -> "REPLACE" [] OTHER -> rest
  BY DEF Heuristic
<1>4. Heuristic(c, observations) \in {"NO_TRADE", "REPLACE", "INCREASE", "REPLACE", rest}
  <2> HIDE DEF none, broken, deeper, expiring, rest
  <2> QED
    BY <1>3, Zenon
<1> QED
  BY <1>2, <1>4

-----------------------------------------------------------------------------

Fields == {"stage", "kind", "cycle", "context", "escalation", "answer", "outcome"}

\* A run that is over has no context, one that works has a readable one, and what a run
\* was told without the model fits its context.
Working ==
  /\ DOMAIN run = Fields
  /\ run = [f \in Fields |-> run[f]]
  /\ run.stage = "idle" => run.context = None
  /\ run.stage # "idle" => Readable(run.context)
  /\ FallbackNeverTrimsInEmergency

LEMMA IdleWorks == ASSUME NEW cycle, NEW escalation, run' = Idle(cycle, escalation) PROVE Working'
<1>1. /\ run'.stage = "idle" /\ run'.context = None
      /\ run' = [f \in Fields |-> run'[f]] /\ DOMAIN run' = Fields
  BY DEF Idle, Fields
<1> QED
  BY <1>1 DEF Working, FallbackNeverTrimsInEmergency

\* A run that only moves on to another stage of its work.
LEMMA ReachWorks ==
  ASSUME Working, run.stage # "idle", NEW stage, Reach(stage)
  PROVE  Working'
<1>1. CASE stage = "idle"
  BY <1>1, IdleWorks DEF Reach
<1>2. CASE stage # "idle"
  <2>1. run' = [run EXCEPT !.stage = stage]
    BY <1>2 DEF Reach
  <2>2. /\ DOMAIN run' = Fields
        /\ run'.stage = stage /\ run'.context = run.context
        /\ run'.answer = run.answer /\ run'.outcome = run.outcome
        /\ run' = [f \in Fields |-> run'[f]]
    BY <2>1 DEF Working, Fields
  <2> QED
    BY <1>2, <2>2 DEF Working, FallbackNeverTrimsInEmergency
<1> QED
  BY <1>1, <1>2

\* A new run reads the market and the tables.
LEMMA StartWorks == ASSUME Working, NEW kind, NEW stage, stage # "idle", StartRun(kind, stage) PROVE Working'
<1> PICK market \in Markets :
      run' = [Idle(run.cycle + 1, Quiet) EXCEPT !.stage = stage, !.kind = kind,
                                                !.context = Context(market)]
  BY DEF StartRun
<1>1. /\ DOMAIN run' = Fields
      /\ run' = [f \in Fields |-> run'[f]]
      /\ run'.stage = stage /\ run'.context = Context(market) /\ run'.outcome = "NO_TRADE"
  BY DEF Idle, Fields
<1>2. Readable(Context(market))
  BY MarketsAssumption DEF Context, Readable
<1> QED
  BY <1>1, <1>2 DEF Working, FallbackNeverTrimsInEmergency

\* Level 1 and Level 2 on one context: an emergency is passed on as one, and the rules
\* hold on to the hedge.
LEMMA MonitorWorks ==
  ASSUME Working, Monitor
  PROVE  /\ Working'
         /\ Catastrophic(run.context) => run'.escalation.emergency
<1> DEFINE observations == RunLevel1Checks(run.context)
           escalation == ShouldEscalate(observations, Cooling)
<1>1. Readable(run.context)
  BY DEF Working, Monitor
<1>2. Catastrophic(run.context) => escalation.emergency
  BY <1>1, EmergencyFires DEF ShouldEscalate, Cooling
<1>3. CASE run' = Idle(run.cycle, escalation)
  <2>1. run'.escalation = escalation
    BY <1>3 DEF Idle
  <2> QED
    BY <1>2, <1>3, <2>1, IdleWorks
<1>4. ASSUME NEW answer \in Answers, NEW outcome,
             outcome = Assess(run.context, observations, answer), NextOf(outcome) # "idle",
             run' = [run EXCEPT !.stage = NextOf(outcome), !.answer = answer,
                                !.escalation = escalation, !.outcome = outcome]
      PROVE  /\ Working'
             /\ Catastrophic(run.context) => run'.escalation.emergency
  <2>1. /\ DOMAIN run' = Fields
        /\ run' = [f \in Fields |-> run'[f]]
        /\ run'.stage = NextOf(outcome) /\ run'.context = run.context
        /\ run'.answer = answer /\ run'.outcome = outcome /\ run'.escalation = escalation
    BY <1>4 DEF Working, Fields
  <2>2. answer = "unusable" /\ Catastrophic(run.context) => outcome \notin {"DECREASE", "REMOVE"}
    BY <1>1, <1>4, HeuristicHolds DEF Assess, ReassessmentOutcomes
  <2>3. Working'
    BY <1>1, <1>4, <2>1, <2>2 DEF Working, FallbackNeverTrimsInEmergency
  <2> QED
    BY <1>2, <2>1, <2>3
<1> QED
  BY <1>3, <1>4 DEF Monitor

\* The step of a run, or of the broker beside it.
LEMMA WorkingStep ==
  ASSUME Working, [Next]_vars
  PROVE  /\ Working'
         /\ run.stage = "monitor" /\ run'.stage # "monitor" /\ Catastrophic(run.context)
              => run'.escalation.emergency
<1>1. CASE StartCycle \/ StartTick
  BY <1>1, StartWorks DEF StartCycle, StartTick, StartRun
<1>2. CASE StrategyFails \/ DecideWithoutOrder \/ SelectAndTrade
  <2>1. run.stage \in {"strategy", "reopen"} /\ Reach(After)
    BY <1>2 DEF StrategyFails, DecideWithoutOrder, SelectAndTrade
  <2> QED
    BY <2>1, ReachWorks
<1>3. CASE Monitor
  BY <1>3, MonitorWorks
<1>4. CASE CloseRefused \/ ApplyChange
  <2>1. run.stage = "close" /\ \E stage \in {"idle", "reopen"} : Reach(stage)
    BY <1>4 DEF CloseRefused, ApplyChange
  <2> QED
    BY <2>1, ReachWorks
<1>5. CASE UNCHANGED run
  BY <1>5 DEF Working, FallbackNeverTrimsInEmergency
<1>6. ASSUME NEW order \in live, Fill(order) \/ Lapse(order)
      PROVE  UNCHANGED run
  BY <1>6 DEF Fill, Lapse
<1> QED
  BY <1>1, <1>2, <1>3, <1>4, <1>5, <1>6 DEF Next, vars

LEMMA WorkingAlways == Spec => []Working
<1>1. Init => Working
  <2> SUFFICES ASSUME Init
               PROVE  Working
    OBVIOUS
  <2>1. run.context = None /\ run.stage = "idle" /\ DOMAIN run = Fields
        /\ run = [f \in Fields |-> run[f]]
    BY DEF Init, Idle, Fields
  <2> QED
    BY <2>1 DEF Working, FallbackNeverTrimsInEmergency
<1> QED
  BY <1>1, WorkingStep, PTL DEF Spec

\* Without the model, no emergency takes protection off: for any readings and any book.
THEOREM FallbackKeepsProtection == Spec => []FallbackNeverTrimsInEmergency
<1>1. Working => FallbackNeverTrimsInEmergency
  BY DEF Working
<1> QED
  BY <1>1, WorkingAlways, PTL

\* An emergency always reaches Level 2 flagged as one: for any readings and any book.
THEOREM EmergenciesEscalate == Spec => EmergencyEscalates
<1>1. Working /\ [Next]_vars =>
        [run.stage = "monitor" /\ run'.stage # "monitor" /\ Catastrophic(run.context)
           => run'.escalation.emergency]_vars
  BY WorkingStep
<1> QED
  BY <1>1, WorkingAlways, PTL DEF Spec, EmergencyEscalates

-----------------------------------------------------------------------------

\* Python's round: the nearest integer, and never above a whole bound of the quotient.
LEMMA RoundIsNearest ==
  ASSUME NEW n \in Nat, NEW d \in Nat \ {0}
  PROVE  /\ RoundHalfEven(n, d) \in Nat
         /\ 2 * Magnitude(n - d * RoundHalfEven(n, d)) <= d
         /\ \A held \in Nat : n <= held * d => RoundHalfEven(n, d) <= held
<1> DEFINE q == n \div d
           r == n % d
<1>1. q \in Nat /\ r \in 0 .. d - 1
  OBVIOUS
<1>2. n = d * q + r
  OBVIOUS
<1>3. \/ RoundHalfEven(n, d) = q + 1 /\ 2 * r >= d
      \/ RoundHalfEven(n, d) = q /\ 2 * r <= d
  BY <1>1 DEF RoundHalfEven
<1> HIDE DEF q, r
<1>4. d * (q + 1) = d * q + d /\ d * q \in Nat
  BY <1>1
<1>5. ASSUME NEW held \in Nat, n <= held * d
      PROVE  q < held \/ (q = held /\ r = 0)
  <2>1. d * q + r <= held * d
    BY <1>2, <1>5
  <2>2. ASSUME q > held
        PROVE  FALSE
    <3>1. PICK k \in Nat : q = held + 1 + k
      BY <1>1, <2>2
    <3>2. d * q = d * held + d + d * k
      BY <3>1
    <3>3. d * k \in Nat /\ d * held = held * d
      BY <3>1
    <3> QED
      BY <1>1, <2>1, <3>2, <3>3
  <2>3. q = held => r = 0
    BY <1>1, <2>1
  <2> QED
    BY <1>1, <2>2, <2>3
<1>6. \A held \in Nat : n <= held * d => RoundHalfEven(n, d) <= held
  BY <1>1, <1>3, <1>5
<1> QED
  BY <1>1, <1>2, <1>3, <1>4, <1>6 DEF Magnitude

\* A close of a leg that is held is at least one contract and no more than are held.
LEMMA CloseIsHeld ==
  ASSUME NEW held \in Nat \ {0}, NEW outcome, NEW part \in Nat, NEW whole \in Nat \ {0}
  PROVE  CloseQuantity(outcome, held, part, whole) \in 1 .. held
<1>1. held * part \in Nat
  OBVIOUS
<1>2. RoundHalfEven(held * part, whole) \in Nat
  BY <1>1, RoundIsNearest
<1> QED
  BY <1>2 DEF CloseQuantity, Within

\* A DECREASE to a share below the current one leaves that share of the holding to the
\* nearest contract, unless it has to close at least one.
LEMMA TrimIsNearest ==
  ASSUME NEW held \in Nat \ {0}, NEW current \in Nat \ {0}, NEW target \in Nat, target < current
  PROVE  LET scale == RatioScale("DECREASE", current, target)
             close == CloseQuantity("DECREASE", held, scale[1], scale[2])
         IN close = 1 \/ 2 * Magnitude((held - close) * current - held * target) <= current
<1> DEFINE n == held * (current - target)
           round == RoundHalfEven(n, current)
           close == CloseQuantity("DECREASE", held, current - target, current)
<1>1. RatioScale("DECREASE", current, target) = <<current - target, current>>
  BY DEF RatioScale
<1>2. n \in Nat /\ held * target \in Nat
  OBVIOUS
<1>3. n = held * current - held * target /\ held * current \in Nat
  OBVIOUS
<1>4. n <= held * current
  BY <1>2, <1>3
<1>5. /\ round \in Nat /\ round <= held
      /\ 2 * Magnitude(n - current * round) <= current
  BY <1>2, <1>4, RoundIsNearest
<1>6. close = 1 \/ close = round
  <2>1. close = Within(1, held, round)
    <3>1. "DECREASE" \notin {"REMOVE", "REPLACE"}
      OBVIOUS
    <3> QED
      BY <3>1, Zenon DEF CloseQuantity
  <2> HIDE DEF close, round
  <2> QED
    BY <1>5, <2>1 DEF Within
<1>7. (held - round) * current - held * target = n - current * round
  <2>1. (held - round) * current = held * current - current * round
    BY <1>5
  <2> QED
    BY <1>3, <1>5, <2>1
<1> HIDE DEF n, round
<1>8. close = 1 \/ 2 * Magnitude((held - close) * current - held * target) <= current
  BY <1>5, <1>6, <1>7
<1> QED
  BY <1>1, <1>8

-----------------------------------------------------------------------------

\* The rows of the tables: a leg is of one contract or more.
Legs == [side : {"BUY", "SELL"}, quantity : Nat \ {0}]
OrderRows == [cycle : Nat, legs : Seq(Legs), status : {"FILLED", "REJECTED"}]
DecisionRows == [cycle : Nat, action : DecisionActions]

\* A run that works knows a hedge made of such legs.
Booked ==
  /\ run.cycle \in Nat
  /\ decisions \in Seq(DecisionRows)
  /\ orders \in Seq(OrderRows)
  /\ run.stage # "idle" => run.context.legs \in Seq(Legs)

\* A finite set is listed by a sequence of its elements.
LEMMA SetToSeqIsSeq ==
  ASSUME NEW S, IsFiniteSet(S)
  PROVE  SetToSeq(S) \in [1 .. Cardinality(S) -> S] /\ Cardinality(S) \in Nat
<1> DEFINE n == Cardinality(S)
<1>1. n \in Nat /\ ExistsBijection(1 .. n, S)
  BY FS_CardinalityType
<1>2. PICK g \in Bijection(1 .. n, S) : TRUE
  BY <1>1, Fun_ExistsBij
<1>3. g \in [1 .. n -> S] /\ IsInjective(g)
  <2>1. g \in [1 .. n -> S] /\ \A a, b \in 1 .. n : g[a] = g[b] => a = b
    BY <1>2, Fun_BijectionProperties
  <2> QED
    BY <2>1 DEF IsInjective
<1> QED
  BY <1>1, <1>3 DEF SetToSeq

\* The legs of some orders are legs.
LEMMA LegsAreLegs ==
  ASSUME orders \in Seq(OrderRows), NEW book \in SUBSET DOMAIN orders
  PROVE  LegsOf(orders, book) \in Seq(Legs)
<1> DEFINE of(i) == {i} \X DOMAIN orders[i].legs
           at == UNION {of(i) : i \in book}
           listed == SetToSeq(at)
<1>1. Len(orders) \in Nat /\ DOMAIN orders = 1 .. Len(orders)
  BY LenProperties
<1>2. \A i \in book : orders[i].legs \in Seq(Legs)
  <2> TAKE i \in book
  <2>1. orders[i] \in OrderRows
    BY <1>1, ElementOfSeq
  <2> QED
    BY <2>1 DEF OrderRows
<1>3. IsFiniteSet(at)
  <2>1. IsFiniteSet(book)
    <3>1. IsFiniteSet(1 .. Len(orders))
      BY <1>1, FS_Interval
    <3> QED
      BY <1>1, <3>1, FS_Subset
  <2>2. IsFiniteSet({of(i) : i \in book})
    <3> DEFINE each == [i \in book |-> of(i)]
               all == {of(i) : i \in book}
    <3>1. each \in [book -> all]
      OBVIOUS
    <3>2. \A t \in all : \E i \in book : each[i] = t
      OBVIOUS
    <3> HIDE DEF each, all
    <3>3. each \in Surjection(book, all)
      BY <3>1, <3>2, Fun_IsSurj
    <3>4. IsFiniteSet(all)
      BY <2>1, <3>3, FS_Surjection
    <3> QED
      BY <3>4 DEF all
  <2>3. \A i \in book : IsFiniteSet(of(i))
    <3> TAKE i \in book
    <3>1. Len(orders[i].legs) \in Nat /\ DOMAIN orders[i].legs = 1 .. Len(orders[i].legs)
      BY <1>2, LenProperties
    <3>2. IsFiniteSet(DOMAIN orders[i].legs)
      <4>1. IsFiniteSet(1 .. Len(orders[i].legs))
        BY <3>1, FS_Interval
      <4> QED
        BY <3>1, <4>1, Zenon
    <3>3. IsFiniteSet({i})
      BY FS_Singleton
    <3> HIDE DEF of
    <3>4. IsFiniteSet({i} \X DOMAIN orders[i].legs)
      BY <3>2, <3>3, FS_Product
    <3> QED
      BY <3>4 DEF of
  <2>4. \A t \in {of(i) : i \in book} : IsFiniteSet(t)
    BY <2>3
  <2> QED
    BY <2>2, <2>4, FS_UNION
<1>4. listed \in [1 .. Cardinality(at) -> at] /\ Cardinality(at) \in Nat
  BY <1>3, SetToSeqIsSeq
<1>5. \A p \in at : orders[p[1]].legs[p[2]] \in Legs
  <2>1. \A i \in book : \A k \in DOMAIN orders[i].legs : orders[i].legs[k] \in Legs
    BY <1>2, LenProperties, ElementOfSeq
  <2> QED
    BY <2>1
<1> HIDE DEF at
<1>6. LegsOf(orders, book) = [k \in DOMAIN listed |-> orders[listed[k][1]].legs[listed[k][2]]]
  BY DEF LegsOf, at
<1>7. LegsOf(orders, book) \in [1 .. Cardinality(at) -> Legs]
  BY <1>4, <1>5, <1>6
<1> QED
  BY <1>4, <1>7, SeqDef

\* So are those of the hedge the tables tell of.
LEMMA HedgeHasLegs ==
  ASSUME orders \in Seq(OrderRows)
  PROVE  ReconstructCurrentHedge(decisions, orders).legs \in Seq(Legs)
<1>1. << >> \in Seq(Legs)
  BY EmptySeq
<1>2. \A cycle : OnBook(orders, cycle) \in SUBSET DOMAIN orders
  BY DEF OnBook, OrdersOf
<1>3. \A cycle : LegsOf(orders, OnBook(orders, cycle)) \in Seq(Legs)
  BY <1>2, LegsAreLegs
<1> QED
  BY <1>1, <1>3 DEF ReconstructCurrentHedge, HedgeFromCycle, NoHedge

\* A close of legs is a close of one contract of each or more.
LEMMA ClosingLegsAreLegs ==
  ASSUME NEW legs \in Seq(Legs), NEW outcome
  PROVE  ClosingLegs(outcome, legs, 0, 0) \in Seq(Legs)
<1>1. Len(legs) \in Nat /\ legs \in [1 .. Len(legs) -> Legs]
  BY LenProperties
<1>2. RatioScale(outcome, 0, 0) = <<1, 1>>
  BY DEF RatioScale
<1>3. \A leg \in Legs :
        [side |-> Opposite(leg.side), quantity |-> CloseQuantity(outcome, leg.quantity, 1, 1)] \in Legs
  BY CloseIsHeld DEF Legs, Opposite
<1>4. ClosingLegs(outcome, legs, 0, 0) =
        [i \in 1 .. Len(legs) |-> [side |-> Opposite(legs[i].side),
                                   quantity |-> CloseQuantity(outcome, legs[i].quantity, 1, 1)]]
  BY <1>1, <1>2 DEF ClosingLegs
<1>5. ClosingLegs(outcome, legs, 0, 0) \in [1 .. Len(legs) -> Legs]
  BY <1>1, <1>3, <1>4
<1> QED
  BY <1>1, <1>5, SeqDef

\* An order leaves a row with its legs, or none.
LEMMA SubmitBooks ==
  ASSUME orders \in Seq(OrderRows), run.cycle \in Nat, NEW legs \in Seq(Legs), NEW isRemove,
         Submit(legs, isRemove)
  PROVE  orders' \in Seq(OrderRows)
<1>1. Row(legs, "FILLED") \in OrderRows /\ Row(legs, "REJECTED") \in OrderRows
  BY DEF Row, OrderRows
<1>2. Append(orders, Row(legs, "FILLED")) \in Seq(OrderRows)
  BY <1>1, AppendProperties
<1>3. Append(orders, Row(legs, "REJECTED")) \in Seq(OrderRows)
  BY <1>1, AppendProperties
<1> QED
  BY <1>2, <1>3 DEF Submit

\* A run keeps its id, and its context until it is over.
LEMMA ReachBooks ==
  ASSUME Working, Booked, run.stage # "idle", NEW stage, Reach(stage)
  PROVE  /\ run'.cycle \in Nat
         /\ run'.stage # "idle" => run'.context.legs \in Seq(Legs)
<1>1. CASE stage = "idle"
  BY <1>1 DEF Reach, Idle, Booked
<1>2. CASE stage # "idle"
  <2>1. run' = [run EXCEPT !.stage = stage]
    BY <1>2 DEF Reach
  <2>2. run'.cycle = run.cycle /\ run'.context = run.context
    BY <2>1 DEF Working, Fields
  <2> QED
    BY <2>2 DEF Booked
<1> QED
  BY <1>1, <1>2

LEMMA BookedStep ==
  ASSUME Working, Booked, [Next]_vars
  PROVE  Booked'
<1>1. ASSUME NEW kind, NEW stage, stage # "idle", StartRun(kind, stage)
      PROVE  Booked'
  <2>1. PICK market \in Markets :
          run' = [Idle(run.cycle + 1, Quiet) EXCEPT !.stage = stage, !.kind = kind,
                                                    !.context = Context(market)]
    BY <1>1 DEF StartRun
  <2>2. run'.cycle = run.cycle + 1 /\ run'.context = Context(market)
    BY <2>1 DEF Idle
  <2>3. Context(market).legs \in Seq(Legs)
    BY HedgeHasLegs DEF Context, Booked
  <2>4. UNCHANGED <<decisions, orders>>
    BY <1>1 DEF StartRun
  <2> QED
    BY <2>2, <2>3, <2>4 DEF Booked
<1>2. CASE StrategyFails \/ CloseRefused
  BY <1>2, ReachBooks DEF StrategyFails, CloseRefused, NoOrder, Booked
<1>3. CASE DecideWithoutOrder \/ SelectAndTrade
  <2>1. /\ run.stage # "idle" /\ Reach(After)
        /\ \E action \in DecisionActions :
             decisions' = Append(decisions, [cycle |-> run.cycle, action |-> action])
    BY <1>3 DEF DecideWithoutOrder, SelectAndTrade, DecisionActions
  <2>2. decisions' \in Seq(DecisionRows)
    <3>1. \A action \in DecisionActions : [cycle |-> run.cycle, action |-> action] \in DecisionRows
      BY DEF Booked, DecisionRows
    <3> QED
      BY <2>1, <3>1, AppendProperties DEF Booked
  <2>3. orders' \in Seq(OrderRows)
    <3>1. \A q \in Quantities : <<[side |-> "BUY", quantity |-> q]>> \in Seq(Legs)
      BY QuantitiesAssumption DEF Legs
    <3> QED
      BY <1>3, <3>1, SubmitBooks DEF DecideWithoutOrder, SelectAndTrade, NoOrder, Booked
  <2> QED
    BY <2>1, <2>2, <2>3, ReachBooks DEF Booked
<1>4. CASE Monitor
  <2> DEFINE observations == RunLevel1Checks(run.context)
             escalation == ShouldEscalate(observations, Cooling)
  <2>1. UNCHANGED <<decisions, orders>> /\ run.stage # "idle"
    BY <1>4 DEF Monitor, NoOrder
  <2>2. CASE run' = Idle(run.cycle, escalation)
    <3>1. run'.cycle = run.cycle /\ run'.stage = "idle"
      BY <2>2 DEF Idle
    <3> QED
      BY <2>1, <3>1 DEF Booked
  <2>3. ASSUME NEW answer \in Answers, NEW outcome,
               run' = [run EXCEPT !.stage = NextOf(outcome), !.answer = answer,
                                  !.escalation = escalation, !.outcome = outcome]
        PROVE  Booked'
    <3>1. run'.cycle = run.cycle /\ run'.context = run.context
      BY <2>3 DEF Working, Fields
    <3> QED
      BY <2>1, <3>1 DEF Booked
  <2> QED
    BY <1>4, <2>2, <2>3 DEF Monitor
<1>5. CASE ApplyChange
  <2>1. /\ run.stage = "close" /\ UNCHANGED decisions
        /\ \E stage \in {"idle", "reopen"} : Reach(stage)
    BY <1>5 DEF ApplyChange
  <2>2. ClosingLegs(run.outcome, run.context.legs, 0, 0) \in Seq(Legs)
    BY <2>1, ClosingLegsAreLegs DEF Booked
  <2>3. orders' \in Seq(OrderRows)
    BY <1>5, <2>2, SubmitBooks DEF ApplyChange, NoOrder, Booked
  <2> QED
    BY <2>1, <2>3, ReachBooks DEF Booked
<1>6. CASE UNCHANGED <<run, decisions, orders>>
  BY <1>6 DEF Booked
<1>7. ASSUME NEW order \in live, Fill(order) \/ Lapse(order)
      PROVE  UNCHANGED <<run, decisions, orders>>
  BY <1>7 DEF Fill, Lapse
<1> QED
  BY <1>1, <1>2, <1>3, <1>4, <1>5, <1>6, <1>7 DEF Next, vars, StartCycle, StartTick

LEMMA BookedAlways == Spec => []Booked
<1>1. Init => Booked
  BY EmptySeq DEF Init, Idle, Booked
<1>2. Working /\ Booked /\ [Next]_vars => Booked'
  BY BookedStep
<1> QED
  BY <1>1, <1>2, WorkingAlways, PTL DEF Spec

\* A DECREASE closes at least one contract of a leg and no more than are held, and what it
\* leaves is the target share to the nearest contract: for any book and any holding.
THEOREM TrimsLand == Spec => []TrimLandsOnTarget
<1>1. Working /\ Booked => TrimLandsOnTarget
  <2> SUFFICES ASSUME Working, Booked, run.context # None,
                      NEW leg \in ToSet(run.context.legs),
                      NEW current \in {10, 40, 75, 100}, NEW target \in {0, 5, 40, 50, 60, 90}
               PROVE  LET held == leg.quantity
                          scale == RatioScale("DECREASE", current, target)
                          close == CloseQuantity("DECREASE", held, scale[1], scale[2])
                          miss == (held - close) * current - held * target
                      IN /\ close \in 1 .. held
                         /\ target < current => close = 1 \/ 2 * Magnitude(miss) <= current
    BY DEF TrimLandsOnTarget
  <2>1. run.context.legs \in Seq(Legs)
    BY DEF Working, Booked
  <2>2. leg.quantity \in Nat \ {0}
    <3>1. PICK i \in DOMAIN run.context.legs : leg = run.context.legs[i]
      BY DEF ToSet
    <3>2. leg \in Legs
      BY <2>1, <3>1, LenProperties, ElementOfSeq
    <3> QED
      BY <3>2 DEF Legs
  <2>3. /\ RatioScale("DECREASE", current, target)[1] \in Nat
        /\ RatioScale("DECREASE", current, target)[2] \in Nat \ {0}
    BY DEF RatioScale
  <2>4. current \in Nat \ {0} /\ target \in Nat
    OBVIOUS
  <2> QED
    BY <2>2, <2>3, <2>4, CloseIsHeld, TrimIsNearest
<1> QED
  BY <1>1, BookedAlways, WorkingAlways, PTL

-----------------------------------------------------------------------------

\* A non-empty set of row numbers has a greatest one.
LEMMA MaxIsGreatest ==
  ASSUME NEW n \in Nat, NEW S \in SUBSET (1 .. n), S # {}
  PROVE  Max(S) \in S
<1> DEFINE Above == {i .. n : i \in S}
<1>1. Above \subseteq FiniteSubsetsOf(Nat) /\ Above # {}
  <2>1. \A i \in S : IsFiniteSet(i .. n) /\ i .. n \in SUBSET Nat
    BY FS_Interval
  <2> QED
    BY <2>1 DEF FiniteSubsetsOf
<1>2. PICK B \in Above : \A C \in Above : <<C, B>> \notin StrictSubsetOrdering(Nat)
  BY <1>1, FS_StrictSubsetOrderingWellFounded, WFMin
<1>3. PICK m \in S : B = m .. n
  BY <1>2
<1>4. ASSUME NEW i \in S
      PROVE  m >= i
  <2>1. i .. n \in Above /\ i .. n \in SUBSET Nat /\ m .. n \in SUBSET Nat
    BY <1>4
  <2>2. ~(i .. n \subseteq m .. n /\ i .. n # m .. n)
    BY <1>2, <1>3, <2>1 DEF StrictSubsetOrdering
  <2>3. i \in i .. n /\ m \in m .. n
    BY <1>3, <1>4
  <2> QED
    BY <1>3, <1>4, <2>2, <2>3
<1> QED
  BY <1>4 DEF Max

\* A decision of a cycle without an order is passed over by the walk.
LEMMA IdleDecisionPassedOver ==
  ASSUME decisions \in Seq(DecisionRows), NEW row \in DecisionRows,
         OrdersOf(orders, row.cycle) = {}, decisions' = Append(decisions, row)
  PROVE  ReconstructCurrentHedge(decisions', orders) = ReconstructCurrentHedge(decisions, orders)
<1> DEFINE n == Len(decisions)
           traded == Traded(decisions, orders)
<1>1. /\ n \in Nat /\ DOMAIN decisions = 1 .. n
      /\ DOMAIN decisions' = 1 .. n + 1
      /\ \A i \in DOMAIN decisions : decisions'[i] = decisions[i]
      /\ decisions'[n + 1] = row
  BY AppendProperties, LenProperties
<1> HIDE DEF n
<1>2. Traded(decisions', orders) = traded
  <2>1. \A i \in DOMAIN decisions' : i \in DOMAIN decisions \/ i = n + 1
    BY <1>1
  <2>2. \A i \in DOMAIN decisions : i \in DOMAIN decisions'
    BY <1>1
  <2> QED
    BY <1>1, <2>1, <2>2 DEF Traded
<1>3. CASE traded = {}
  BY <1>2, <1>3, Zenon DEF ReconstructCurrentHedge
<1>4. CASE traded # {}
  <2>1. traded \in SUBSET (1 .. n)
    BY <1>1 DEF Traded
  <2>2. Max(traded) \in DOMAIN decisions
    BY <1>1, <1>4, <2>1, MaxIsGreatest
  <2>3. MostRecent(decisions', traded) = MostRecent(decisions, traded)
    BY <1>1, <2>2 DEF MostRecent
  <2> HIDE DEF traded
  <2> QED
    BY <1>2, <2>3, Zenon DEF ReconstructCurrentHedge, traded
<1> QED
  BY <1>3, <1>4

\* A run books its decision under its own id, and only one.
LEMMA DecisionStep ==
  ASSUME Booked, [Next]_vars
  PROVE  \/ decisions' = decisions
         \/ \E row \in DecisionRows : row.cycle = run.cycle /\ decisions' = Append(decisions, row)
<1>1. ASSUME NEW action \in DecisionActions,
             decisions' = Append(decisions, [cycle |-> run.cycle, action |-> action])
      PROVE  \E row \in DecisionRows : row.cycle = run.cycle /\ decisions' = Append(decisions, row)
  <2>1. [cycle |-> run.cycle, action |-> action] \in DecisionRows
    BY DEF Booked, DecisionRows
  <2> QED
    BY <1>1, <2>1
<1>2. CASE DecideWithoutOrder \/ SelectAndTrade
  BY <1>1, <1>2 DEF DecideWithoutOrder, SelectAndTrade, DecisionActions
<1>3. CASE StartCycle \/ StartTick \/ StrategyFails \/ Monitor \/ CloseRefused \/ ApplyChange
  BY <1>3 DEF StartCycle, StartTick, StartRun, StrategyFails, Monitor, CloseRefused, ApplyChange
<1>4. ASSUME NEW order \in live, Fill(order) \/ Lapse(order)
      PROVE  decisions' = decisions
  BY <1>4 DEF Fill, Lapse
<1> QED
  BY <1>2, <1>3, <1>4 DEF Next, vars

\* A decision of a cycle that has traded nothing hides nothing: for any tables, however
\* long, and any run that works on them.
THEOREM IdleDecisionsHideNothing == Spec => IdleDecisionHidesNothing
<1>1. Booked /\ [Next]_vars =>
        [orders' = orders /\ OrdersOf(orders, run.cycle) = {}
           => ReconstructCurrentHedge(decisions', orders')
                = ReconstructCurrentHedge(decisions, orders)]_vars
  <2> SUFFICES ASSUME Booked, [Next]_vars, orders' = orders, OrdersOf(orders, run.cycle) = {}
               PROVE  ReconstructCurrentHedge(decisions', orders)
                        = ReconstructCurrentHedge(decisions, orders)
    BY Zenon
  <2>1. CASE decisions' = decisions
    BY <2>1, Zenon
  <2>2. ASSUME NEW row \in DecisionRows, row.cycle = run.cycle,
               decisions' = Append(decisions, row)
        PROVE  ReconstructCurrentHedge(decisions', orders)
                 = ReconstructCurrentHedge(decisions, orders)
    <3>1. OrdersOf(orders, row.cycle) = {}
      BY <2>2, Zenon
    <3> QED
      BY <2>2, <3>1, IdleDecisionPassedOver DEF Booked
  <2> QED
    BY <2>1, <2>2, DecisionStep
<1> QED
  BY <1>1, BookedAlways, PTL DEF Spec, IdleDecisionHidesNothing

-----------------------------------------------------------------------------
(* The scheduler of the ticks: its types. *)

ThreadState == [pc : Steps, job : Jobs \cup {Unset}, arm : Jobs \cup {Unset}, next : Steps]

-----------------------------------------------------------------------------

\* An application that has not started.
LEMMA InitType == SchedulerInit => TypeOK
<1>1. \A t \in Threads :
        [Ended EXCEPT !.pc = IF t = Main THEN "boot" ELSE "ended"] \in ThreadState
  BY DEF Ended, ThreadState, Steps
<1>2. SchedulerInit => th \in [Threads -> ThreadState]
  BY <1>1 DEF SchedulerInit
<1> QED
  BY <1>2 DEF SchedulerInit, TypeOK, ThreadState

\* Every statement of the scheduler and its hooks keeps the types.
LEMMA StepType == ASSUME TypeOK, [SchedulerNext]_schedulerVars PROVE TypeOK'
<1>1. CASE UNCHANGED schedulerVars
  BY <1>1 DEF TypeOK, schedulerVars
<1>2. \A t \in Threads : th[t] \in ThreadState
  BY DEF TypeOK, ThreadState
<1>3. Ended \in ThreadState
  BY DEF Ended, ThreadState, Steps
<1>4. Main \in Threads /\ Timers \subseteq Threads
  BY DEF Threads
<1>5. \A t \in Threads, st \in ThreadState : Become(t, st) => th' \in [Threads -> ThreadState]
  BY DEF TypeOK, Become, ThreadState
<1>6. CASE Boot
  BY <1>2, <1>4, <1>5, <1>6 DEF Boot, Go, TypeOK, ThreadState, Steps
<1>7. CASE Shutdown
  BY <1>2, <1>4, <1>5, <1>7 DEF Shutdown, Go, TypeOK, ThreadState, Steps
<1>8. ASSUME NEW t \in Threads, Step(t) PROVE TypeOK'
  <2>0. th[t] \in ThreadState /\ AfterStartup(t) \in Steps /\ AfterShutdown(t) \in Steps
    BY <1>2 DEF AfterStartup, AfterShutdown, Steps
  <2>1. CASE Register(t)
    BY <1>5, <2>0, <2>1 DEF Register, TypeOK, ThreadState, Steps
  <2>2. CASE ArmRegistered(t)
    BY <1>5, <2>0, <2>2 DEF ArmRegistered, Go, GoArm, TypeOK, ThreadState, Steps
  <2>3. CASE Start(t)
    BY <1>5, <2>0, <2>3 DEF Start, Go, TypeOK, ThreadState, Steps
  <2>4. CASE ArmStarted(t)
    BY <1>5, <2>0, <2>4 DEF ArmStarted, GoArm, TypeOK, ThreadState, Steps
  <2>5. CASE Arm(t)
    <3>1. PICK u \in Timers :
            /\ slot' = [slot EXCEPT ![th[t].arm] = u]
            /\ th' = [th EXCEPT ![u] = [Ended EXCEPT !.pc = "armed", !.job = th[t].arm],
                                ![t] = IF th[t].next = "ended" THEN Ended
                                       ELSE [th[t] EXCEPT !.pc = th[t].next, !.arm = Unset]]
      BY <2>5 DEF Arm
    <3>2. [Ended EXCEPT !.pc = "armed", !.job = th[t].arm] \in ThreadState
      BY <2>0 DEF Ended, ThreadState, Steps
    <3>3. [th[t] EXCEPT !.pc = th[t].next, !.arm = Unset] \in ThreadState
      BY <2>0 DEF ThreadState
    <3>4. th' \in [Threads -> ThreadState]
      BY <1>2, <1>3, <3>1, <3>2, <3>3 DEF TypeOK, ThreadState
    <3>5. QED
      BY <2>5, <3>1, <3>4 DEF Arm, TypeOK, ThreadState
  <2>6. CASE Fire(t)
    BY <1>5, <2>0, <2>6 DEF Fire, Go, TypeOK, ThreadState, Steps
  <2>7. CASE Ticked(t)
    BY <1>5, <2>0, <2>7 DEF Ticked, Go, TypeOK, ThreadState, Steps
  <2>9. CASE Rearm(t)
    BY <1>3, <1>5, <2>0, <2>9 DEF Rearm, GoArm, TypeOK, ThreadState, Steps
  <2>10. CASE Stop(t)
    BY <1>5, <2>0, <2>10 DEF Stop, TypeOK, ThreadState, Steps
  <2>11. CASE Cancel(t)
    <3> DEFINE u == slot[th[t].arm]
               own == [th[t] EXCEPT !.pc = IF u = Unset THEN AfterShutdown(t) ELSE "clear",
                                    !.arm = IF u = Unset THEN Unset ELSE th[t].arm]
    <3>1. own \in ThreadState
      <4>1. (IF u = Unset THEN AfterShutdown(t) ELSE "clear") \in Steps
        BY <2>0 DEF Steps
      <4>2. QED
        BY <2>0, <4>1 DEF ThreadState
    <3>2. th' = [v \in Threads |-> IF v = t THEN own
                                   ELSE IF v = u /\ At(u, "armed") THEN Ended ELSE th[v]]
      BY <2>11 DEF Cancel
    <3> HIDE DEF own
    <3>3. th' \in [Threads -> ThreadState]
      BY <1>2, <1>3, <3>1, <3>2
    <3>4. QED
      BY <2>11, <3>3 DEF Cancel, TypeOK, ThreadState
  <2>12. CASE Clear(t)
    BY <1>5, <2>0, <2>12 DEF Clear, TypeOK, ThreadState, Steps
  <2>13. QED
    BY <1>8, <2>1, <2>2, <2>3, <2>4, <2>5, <2>6, <2>7, <2>9, <2>10, <2>11, <2>12 DEF Step
<1> QED
  BY <1>1, <1>6, <1>7, <1>8 DEF SchedulerNext

\* Type correctness, for any timers and jobs.
THEOREM TypeCorrect == SchedulerSpec => []TypeOK
BY InitType, StepType, PTL DEF SchedulerSpec

-----------------------------------------------------------------------------
(* The running flag                                                         *)

\* Before the application starts nothing runs and no timer waits.
LEMMA InitOwned == SchedulerInit => RunningHasOwner
BY DEF SchedulerInit, RunningHasOwner

\* Where a step leaves the thread that takes it, and what it does to the others: Arm
\* starts an ended timer, Cancel ends a waiting one.
LEMMA StepMoves ==
  ASSUME TypeOK, NEW t \in Threads, Step(t)
  PROVE  /\ th' \in [Threads -> ThreadState]
         /\ \A v \in Threads \ {t} :
              \/ th'[v] = th[v]
              \/ At(t, "arm") /\ v \in Timers /\ At(v, "ended") /\ th'[v].pc = "armed"
              \/ At(t, "cancel") /\ At(v, "armed") /\ th'[v] = Ended
<1>1. th' \in [Threads -> ThreadState]
  BY StepType DEF SchedulerNext, TypeOK, ThreadState
<1>2. CASE Arm(t)
  <2>1. PICK u \in {v \in Timers : ~InUse(v)} :
          th' = [th EXCEPT ![u] = [Ended EXCEPT !.pc = "armed", !.job = th[t].arm],
                           ![t] = IF th[t].next = "ended" THEN Ended
                                  ELSE [th[t] EXCEPT !.pc = th[t].next, !.arm = Unset]]
    BY <1>2 DEF Arm
  <2>2. At(u, "ended") /\ u \in Threads /\ At(t, "arm")
    BY <1>2, <2>1 DEF InUse, Arm, Threads
  <2>3. \A v \in Threads \ {t} : v # u => th'[v] = th[v]
    BY <2>1 DEF TypeOK
  <2>4. u # t /\ th'[u].pc = "armed"
    BY <2>1, <2>2 DEF TypeOK, Ended, At
  <2>5. QED
    BY <1>1, <2>2, <2>3, <2>4
<1>3. CASE Cancel(t)
  BY <1>1, <1>3 DEF Cancel
<1>4. CASE ~Arm(t) /\ ~Cancel(t)
  BY <1>1, <1>4
     DEF Step, Register, ArmRegistered, Start, ArmStarted, Fire, Ticked, Rearm,
         Stop, Clear, Go, GoArm, Become, TypeOK
<1> QED
  BY <1>2, <1>3, <1>4

\* Whoever raised the flag is still there, or takes it down (start, stop).
LEMMA OwnedStep ==
  ASSUME TypeOK, RunningHasOwner, [SchedulerNext]_schedulerVars
  PROVE  RunningHasOwner'
<1>1. CASE UNCHANGED schedulerVars
  BY <1>1 DEF RunningHasOwner, Serving, At, schedulerVars
<1>2. CASE Boot
  <2>1. Main \in Threads /\ Main \notin Timers /\ Timers \subseteq Threads
    BY ThreadsAssumption DEF Threads
  <2>2. /\ th[Main].pc = "boot" /\ running' = running
        /\ \A v \in Threads \ {Main} : th'[v] = th[v]
    BY <1>2 DEF Boot, At, Go, Become, TypeOK
  <2>3. QED
    BY <2>1, <2>2 DEF RunningHasOwner, Serving, At
<1>3. CASE Shutdown
  <2>1. Main \in Threads /\ Main \notin Timers /\ Timers \subseteq Threads
    BY ThreadsAssumption DEF Threads
  <2>2. /\ th'[Main].pc = "stop" /\ running' = running
        /\ \A v \in Threads \ {Main} : th'[v] = th[v]
    BY <1>3, <2>1 DEF Shutdown, At, Go, Become, TypeOK
  <2>3. QED
    BY <2>1, <2>2 DEF RunningHasOwner, Serving, At
<1>4. ASSUME NEW t \in Threads, Step(t) PROVE RunningHasOwner'
  <2>2. \A v \in Threads \ {t} : Serving(v) => Serving(v)'
    BY <1>4, StepMoves DEF Serving, At, AfterStartup
  <2>3. CASE Stop(t)
    BY <2>3 DEF Stop, RunningHasOwner
  <2>4. CASE Start(t)
    <3>1. Serving(t)'
      BY <1>4, <2>4 DEF Start, Go, Become, TypeOK, Serving
    <3>2. QED
      BY <1>4, <3>1 DEF RunningHasOwner
  <2>5. CASE ~Stop(t) /\ ~Start(t)
    <3>1. running' = running
      BY <1>4, <2>5
         DEF Step, Register, ArmRegistered, ArmStarted, Arm, Fire, Ticked, Rearm,
             Cancel, Clear
    <3>2. Serving(t) => Serving(t)'
      <4> SUFFICES ASSUME Serving(t) PROVE Serving(t)'
        OBVIOUS
      <4>1. ArmStarted(t) \/ Arm(t) \/ Ticked(t)
        <5>1. th[t].pc \in {"started", "up", "stop", "arm", "fn"}
          BY DEF Serving, At
        <5>2. /\ Register(t) => th[t].pc = "register"
              /\ ArmRegistered(t) => th[t].pc = "registered"
              /\ Fire(t) => th[t].pc = "armed"
              /\ Rearm(t) => th[t].pc = "finally"
              /\ Cancel(t) => th[t].pc = "cancel"
              /\ Clear(t) => th[t].pc = "clear"
          BY DEF Register, ArmRegistered, Fire, Rearm, Cancel, Clear, At
        <5>3. QED
          BY <1>4, <2>5, <5>1, <5>2 DEF Step
      <4>2. CASE ArmStarted(t)
        BY <1>4, <4>2 DEF ArmStarted, GoArm, Become, TypeOK, Serving, At, AfterStartup
      <4>3. CASE Arm(t)
        <5>1. th[t].next = AfterStartup(t)
          BY <4>3 DEF Arm, Serving, At
        <5>3. th'[t].pc = AfterStartup(t)
          BY <1>4, <4>3, <5>1 DEF Arm, TypeOK, AfterStartup, InUse
        <5>4. QED
          BY <5>3 DEF Serving, At, AfterStartup
      <4>4. CASE Ticked(t)
        BY <1>4, <4>4 DEF Ticked, Go, Become, TypeOK, Serving
      <4>5. QED
        BY <4>1, <4>2, <4>3, <4>4
    <3>3. QED
      BY <2>2, <3>1, <3>2 DEF RunningHasOwner
  <2>6. QED
    BY <2>3, <2>4, <2>5
<1> QED
  BY <1>1, <1>2, <1>3, <1>4 DEF SchedulerNext

\* A scheduler that says it is running was started by a thread that is yet to stop it,
\* whatever threads call start and stop, and in which order.
THEOREM RunningIsOwned == SchedulerSpec => []RunningHasOwner
<1>1. SchedulerInit => TypeOK /\ RunningHasOwner
  BY InitType, InitOwned
<1>2. TypeOK /\ RunningHasOwner /\ [SchedulerNext]_schedulerVars => TypeOK' /\ RunningHasOwner'
  BY StepType, OwnedStep
<1> QED
  BY <1>1, <1>2, PTL DEF SchedulerSpec

===============================================================================
