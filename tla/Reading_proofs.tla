---------------------------- MODULE Reading_proofs ----------------------------
(***************************************************************************)
(* What a client of the API is told, for any families, broker answers, lost    *)
(* rows and earlier logs.                                                  *)
(*                                                                         *)
(* The event stream follows its cycle's log: Reading implements LogFollower,   *)
(* step by step.  A connection sends what lies above the last id it sent, so   *)
(* the invariant (RInv) says that what was sent is the log up to that id.      *)
(*                                                                         *)
(* The answers are put together from several queries while the cycle writes    *)
(* on.  They hold because no row is ever touched again (Grown), so what one    *)
(* query found the next one still finds, and because the nodes run in an       *)
(* order: when a node saves its row, the rows it rests on are there or known   *)
(* to be lost (Founded), the ids a decision is made from are those of its own  *)
(* evaluation (Pointed), and a node whose end was logged has been left for     *)
(* good (Ended).                                                           *)
(***************************************************************************)
EXTENDS Reading, SequenceTheorems, FiniteSetTheorems, FunctionTheorems, WellFoundedInduction,
        TLAPS

\* The log of the connection's cycle.
Followed == LogOf(stream.cycle)

\* Where the cycle's thread stands is the name of a node, and both logs hold rows.
Logged ==
  /\ "node" \in DOMAIN thread
  /\ thread.node \in Nodes
  /\ log \in Seq(Rows)
  /\ earlier \in Seq(Rows)

\* What was sent is the log up to the last id; a stream that is still open has not
\* sent a row that ends a cycle.
Sent ==
  /\ stream \in [at : {"none", "open", "closed"}, cycle : {"none", "this", "earlier"},
                 lastId : Nat]
  /\ stream.at = "none" => stream.cycle = "none"
  /\ stream.lastId <= Len(Followed)
  /\ delivered = SubSeq(Followed, 1, stream.lastId)
  /\ stream.at # "closed" => ~\E i \in DOMAIN delivered : EndsStream(delivered[i])

RInv == Logged /\ Sent

\* The log gets one row, or none.
Grows == log' = log \/ \E row \in Rows : log' = Append(log, row)

-----------------------------------------------------------------------------

\* Where the cycle's thread can stand, and what it carries from node to node.
ThreadSteps == {"stamp", "enter", "body", "decide", "exit", "assess", "gate", "close", "change",
                "reopen", "state", "done", "dead"}

Threads == [node : Nodes, at : ThreadSteps, slot : {"primary", "close", "reopen"},
            context : BOOLEAN, selected : ToSet(Families) \cup {"none"}, saved : Nat,
            cleared : BOOLEAN, outcome : {"HOLD", "INCREASE", "CLOSE", "REPLACE"},
            fired : BOOLEAN]

\* The rows of the tables.  An order row is what is persisted of the live answer.
SlotRows == [slot : Slots]
HypothesisRow == [slot : Slots, family : ToSet(Families)]
DecisionRows == [slot : Slots, family : ToSet(Families) \cup {"none"}, selected : Nat]

OrderRows ==
  {o \in [slot : Slots, status : OrderRowStatuses, sides : {a.sides : a \in BrokerCases},
          fills : {SetToSeq(PersistedFills(a)) : a \in BrokerCases}, live : BrokerCases] :
     /\ o.status = OrderRowStatus(Persisted(o.live))
     /\ o.fills = SetToSeq(PersistedFills(o.live))}

Typed ==
  /\ thread \in Threads
  /\ request \in [at : {"idle", "decide", "done"}, saved : Nat]
  /\ snapshots \in Seq(SlotRows)
  /\ hypotheses \in Seq(HypothesisRow)
  /\ decisions \in Seq(DecisionRows)
  /\ riskChecks \in Seq(SlotRows)
  /\ orders \in Seq(OrderRows)
  /\ lost \in SUBSET (Slots \X Tables)

\* A step stands in its own node, the close order is made in the close slot, and the nested
\* reopen cycle runs from the strategy to the monitoring body.
Placed ==
  /\ thread.node \notin {"COMPLETED", "FAILED"}
  /\ thread.at = "stamp" => thread.node = "INITIAL"
  /\ thread.at = "decide" => thread.node = "STRATEGY_EVALUATION"
  /\ thread.at \in {"assess", "gate", "close", "change", "reopen", "state", "done"} =>
       thread.node = "MONITORING"
  /\ thread.slot = "close" <=> thread.at \in {"close", "change"}
  /\ thread.slot = "reopen" =>
       /\ thread.node \in {"STRATEGY_EVALUATION", "RISK_CHECK", "EXECUTION", "MONITORING"}
       /\ thread.at \in {"body", "decide", "exit"}
       /\ thread.node = "MONITORING" => thread.at = "body"

\* A selected trade has its hypotheses and its decision on file, or a write of them failed;
\* so has an analysis its snapshot.
StrategyKept ==
  \/ hypotheses # <<>> /\ decisions # <<>>
  \/ \E s \in Slots : <<s, "strategy">> \in lost

SnapshotKept == snapshots # <<>> \/ <<"primary", "snapshot">> \in lost

\* A close the gate cleared has a check on file, unless its repository could not be built.
CheckKept == riskChecks # <<>> \/ <<"close", "check">> \in lost

\* A node runs only behind the nodes whose rows it rests on.
ThreadFounded ==
  /\ \/ thread.node \in {"STRATEGY_EVALUATION", "RISK_CHECK", "EXECUTION"}
     \/ thread.at \in {"assess", "gate", "close", "change", "reopen"}
     => thread.context = TRUE
  /\ thread.node = "EXECUTION" => thread.cleared = TRUE
  /\ \/ thread.node \in {"RISK_CHECK", "EXECUTION"}
     \/ thread.node = "STRATEGY_EVALUATION" /\ thread.at = "exit" /\ thread.selected # "none"
     => StrategyKept
  /\ thread.context = TRUE => SnapshotKept
  /\ thread.cleared = TRUE => riskChecks # <<>>
  /\ thread.slot = "close" => CheckKept

\* So an order that opens a hedge has an approval, its decision and its snapshot.
OrderFounded(o) ==
  /\ o.slot = "close" => CheckKept
  /\ o.slot # "close" => riskChecks # <<>> /\ StrategyKept /\ SnapshotKept

Founded == ThreadFounded /\ \A i \in DOMAIN orders : OrderFounded(orders[i])

\* The hypotheses of one evaluation are saved together, behind the count it remembers.
SavedAt(slot, saved) ==
  /\ saved + Len(Families) <= Len(hypotheses)
  /\ \A j \in 1 .. Len(Families) :
       hypotheses[saved + j] = [slot |-> slot, family |-> Families[j]]

\* A decision points to a hypothesis of its own evaluation and family.
PointsTo(d) ==
  d.selected # 0 =>
    /\ d.selected \in DOMAIN hypotheses
    /\ hypotheses[d.selected].slot = d.slot
    /\ hypotheses[d.selected].family = d.family

Pointed ==
  /\ thread.at = "decide" => SavedAt(thread.slot, thread.saved)
  /\ request.at = "decide" => SavedAt("request", request.saved)
  /\ \A i \in DOMAIN decisions : PointsTo(decisions[i])

RecInv == Typed /\ Placed /\ Founded /\ Pointed

\* The primary cycle has left a node and those before it for good; the nested cycle of a
\* reopen runs the nodes again, in a slot of its own.
AnalyzingOver == thread.node \notin {"INITIAL", "ANALYZING"}
StrategyOver == AnalyzingOver /\ (thread.slot = "primary" => thread.node # "STRATEGY_EVALUATION")
RiskOver == StrategyOver /\ (thread.slot = "primary" => thread.node # "RISK_CHECK")
ExecutionOver == RiskOver /\ (thread.slot = "primary" => thread.node # "EXECUTION")
MonitoringOver == ExecutionOver /\ thread.at = "done"

Over(node) ==
  /\ node = "ANALYZING" => AnalyzingOver
  /\ node = "STRATEGY_EVALUATION" => StrategyOver
  /\ node = "RISK_CHECK" => RiskOver
  /\ node = "EXECUTION" => ExecutionOver
  /\ node = "MONITORING" => MonitoringOver

\* A logged end is the end of a node the cycle has left.
Ended == \A i \in DOMAIN log : log[i].phase = "EXIT" => Over(log[i].node)

\* A second evaluation and a connection do not run beside each other.
Alone == stream.at # "none" => request.at = "idle"

-----------------------------------------------------------------------------

\* What a client knows between its queries.
Links == {"risk_approval", "strategy_decision", "hypotheses", "analysis_context", "trigger"}
Legs == UNION {DOMAIN a.fills : a \in BrokerCases}

Readers == [at : {"none", "hypotheses", "context", "trail", "fills", "execution", "404", "history",
                  "cycle state"},
            state : Nat, order : Nat, decision : Nat, listed : SUBSET Nat, missing : SUBSET Links,
            answer : ExecutionStatuses \cup {"none"}, filled : SUBSET Legs,
            unfilled : SUBSET {0}]

\* A trail has its order and its decision, what it misses was lost, and from the query of
\* the hypotheses on it lists the one its decision points to.
TrailRead ==
  reader.at \in {"hypotheses", "context", "trail"} =>
    /\ reader.order \in DOMAIN orders
    /\ reader.decision \in 0 .. Len(decisions)
    /\ "risk_approval" \in reader.missing =>
         orders[reader.order].slot = "close" /\ <<"close", "check">> \in lost
    /\ orders[reader.order].slot # "close" =>
         /\ reader.missing \cap {"strategy_decision", "hypotheses"} # {} =>
              \E s \in Slots : <<s, "strategy">> \in lost
         /\ "analysis_context" \in reader.missing => <<"primary", "snapshot">> \in lost
    /\ reader.at # "hypotheses" /\ reader.decision # 0 /\ decisions[reader.decision].selected # 0 =>
         decisions[reader.decision].selected \in reader.listed

\* An execution has the status persisted of its order's answer, then its legs.
ExecutionRead ==
  /\ reader.at # "404"
  /\ reader.at \in {"fills", "execution"} =>
       /\ reader.order \in DOMAIN orders
       /\ reader.answer = Persisted(orders[reader.order].live)
  /\ reader.at = "execution" =>
       /\ reader.filled = PersistedFills(orders[reader.order].live)
       /\ reader.unfilled = (IF reader.answer = "PARTIALLY_FILLED" THEN {0} ELSE {})

\* The state of a cycle is a row of its log, and then one of those listed.
StateRead ==
  /\ reader.at = "history" => reader.state \in DOMAIN log
  /\ reader.at = "cycle state" => reader.state \in reader.listed

RdInv == reader \in Readers /\ TrailRead /\ ExecutionRead /\ StateRead

AllInv == RInv /\ RecInv /\ Ended /\ Alone /\ RdInv

\* The rows of a table are never touched again.
Longer(t, u) ==
  /\ Len(t) <= Len(u)
  /\ t # <<>> => u # <<>>
  /\ \A i \in DOMAIN t : i \in DOMAIN u /\ u[i] = t[i]

Grown ==
  /\ Longer(snapshots, snapshots')
  /\ Longer(hypotheses, hypotheses')
  /\ Longer(decisions, decisions')
  /\ Longer(riskChecks, riskChecks')
  /\ Longer(orders, orders')
  /\ lost \subseteq lost'

-----------------------------------------------------------------------------

\* Writing a row is one row more; losing it is none.
LEMMA RecordGrows ==
  ASSUME NEW node \in Nodes, NEW phase \in {"none", "ENTER", "EXIT"}, Record(node, phase)
  PROVE  Grows
<1>1. RowOf(node, phase) \in Rows
  BY DEF RowOf, Rows
<1> QED
  BY <1>1 DEF Record, SetState, Grows

\* The graph goes on to a node.
LEMMA NextIsNamed == NextNode \in Nodes
<1> DEFINE first == thread.node = "INITIAL"
           second == thread.node = "ANALYZING" /\ thread.context
           third == thread.node = "STRATEGY_EVALUATION" /\ thread.selected # "none"
           fourth == thread.node = "RISK_CHECK" /\ thread.cleared
<1>1. NextNode = CASE first -> "ANALYZING" [] second -> "STRATEGY_EVALUATION"
                   [] third -> "RISK_CHECK" [] fourth -> "EXECUTION" [] OTHER -> "MONITORING"
  BY DEF NextNode
<1>2. first => ~second /\ ~third /\ ~fourth
  OBVIOUS
<1>3. second => ~third /\ ~fourth
  OBVIOUS
<1>4. third => ~fourth
  OBVIOUS
<1> HIDE DEF first, second, third, fourth
<1>5. first => NextNode = "ANALYZING"
  BY <1>1, <1>2, Zenon
<1>6. second => NextNode = "STRATEGY_EVALUATION"
  BY <1>1, <1>2, <1>3, Zenon
<1>7. third => NextNode = "RISK_CHECK"
  BY <1>1, <1>2, <1>3, <1>4, Zenon
<1>8. fourth => NextNode = "EXECUTION"
  BY <1>1, <1>2, <1>3, <1>4, Zenon
<1>9. ~first /\ ~second /\ ~third /\ ~fourth => NextNode = "MONITORING"
  BY <1>1, Zenon
<1>10. {"ANALYZING", "STRATEGY_EVALUATION", "RISK_CHECK", "EXECUTION", "MONITORING"} \subseteq Nodes
  BY DEF Nodes
<1> QED
  BY <1>5, <1>6, <1>7, <1>8, <1>9, <1>10, Zenon

\* Every step of the cycle leaves the log as it is or adds one row.
LEMMA CycleGrows ==
  ASSUME Logged, RunCycle
  PROVE  /\ "node" \in DOMAIN thread'
         /\ thread'.node \in Nodes
         /\ Grows
<1> USE DEF Logged, Goto
<1>1. CASE StampInitial
  <2>1. Grows
    <3>1. Record("INITIAL", "none")
      BY <1>1 DEF StampInitial
    <3>2. "INITIAL" \in Nodes
      BY DEF Nodes
    <3> QED
      BY <3>1, <3>2, RecordGrows, Zenon
  <2>2. QED
    BY <1>1, <2>1 DEF StampInitial
<1>2. CASE Enter
  <2>1. Grows
    <3>1. Record(thread.node, "ENTER")
      BY <1>2 DEF Enter
    <3> QED
      BY <3>1, RecordGrows, Zenon
  <2>2. QED
    BY <1>2, <2>1 DEF Enter
<1>3. CASE Exit
  <2>1. Grows
    <3>1. UNCHANGED log \/ Record(thread.node, "EXIT")
      BY <1>3 DEF Exit
    <3> QED
      BY <3>1, RecordGrows, Zenon DEF Grows
  <2>2. QED
    BY <1>3, <2>1, NextIsNamed DEF Exit
<1>4. CASE InitialBody
  BY <1>4 DEF InitialBody, Grows
<1>5. CASE AnalyzingBody
  BY <1>5 DEF AnalyzingBody, Grows
<1>6. CASE StrategyBody
  BY <1>6 DEF StrategyBody, Grows
<1>7. CASE SaveDecision
  BY <1>7 DEF SaveDecision, Grows
<1>8. CASE RiskBody
  BY <1>8 DEF RiskBody, Grows
<1>9. CASE ExecutionBody
  BY <1>9 DEF ExecutionBody, PersistOrder, Thrown, Grows, Nodes
<1>10. CASE MonitoringBody
  BY <1>10 DEF MonitoringBody, BodyDone, Nested, Grows
<1>11. CASE Reassess
  BY <1>11 DEF Reassess, Grows
<1>12. CASE CloseGate
  BY <1>12 DEF CloseGate, Grows
<1>13. CASE CloseOrder
  BY <1>13 DEF CloseOrder, PersistOrder, Grows
<1>14. CASE RecordHedgeChange
  BY <1>14 DEF RecordHedgeChange, Grows
<1>15. CASE Reopen
  BY <1>15 DEF Reopen, Grows, Nodes
<1>16. CASE PersistMonitoring
  BY <1>16 DEF PersistMonitoring, Grows
<1> QED
  BY <1>1, <1>2, <1>3, <1>4, <1>5, <1>6, <1>7, <1>8, <1>9, <1>10, <1>11, <1>12, <1>13, <1>14,
     <1>15, <1>16, Zenon DEF RunCycle

\* A row more changes nothing below it.
LEMMA GrownLog ==
  ASSUME log \in Seq(Rows), Grows
  PROVE  /\ log' \in Seq(Rows)
         /\ Len(log) \in Nat /\ Len(log') \in Nat /\ Len(log) <= Len(log')
         /\ \A n \in 0 .. Len(log) : SubSeq(log', 1, n) = SubSeq(log, 1, n)
<1>1. CASE log' = log
  BY <1>1, LenProperties
<1>2. ASSUME NEW row \in Rows, log' = Append(log, row)
      PROVE  /\ log' \in Seq(Rows)
             /\ Len(log) \in Nat /\ Len(log') \in Nat /\ Len(log) <= Len(log')
             /\ \A n \in 0 .. Len(log) : SubSeq(log', 1, n) = SubSeq(log, 1, n)
  <2>1. /\ log' \in Seq(Rows)
        /\ Len(log) \in Nat /\ Len(log') = Len(log) + 1
        /\ \A i \in 1 .. Len(log) : log'[i] = log[i]
    BY <1>2, AppendProperties, LenProperties
  <2>2. ASSUME NEW n \in 0 .. Len(log)
        PROVE  SubSeq(log', 1, n) = SubSeq(log, 1, n)
    <3>1. \A i \in 1 .. n : log[i] \in Rows /\ log'[i] \in Rows /\ log'[i] = log[i]
      BY <2>1, ElementOfSeq
    <3>2. /\ SubSeq(log, 1, n) \in Seq(Rows) /\ SubSeq(log', 1, n) \in Seq(Rows)
          /\ Len(SubSeq(log, 1, n)) = n /\ Len(SubSeq(log', 1, n)) = n
          /\ \A i \in 1 .. n : SubSeq(log, 1, n)[i] = log[i]
          /\ \A i \in 1 .. n : SubSeq(log', 1, n)[i] = log'[i]
      <4>1. n \in Int /\ 1 \in Int /\ n - 1 + 1 = n /\ (1 <= n \/ n = 0)
        BY <2>1
      <4>2. \A i \in 1 .. n : log[1 + i - 1] = log[i] /\ log'[1 + i - 1] = log'[i]
        BY <4>1
      <4> QED
        BY <3>1, <4>1, <4>2, SubSeqProperties
    <3> QED
      BY <3>1, <3>2, SeqEqual
  <2> QED
    BY <2>1, <2>2
<1> QED
  BY <1>1, <1>2 DEF Grows

\* The followed log is a log of rows.
LEMMA FollowedType ==
  ASSUME RInv
  PROVE  Followed \in Seq(Rows) /\ Len(Followed) \in Nat
<1>1. Followed \in Seq(Rows)
  <2>1. <<>> \in Seq(Rows)
    BY EmptySeq
  <2> QED
    BY <2>1 DEF RInv, Logged, Followed, LogOf
<1> QED
  BY <1>1, LenProperties

\* The cycle writes beside an open connection.
LEMMA WriteStep ==
  ASSUME RInv, Write
  PROVE  RInv' /\ (Follower!Grow \/ UNCHANGED <<Followed, delivered, stream>>)
<1>1. /\ "node" \in DOMAIN thread' /\ thread'.node \in Nodes /\ Grows
  <2>1. CASE RunCycle
    BY <2>1, CycleGrows DEF RInv
  <2>2. CASE EvaluateHypotheses \/ EvaluateDecision
    BY <2>2 DEF EvaluateHypotheses, EvaluateDecision, RInv, Logged, Grows
  <2> QED
    BY <2>1, <2>2 DEF Write
<1>2. UNCHANGED <<earlier, stream, delivered>>
  BY DEF Write, streaming
<1>3. /\ log' \in Seq(Rows)
      /\ Len(log) \in Nat /\ Len(log') \in Nat /\ Len(log) <= Len(log')
      /\ \A n \in 0 .. Len(log) : SubSeq(log', 1, n) = SubSeq(log, 1, n)
  BY <1>1, GrownLog DEF RInv, Logged
<1>4. Logged'
  BY <1>1, <1>2, <1>3 DEF RInv, Logged
<1>5. CASE stream.cycle # "this"
  <2>1. Followed' = Followed
    BY <1>2, <1>5 DEF Followed, LogOf
  <2> QED
    BY <1>2, <1>4, <2>1 DEF RInv, Sent
<1>6. CASE stream.cycle = "this"
  <2>1. Followed = log /\ Followed' = log'
    BY <1>2, <1>6 DEF Followed, LogOf
  <2>2. stream.lastId \in 0 .. Len(log)
    BY <1>3, <2>1 DEF RInv, Sent
  <2>3. Sent'
    BY <1>2, <1>3, <2>1, <2>2 DEF RInv, Sent
  <2>4. IsPrefix(log, log')
    BY <1>3 DEF IsPrefix
  <2>5. LogOf(stream.cycle) = log /\ LogOf(stream.cycle)' = log'
    BY <1>2, <1>6 DEF LogOf
  <2>6. log # log' => Follower!Grow
    BY <1>2, <2>4, <2>5 DEF Follower!Grow, Follower!IsPrefix, IsPrefix
  <2> QED
    BY <1>2, <1>4, <2>1, <2>3, <2>6 DEF RInv
<1> QED
  BY <1>5, <1>6

\* The connection is opened, for a cycle or for none.
LEMMA ConnectStep ==
  ASSUME RInv, Connect
  PROVE  RInv' /\ (Follower!Grow \/ UNCHANGED <<Followed, delivered, stream.at # "closed">>)
<1>1. /\ stream.at = "none" /\ stream.cycle = "none" /\ stream.lastId = 0
      /\ Followed = <<>> /\ LogOf(stream.cycle) = <<>> /\ delivered = <<>>
  <2>1. stream.at = "none" /\ stream.cycle = "none"
    BY DEF Connect, RInv, Sent
  <2>2. Followed = <<>> /\ LogOf(stream.cycle) = <<>> /\ Len(<<>>) = 0
    BY <2>1, EmptySeq DEF Followed, LogOf
  <2>3. stream.lastId = 0
    BY <2>2 DEF RInv, Sent
  <2>4. delivered = <<>>
    BY <2>2, <2>3, SubSeqEmpty DEF RInv, Sent
  <2> QED
    BY <2>1, <2>2, <2>3, <2>4
<1>2. UNCHANGED <<thread, log, delivered>> /\ stream'.at = "open" /\ stream'.lastId = 0
  BY <1>1 DEF Connect, records, RInv, Sent
<1>3. Logged'
  <2>1. earlier' \in Seq(Rows)
    BY EarlierLogsAssumption DEF Connect, RInv, Logged
  <2> QED
    BY <1>2, <2>1 DEF RInv, Logged
<1>4. /\ stream' \in [at : {"none", "open", "closed"}, cycle : {"none", "this", "earlier"},
                      lastId : Nat]
      /\ stream'.cycle \in {"none", "this"}
  BY <1>1 DEF Connect, RInv, Sent
<1>5. Followed' \in Seq(Rows) /\ (Followed' = <<>> \/ Followed' = log)
  BY <1>2, <1>3, <1>4, EmptySeq DEF Logged, Followed, LogOf
<1>6. Len(Followed') \in Nat /\ delivered' = SubSeq(Followed', 1, 0)
  BY <1>1, <1>2, <1>5, LenProperties, SubSeqEmpty
<1>7. Sent'
  <2>1. DOMAIN delivered' = {}
    BY <1>1, <1>2
  <2> QED
    BY <1>2, <1>4, <1>6, <2>1 DEF Sent
<1>8. IsPrefix(<<>>, Followed')
  BY <1>5, <1>6, EmptySeq, SubSeqEmpty DEF IsPrefix
<1>9. Followed' # <<>> => Follower!Grow
  BY <1>1, <1>2, <1>8 DEF Follower!Grow, Follower!IsPrefix, IsPrefix, Followed
<1> QED
  BY <1>1, <1>2, <1>3, <1>7, <1>9 DEF RInv

\* The connection finds a cycle to follow: its log is there all at once.
LEMMA ResolveStep ==
  ASSUME RInv, Resolve
  PROVE  RInv' /\ (Follower!Grow \/ UNCHANGED <<Followed, delivered, stream.at # "closed">>)
<1>1. stream.cycle = "none" /\ stream.at = "open"
  BY DEF Resolve
<1>2. /\ Followed = <<>> /\ LogOf(stream.cycle) = <<>>
      /\ stream.lastId = 0 /\ delivered = <<>>
  <2>1. Followed = <<>> /\ LogOf(stream.cycle) = <<>> /\ Len(<<>>) = 0
    BY <1>1, EmptySeq DEF Followed, LogOf
  <2>2. stream.lastId = 0
    BY <2>1 DEF RInv, Sent
  <2>3. delivered = <<>>
    BY <2>1, <2>2, SubSeqEmpty DEF RInv, Sent
  <2> QED
    BY <2>1, <2>2, <2>3
<1>3. UNCHANGED <<thread, log, earlier, delivered>>
  BY DEF Resolve, records
<1>4. Logged'
  BY <1>3 DEF RInv, Logged
<1>5. /\ stream' \in [at : {"none", "open", "closed"}, cycle : {"none", "this", "earlier"},
                      lastId : Nat]
      /\ stream'.at = "open" /\ stream'.lastId = 0
  BY <1>1, <1>2 DEF Resolve, LatestCycle, RInv, Sent
<1>6. Followed' \in Seq(Rows)
  BY <1>4, <1>5, EmptySeq DEF Logged, Followed, LogOf
<1>7. Len(Followed') \in Nat /\ delivered' = SubSeq(Followed', 1, 0)
  BY <1>2, <1>3, <1>6, LenProperties, SubSeqEmpty
<1>8. Sent'
  <2>1. DOMAIN delivered' = {}
    BY <1>2, <1>3
  <2> QED
    BY <1>5, <1>7, <2>1 DEF Sent
<1>9. IsPrefix(<<>>, Followed')
  BY <1>6, <1>7, EmptySeq, SubSeqEmpty DEF IsPrefix
<1>10. Followed' # <<>> => Follower!Grow
  BY <1>1, <1>2, <1>3, <1>5, <1>9 DEF Follower!Grow, Follower!IsPrefix, IsPrefix, Followed
<1> QED
  BY <1>1, <1>2, <1>3, <1>4, <1>5, <1>8, <1>10 DEF RInv

\* The connection gives up before it has sent anything.
LEMMA GiveUpStep ==
  ASSUME RInv, GiveUp
  PROVE  RInv' /\ Follower!GiveUp
<1>1. stream.cycle = "none" /\ stream.at = "open"
  BY DEF GiveUp
<1>2. delivered = <<>>
  <2>1. Followed = <<>> /\ Len(<<>>) = 0
    BY <1>1, EmptySeq DEF Followed, LogOf
  <2>2. stream.lastId = 0
    BY <2>1 DEF RInv, Sent
  <2> QED
    BY <2>1, <2>2, SubSeqEmpty DEF RInv, Sent
<1>3. UNCHANGED <<thread, log, earlier, delivered>>
  BY DEF GiveUp, records
<1>4. /\ stream' \in [at : {"none", "open", "closed"}, cycle : {"none", "this", "earlier"},
                      lastId : Nat]
      /\ stream'.at = "closed" /\ stream'.cycle = stream.cycle /\ stream'.lastId = stream.lastId
  BY DEF GiveUp, RInv, Sent
<1>5. Followed' = Followed /\ LogOf(stream.cycle)' = LogOf(stream.cycle)
  BY <1>3, <1>4 DEF Followed, LogOf
<1> QED
  BY <1>1, <1>2, <1>3, <1>4, <1>5 DEF RInv, Logged, Sent, Follower!GiveUp

\* The connection ends before its first poll.
LEMMA ConnectFailsStep ==
  ASSUME RInv, ConnectFails
  PROVE  RInv' /\ Follower!GiveUp
<1>1. stream.cycle = "none" /\ stream.at = "none"
  BY DEF ConnectFails, RInv, Sent
<1>2. delivered = <<>>
  <2>1. Followed = <<>> /\ Len(<<>>) = 0
    BY <1>1, EmptySeq DEF Followed, LogOf
  <2>2. stream.lastId = 0
    BY <2>1 DEF RInv, Sent
  <2> QED
    BY <2>1, <2>2, SubSeqEmpty DEF RInv, Sent
<1>3. UNCHANGED <<thread, log, earlier, delivered>>
  BY DEF ConnectFails, records
<1>4. /\ stream' \in [at : {"none", "open", "closed"}, cycle : {"none", "this", "earlier"},
                      lastId : Nat]
      /\ stream'.at = "closed" /\ stream'.cycle = stream.cycle /\ stream'.lastId = stream.lastId
  BY DEF ConnectFails, RInv, Sent
<1>5. Followed' = Followed /\ LogOf(stream.cycle)' = LogOf(stream.cycle)
  BY <1>3, <1>4 DEF Followed, LogOf
<1> QED
  BY <1>1, <1>2, <1>3, <1>4, <1>5 DEF RInv, Logged, Sent, Follower!GiveUp

\* A poll sends the log to its end, and ends the stream behind a row that ends a cycle.
LEMMA PollStep ==
  ASSUME RInv, Poll
  PROVE  RInv' /\ Follower!Deliver
<1> DEFINE new == NewRows(Followed, stream.lastId)
<1>1. /\ stream.at = "open"
      /\ new # <<>>
      /\ delivered' = delivered \o new
      /\ stream' = [stream EXCEPT !.lastId = Len(Followed),
                      !.at = IF \E i \in DOMAIN new : EndsStream(new[i]) THEN "closed" ELSE @]
      /\ UNCHANGED <<thread, log, earlier>>
  BY DEF Poll, Followed, records
<1>2. Followed \in Seq(Rows) /\ Len(Followed) \in Nat
  BY FollowedType
<1>3. /\ stream.lastId \in 0 .. Len(Followed)
      /\ delivered = SubSeq(Followed, 1, stream.lastId)
      /\ ~\E i \in DOMAIN delivered : EndsStream(delivered[i])
  BY <1>1, <1>2 DEF RInv, Sent
<1>4. /\ delivered \in Seq(Rows) /\ Len(delivered) = stream.lastId
      /\ new \in Seq(Rows)
  <2>1. \A i \in 1 .. stream.lastId : Followed[i] \in Rows
    BY <1>2, <1>3, ElementOfSeq
  <2>2. \A i \in stream.lastId + 1 .. Len(Followed) : Followed[i] \in Rows
    BY <1>2, <1>3, ElementOfSeq
  <2>3. delivered \in Seq(Rows) /\ Len(delivered) = stream.lastId
    <3>1. Len(SubSeq(Followed, 1, stream.lastId)) =
            IF 1 <= stream.lastId THEN stream.lastId - 1 + 1 ELSE 0
      BY <2>1, <1>3, SubSeqProperties
    <3>2. SubSeq(Followed, 1, stream.lastId) \in Seq(Rows)
      BY <2>1, <1>3, SubSeqProperties
    <3> QED
      BY <1>3, <3>1, <3>2
  <2>4. new \in Seq(Rows)
    BY <2>2, <1>2, <1>3, SubSeqProperties DEF NewRows
  <2> QED
    BY <2>3, <2>4
<1>5. delivered' = Followed
  <2>1. SubSeq(Followed, 1, stream.lastId) \o SubSeq(Followed, stream.lastId + 1, Len(Followed))
          = SubSeq(Followed, 1, Len(Followed))
    <3>1. /\ 1 \in 1 .. Len(Followed) + 1
          /\ stream.lastId \in 1 - 1 .. Len(Followed)
          /\ Len(Followed) \in stream.lastId .. Len(Followed)
      BY <1>2, <1>3
    <3> QED
      BY <1>2, <3>1, ConcatAdjacentSubSeq
  <2> QED
    BY <1>1, <1>2, <1>3, <2>1, SubSeqFull DEF NewRows
<1>6. Followed' = Followed /\ LogOf(stream.cycle)' = LogOf(stream.cycle)
  BY <1>1 DEF Followed, LogOf, RInv, Sent
<1>7. /\ Len(delivered) \in Nat /\ Len(new) \in Nat
      /\ DOMAIN delivered = 1 .. Len(delivered) /\ DOMAIN new = 1 .. Len(new)
      /\ DOMAIN delivered' = 1 .. Len(delivered) + Len(new)
      /\ \A i \in 1 .. Len(delivered) + Len(new) :
           delivered'[i] = IF i <= Len(delivered) THEN delivered[i] ELSE new[i - Len(delivered)]
  BY <1>1, <1>4, ConcatProperties, LenProperties
<1> HIDE DEF new
<1>8. (\E i \in DOMAIN new : EndsStream(new[i])) <=>
        \E i \in DOMAIN delivered' : EndsStream(delivered'[i])
  <2>1. ASSUME NEW i \in DOMAIN new, EndsStream(new[i])
        PROVE  \E j \in DOMAIN delivered' : EndsStream(delivered'[j])
    <3>1. /\ Len(delivered) + i \in DOMAIN delivered'
          /\ delivered'[Len(delivered) + i] = new[i]
      BY <1>7
    <3> QED
      BY <2>1, <3>1
  <2>2. ASSUME NEW j \in DOMAIN delivered', EndsStream(delivered'[j])
        PROVE  \E i \in DOMAIN new : EndsStream(new[i])
    <3>1. CASE j <= Len(delivered)
      <4>1. j \in DOMAIN delivered /\ delivered'[j] = delivered[j]
        BY <1>7, <3>1
      <4> QED
        BY <1>3, <2>2, <4>1
    <3>2. CASE ~(j <= Len(delivered))
      <4>1. /\ j - Len(delivered) \in DOMAIN new
            /\ delivered'[j] = new[j - Len(delivered)]
        BY <1>7, <3>2
      <4> QED
        BY <2>2, <4>1
    <3> QED
      BY <3>1, <3>2
  <2> QED
    BY <2>1, <2>2
<1>9. /\ stream' \in [at : {"none", "open", "closed"}, cycle : {"none", "this", "earlier"},
                      lastId : Nat]
      /\ stream'.cycle = stream.cycle /\ stream'.lastId = Len(Followed)
      /\ stream'.at = IF \E i \in DOMAIN new : EndsStream(new[i]) THEN "closed" ELSE "open"
  BY <1>1, <1>2 DEF RInv, Sent
<1>10. Logged'
  BY <1>1 DEF RInv, Logged
<1>11. (stream'.at # "closed") <=> ~\E i \in DOMAIN delivered' : EndsStream(delivered'[i])
  BY <1>8, <1>9
<1>12. Sent'
  <2>1. /\ stream'.at # "none"
        /\ stream'.lastId <= Len(Followed')
        /\ delivered' = SubSeq(Followed', 1, stream'.lastId)
    BY <1>2, <1>5, <1>6, <1>9, SubSeqFull
  <2> QED
    BY <1>9, <1>11, <2>1 DEF Sent
<1>13. delivered # delivered'
  BY <1>1, <1>4, ConcatEqualIffEmpty
<1>14. IsPrefix(delivered, delivered') /\ IsPrefix(delivered', Followed)
  <2>1. SubSeq(delivered, 1, Len(delivered)) = delivered
    BY <1>4, SubSeqFull
  <2> QED
    BY <1>2, <1>3, <1>4, <1>5, <2>1 DEF IsPrefix
<1>15. Follower!Deliver
  <2>1. /\ Follower!IsPrefix(delivered, delivered')
        /\ Follower!IsPrefix(delivered', LogOf(stream.cycle))
    BY <1>14 DEF IsPrefix, Follower!IsPrefix, Followed
  <2>2. (stream.at # "closed")' = ~\E i \in DOMAIN delivered' : EndsStream(delivered'[i])
    BY <1>11
  <2> QED
    BY <1>1, <1>6, <1>13, <2>1, <2>2 DEF Follower!Deliver
<1> QED
  BY <1>10, <1>12, <1>15 DEF RInv

-----------------------------------------------------------------------------

\* A step of the model is a step of the follower, or nothing to it.
LEMMA FollowerStep ==
  ASSUME RInv, [Next]_vars
  PROVE  RInv' /\ [Follower!Next]_<<LogOf(stream.cycle), delivered, stream.at # "closed">>
<1>1. CASE Write
  BY <1>1, WriteStep DEF Follower!Next, Followed
<1>2. CASE Follow
  BY <1>2, ConnectStep, ConnectFailsStep, ResolveStep, GiveUpStep, PollStep DEF Follow, Follower!Next, Followed
<1>3. CASE UNCHANGED <<thread, log, earlier, stream, delivered>>
  BY <1>3 DEF RInv, Logged, Sent, Followed, LogOf
<1>4. CASE (ReadCycle \/ ReadRecords) /\ UNCHANGED streaming
  <2>1. UNCHANGED records
    BY <1>4 DEF ReadCycle, ReadRecords, CycleState, CycleHistory, TrailOrder, TrailDecision,
                TrailHypotheses, TrailContext, ExecutionOrder, ExecutionFills, Read
  <2> QED
    BY <1>3, <1>4, <2>1 DEF records, streaming
<1> QED
  BY <1>1, <1>2, <1>3, <1>4 DEF Next, Ask, vars, records, streaming

\* The invariant holds at the start, and so does the follower's.
LEMMA FollowerInit == Init => RInv /\ Follower!Init
<1> SUFFICES ASSUME Init
             PROVE  RInv /\ Follower!Init
  OBVIOUS
<1> QED
  BY EmptySeq, SubSeqEmpty DEF Init, RecordsInit, StreamInit, RInv, Logged, Sent, Followed, LogOf,
     Nodes, Follower!Init

\* Every row of the followed log once, in order, none left out, and the end only behind a
\* row that ends a cycle: for any families, broker answers, lost rows and earlier logs.
THEOREM StreamFollows == Spec => FollowsTheLog
<1>1. RInv /\ [Next]_vars =>
        RInv' /\ [Follower!Next]_<<LogOf(stream.cycle), delivered, stream.at # "closed">>
  BY FollowerStep
<1> QED
  BY <1>1, FollowerInit, PTL DEF Spec, FollowsTheLog, Follower!Spec

-----------------------------------------------------------------------------

\* A row more leaves the rows below it as they are.
LEMMA OneMore ==
  ASSUME NEW S, NEW s \in Seq(S), NEW e \in S
  PROVE  /\ Append(s, e) \in Seq(S)
         /\ Append(s, e) # <<>>
         /\ Len(Append(s, e)) = Len(s) + 1
         /\ DOMAIN Append(s, e) = DOMAIN s \cup {Len(s) + 1}
         /\ Len(s) + 1 \notin DOMAIN s
         /\ \A i \in DOMAIN s : Append(s, e)[i] = s[i]
         /\ Append(s, e)[Len(s) + 1] = e
<1>1. /\ Append(s, e) \in Seq(S)
      /\ Append(s, e) # <<>>
      /\ Len(Append(s, e)) = Len(s) + 1
      /\ \A i \in 1 .. Len(s) : Append(s, e)[i] = s[i]
      /\ Append(s, e)[Len(s) + 1] = e
  BY AppendProperties
<1>2. /\ Len(s) \in Nat /\ DOMAIN s = 1 .. Len(s)
      /\ DOMAIN Append(s, e) = 1 .. Len(Append(s, e))
  BY <1>1, LenProperties
<1> QED
  BY <1>1, <1>2

\* Where the graph goes on, one clause for each branch of the routing.
LEMMA NextNodeIs ==
  /\ thread.node = "INITIAL" => NextNode = "ANALYZING"
  /\ thread.node = "ANALYZING" =>
       NextNode = IF thread.context = TRUE THEN "STRATEGY_EVALUATION" ELSE "MONITORING"
  /\ thread.node = "STRATEGY_EVALUATION" =>
       NextNode = IF thread.selected # "none" THEN "RISK_CHECK" ELSE "MONITORING"
  /\ thread.node = "RISK_CHECK" =>
       NextNode = IF thread.cleared THEN "EXECUTION" ELSE "MONITORING"
  /\ thread.node = "EXECUTION" => NextNode = "MONITORING"
  BY DEF NextNode

\* A step of the cycle's thread leaves it at a place of the graph.
LEMMA PlacedStep ==
  ASSUME Typed, Placed, RunCycle
  PROVE  thread' \in Threads /\ Placed'
<1>0. thread \in Threads
  BY DEF Typed
<1> USE DEF Placed, Goto
<1>1. CASE StampInitial
  BY <1>0, <1>1 DEF StampInitial, At, Threads, ThreadSteps
<1>2. CASE Enter
  BY <1>0, <1>2 DEF Enter, Threads, ThreadSteps
<1>3. CASE Exit
  <2>1. CASE thread.node = "MONITORING"
    <3>1. thread' = [thread EXCEPT !.at = "done"]
      BY <1>3, <2>1 DEF Exit
    <3>2. thread.slot = "primary"
      BY <1>0, <1>3, <2>1 DEF Exit, Threads
    <3>3. /\ thread' \in Threads /\ thread'.node = "MONITORING"
          /\ thread'.slot = "primary" /\ thread'.at = "done"
      BY <1>0, <2>1, <3>1, <3>2 DEF Threads, ThreadSteps
    <3> QED
      BY <3>3
  <2>2. CASE thread.node # "MONITORING"
    <3>1. /\ NextNode \in Nodes \ {"INITIAL", "COMPLETED", "FAILED"}
          /\ thread.node # "INITIAL" => NextNode # "ANALYZING"
      BY <1>0, <2>2, NextNodeIs DEF Nodes, Threads
    <3>2. /\ thread' \in Threads /\ thread'.node = NextNode /\ thread'.slot = thread.slot
          /\ thread.at = "exit" /\ thread'.at = IF Nested THEN "body" ELSE "enter"
      BY <1>0, <1>3, <2>2, <3>1 DEF Exit, Threads, ThreadSteps
    <3> QED
      BY <1>0, <3>1, <3>2 DEF Nested, Threads, ThreadSteps, Nodes
  <2> QED
    BY <2>1, <2>2
<1>4. CASE InitialBody
  BY <1>0, <1>4 DEF InitialBody, At, Threads, ThreadSteps
<1>5. CASE AnalyzingBody
  BY <1>0, <1>5 DEF AnalyzingBody, At, Threads, ThreadSteps
<1>6. CASE StrategyBody
  <2>1. Len(hypotheses) \in Nat
    BY LenProperties DEF Typed
  <2> QED
  BY <1>0, <1>6, <2>1 DEF StrategyBody, At, Threads, ThreadSteps
<1>7. CASE SaveDecision
  BY <1>0, <1>7 DEF SaveDecision, At, Threads, ThreadSteps
<1>8. CASE RiskBody
  BY <1>0, <1>8 DEF RiskBody, At, Threads, ThreadSteps
<1>9. CASE ExecutionBody
  <2>1. \/ thread' = [thread EXCEPT !.at = "exit"]
        \/ thread' = Thrown
    BY <1>9 DEF ExecutionBody, PersistOrder
  <2>2. /\ thread.node = "EXECUTION" /\ thread.at = "body" /\ "MONITORING" \in Nodes
        /\ thread.slot # "close"
    BY <1>9 DEF ExecutionBody, At, Nodes
  <2>3. CASE thread' = [thread EXCEPT !.at = "exit"]
    BY <1>0, <2>2, <2>3 DEF Threads, ThreadSteps
  <2>4. CASE thread' = Thrown
    BY <1>0, <2>2, <2>4 DEF Thrown, Nested, Threads, ThreadSteps
  <2> QED
    BY <2>1, <2>3, <2>4
<1>10. CASE MonitoringBody
  BY <1>0, <1>10 DEF MonitoringBody, BodyDone, Nested, At, Threads, ThreadSteps
<1>11. CASE Reassess
  BY <1>0, <1>11 DEF Reassess, At, Threads, ThreadSteps
<1>12. CASE CloseGate
  BY <1>0, <1>12 DEF CloseGate, At, Threads, ThreadSteps
<1>13. CASE CloseOrder
  BY <1>0, <1>13 DEF CloseOrder, PersistOrder, At, Threads, ThreadSteps
<1>14. CASE RecordHedgeChange
  BY <1>0, <1>14 DEF RecordHedgeChange, At, Threads, ThreadSteps
<1>15. CASE Reopen
  BY <1>0, <1>15 DEF Reopen, At, Threads, ThreadSteps, Nodes
<1>16. CASE PersistMonitoring
  BY <1>0, <1>16 DEF PersistMonitoring, At, Threads, ThreadSteps
<1> QED
  BY <1>1, <1>2, <1>3, <1>4, <1>5, <1>6, <1>7, <1>8, <1>9, <1>10, <1>11, <1>12, <1>13, <1>14,
     <1>15, <1>16, Zenon DEF RunCycle

-----------------------------------------------------------------------------

\* A non-empty set of naturals has a least element.
LEMMA MinIsLeast ==
  ASSUME NEW S \in SUBSET Nat, S # {}
  PROVE  Min(S) \in S /\ \A n \in S : Min(S) <= n
<1> DEFINE Below == {0 .. n : n \in S}
<1>1. Below \subseteq FiniteSubsetsOf(Nat) /\ Below # {}
  <2>1. \A n \in S : IsFiniteSet(0 .. n) /\ 0 .. n \in SUBSET Nat
    BY FS_Interval
  <2> QED
    BY <2>1 DEF FiniteSubsetsOf
<1>2. PICK B \in Below : \A C \in Below : <<C, B>> \notin StrictSubsetOrdering(Nat)
  BY <1>1, FS_StrictSubsetOrderingWellFounded, WFMin
<1>3. PICK m \in S : B = 0 .. m
  BY <1>2
<1>4. ASSUME NEW n \in S
      PROVE  m <= n
  <2>1. 0 .. n \in Below /\ 0 .. n \in SUBSET Nat /\ 0 .. m \in SUBSET Nat
    BY <1>4
  <2>2. ~(0 .. n \subseteq 0 .. m /\ 0 .. n # 0 .. m)
    BY <1>2, <1>3, <2>1 DEF StrictSubsetOrdering
  <2>3. n \in 0 .. n /\ m \in 0 .. m
    BY <1>3, <1>4
  <2> QED
    BY <1>3, <1>4, <2>2, <2>3
<1> QED
  BY <1>4 DEF Min

\* A table that is left alone keeps its rows.
LEMMA SameIsLonger ==
  ASSUME NEW S, NEW s \in Seq(S)
  PROVE  Longer(s, s)
  BY LenProperties DEF Longer

\* A row appended leaves the rows before it as they are.
LEMMA AppendIsLonger ==
  ASSUME NEW S, NEW s \in Seq(S), NEW e \in S
  PROVE  /\ Append(s, e) \in Seq(S) /\ Longer(s, Append(s, e))
         /\ Append(s, e) # <<>>
  BY OneMore, LenProperties DEF Longer

\* Rows appended in one save leave the rows before them as they are, and come in order.
LEMMA ConcatIsLonger ==
  ASSUME NEW S, NEW s \in Seq(S), NEW t \in Seq(S)
  PROVE  /\ s \o t \in Seq(S) /\ Longer(s, s \o t)
         /\ Len(s \o t) = Len(s) + Len(t)
         /\ \A j \in 1 .. Len(t) : (s \o t)[Len(s) + j] = t[j]
<1>1. /\ Len(s) \in Nat /\ Len(t) \in Nat /\ DOMAIN s = 1 .. Len(s)
      /\ s \o t \in Seq(S) /\ Len(s \o t) = Len(s) + Len(t)
      /\ DOMAIN (s \o t) = 1 .. Len(s) + Len(t)
      /\ \A i \in 1 .. Len(s) + Len(t) : (s \o t)[i] =
                     IF i <= Len(s) THEN s[i] ELSE t[i - Len(s)]
  BY ConcatProperties, LenProperties
<1>2. s # <<>> => s \o t # <<>>
  BY <1>1, ConcatEqualIffEmpty
<1>3. \A j \in 1 .. Len(t) : (s \o t)[Len(s) + j] = t[j]
  BY <1>1
<1> QED
  BY <1>1, <1>2, <1>3 DEF Longer

\* What the evaluation saves: a hypothesis of every family.
LEMMA HypothesisRowsAre ==
  ASSUME NEW slot \in Slots
  PROVE  /\ HypothesisRows(slot) \in Seq(HypothesisRow)
         /\ Len(HypothesisRows(slot)) = Len(Families)
         /\ \A j \in 1 .. Len(Families) :
              HypothesisRows(slot)[j] = [slot |-> slot, family |-> Families[j]]
<1>1. Len(Families) \in Nat /\ DOMAIN Families = 1 .. Len(Families)
  BY FamiliesAssumption, LenProperties
<1>2. \A j \in 1 .. Len(Families) : [slot |-> slot, family |-> Families[j]] \in HypothesisRow
  BY <1>1 DEF HypothesisRow, ToSet
<1>3. HypothesisRows(slot) = [j \in 1 .. Len(Families) |-> [slot |-> slot, family |-> Families[j]]]
  BY <1>1 DEF HypothesisRows
<1>4. HypothesisRows(slot) \in [1 .. Len(Families) -> HypothesisRow]
  BY <1>2, <1>3
<1>5. HypothesisRows(slot) \in Seq(HypothesisRow)
  BY <1>1, <1>4, SeqDef
<1>6. Len(HypothesisRows(slot)) = Len(Families)
  BY <1>1, <1>4, <1>5, LenProperties
<1> QED
  BY <1>3, <1>5, <1>6

\* The id of the selected hypothesis is one of those just saved.
LEMMA SelectedIdIs ==
  ASSUME NEW family \in ToSet(Families) \cup {"none"}, NEW saved \in Nat
  PROVE  /\ SelectedId(family, saved) \in Nat
         /\ SelectedId(family, saved) # 0 =>
              \E j \in 1 .. Len(Families) :
                SelectedId(family, saved) = saved + j /\ Families[j] = family
<1> DEFINE I == {i \in 1 .. Len(Families) : Families[i] = family}
<1>1. Len(Families) \in Nat /\ DOMAIN Families = 1 .. Len(Families)
  BY FamiliesAssumption, LenProperties
<1>2. CASE family = "none"
  BY <1>2 DEF SelectedId
<1>3. CASE family # "none"
  <2>1. I # {} /\ I \in SUBSET Nat
    BY <1>1, <1>3 DEF ToSet
  <2>2. SelectInSeq(Families, LAMBDA f : f = family) = Min(I)
    BY <2>1 DEF SelectInSeq
  <2>3. Min(I) \in I
    BY <2>1, MinIsLeast
  <2>4. SelectedId(family, saved) = saved + Min(I)
    BY <1>3, <2>2 DEF SelectedId
  <2>5. PICK m \in 1 .. Len(Families) : m = Min(I) /\ Families[m] = family
    BY <2>3
  <2>6. SelectedId(family, saved) = saved + m
    BY <2>4, <2>5
  <2> HIDE DEF I
  <2> QED
    BY <1>1, <2>5, <2>6
<1> QED
  BY <1>2, <1>3

-----------------------------------------------------------------------------

\* What a broker answer is mapped to.
LEMMA ResultIs ==
  ASSUME NEW answer \in BrokerCases
  PROVE  Result(answer) \in ExecutionStatuses \cup Raised
<1>1. MapBrokerStatus(answer.state) \in ExecutionStatuses \cup {"RAISES_RESULT_ERROR"}
  BY BrokerCasesAssumption DEF MapBrokerStatus, BrokerStates, ExecutionStatuses
<1>2. FillStatus(answer.state, answer.fills) \in ExecutionStatuses \cup {"RAISES_RESULT_ERROR"}
  BY <1>1 DEF FillStatus, NothingFilledStatus, ExecutionStatuses
<1> QED
  BY <1>2 DEF Result, BuildStatus, Raised

\* Whatever is persisted has a status of the contract.
LEMMA PersistedIs ==
  ASSUME NEW answer \in BrokerCases
  PROVE  Persisted(answer) \in ExecutionStatuses
  BY ResultIs DEF Persisted, Mappable, ExecutionStatuses

\* The order that is saved is what is persisted, as the row maps it.
LEMMA OrderRowIs ==
  ASSUME Typed, NEW answer \in BrokerCases
  PROVE  OrderRow(answer) \in OrderRows /\ OrderRow(answer).slot = thread.slot
<1>1. thread.slot \in Slots
  BY DEF Typed, Threads, Slots
<1>2. Persisted(answer) \in ExecutionStatuses
  BY PersistedIs
<1>3. OrderRowStatus(Persisted(answer)) \in OrderRowStatuses
  BY <1>2 DEF OrderRowStatus, OrderRowStatuses, ExecutionStatuses
<1> QED
  BY <1>1, <1>3 DEF OrderRow, OrderRows

\* A failing write is remembered under the slot that made it.
LEMMA LosesIs ==
  ASSUME Typed, NEW table \in Tables, Loses(table)
  PROVE  /\ lost' = lost \cup {<<thread.slot, table>>}
         /\ lost' \in SUBSET (Slots \X Tables)
<1>1. thread.slot \in Slots
  BY DEF Typed, Threads, Slots
<1> QED
  BY <1>1 DEF Loses, Typed

\* A risk check is saved: from then on there is one on file.
LEMMA CheckIsRow ==
  ASSUME Typed, NEW slot \in Slots, CreateCheck(slot)
  PROVE  riskChecks' \in Seq(SlotRows) /\ Longer(riskChecks, riskChecks') /\ riskChecks' # <<>>
<1>1. [slot |-> slot] \in SlotRows
  BY DEF SlotRows
<1> QED
  BY <1>1, AppendIsLonger DEF CreateCheck, Typed

\* An execution saves one order of its own slot, or none.
LEMMA PersistOrderTables ==
  ASSUME Typed, NEW answers \in SUBSET BrokerCases, NEW state, PersistOrder(answers, state)
  PROVE  /\ orders' \in Seq(OrderRows) /\ Longer(orders, orders')
         /\ \/ orders' = orders
            \/ \E o \in OrderRows : o.slot = thread.slot /\ orders' = Append(orders, o)
<1>1. CASE UNCHANGED orders
  BY <1>1, SameIsLonger DEF Typed
<1>2. ASSUME NEW answer \in BrokerCases, SaveWithFills(answer)
      PROVE  /\ orders' \in Seq(OrderRows) /\ Longer(orders, orders')
             /\ \E o \in OrderRows : o.slot = thread.slot /\ orders' = Append(orders, o)
  <2>1. OrderRow(answer) \in OrderRows /\ OrderRow(answer).slot = thread.slot
    BY <1>2, OrderRowIs
  <2> QED
    BY <1>2, <2>1, AppendIsLonger DEF SaveWithFills, Typed
<1> QED
  BY <1>1, <1>2 DEF PersistOrder

\* So does the node, and so does the close.
LEMMA OrdersTables ==
  ASSUME Typed, ExecutionBody \/ CloseOrder
  PROVE  /\ orders' \in Seq(OrderRows) /\ Longer(orders, orders')
         /\ \/ orders' = orders
            \/ \E o \in OrderRows : o.slot = thread.slot /\ orders' = Append(orders, o)
<1>1. PICK answers \in SUBSET BrokerCases : \E state : PersistOrder(answers, state)
  <2>1. CASE CloseOrder
    BY <2>1 DEF CloseOrder
  <2>2. CASE ExecutionBody
    BY <2>2 DEF ExecutionBody
  <2> QED
    BY <2>1, <2>2
<1> QED
  BY <1>1, PersistOrderTables

\* The check of a close is on file, or known to be lost.
LEMMA CloseCheckIs ==
  ASSUME Typed, LogCloseCheck
  PROVE  /\ riskChecks' \in Seq(SlotRows) /\ Longer(riskChecks, riskChecks')
         /\ lost \subseteq lost' /\ lost' \in SUBSET (Slots \X Tables)
         /\ CheckKept'
<1>1. CASE CreateCheck("close") /\ Kept
  <2>1. "close" \in Slots
    BY DEF Slots
  <2> QED
    BY <1>1, <2>1, CheckIsRow DEF Kept, Typed, CheckKept
<1>2. CASE lost' = lost \cup {<<"close", "check">>} /\ UNCHANGED riskChecks
  <2>1. <<"close", "check">> \in Slots \X Tables
    BY DEF Slots, Tables
  <2> QED
    BY <1>2, <2>1, SameIsLonger DEF Typed, CheckKept
<1> QED
  BY <1>1, <1>2 DEF LogCloseCheck

\* A decision is saved as a row more.
LEMMA DecisionIsRow ==
  ASSUME Typed, NEW slot \in Slots, NEW family \in ToSet(Families) \cup {"none"}, NEW saved \in Nat,
         CreateDecision(slot, family, saved)
  PROVE  /\ decisions' \in Seq(DecisionRows) /\ Longer(decisions, decisions') /\ decisions' # <<>>
<1>1. [slot |-> slot, family |-> family, selected |-> SelectedId(family, saved)] \in DecisionRows
  BY SelectedIdIs DEF DecisionRows
<1> QED
  BY <1>1, AppendIsLonger DEF CreateDecision, Typed

\* A step of the cycle keeps every table well formed and touches no row that is there.
LEMMA TablesStep ==
  ASSUME Typed, Placed, RunCycle
  PROVE  Typed' /\ Grown
<1>0. /\ Longer(snapshots, snapshots) /\ Longer(hypotheses, hypotheses)
      /\ Longer(decisions, decisions) /\ Longer(riskChecks, riskChecks) /\ Longer(orders, orders)
  BY SameIsLonger DEF Typed
<1>a. /\ thread.slot \in Slots /\ thread.saved \in Nat
      /\ thread.selected \in ToSet(Families) \cup {"none"}
  BY DEF Typed, Threads, Slots
<1>b. thread' \in Threads
  BY PlacedStep
<1>c. \A table \in Tables :
        Loses(table) => lost \subseteq lost' /\ lost' \in SUBSET (Slots \X Tables)
  BY LosesIs
<1>d. {"log", "snapshot", "strategy", "reassessment", "change", "monitoring"} \subseteq Tables
  BY DEF Tables
<1>e. Kept => lost \subseteq lost' /\ lost' \in SUBSET (Slots \X Tables)
  BY DEF Kept, Typed
<1> DEFINE Recs == /\ snapshots' \in Seq(SlotRows) /\ Longer(snapshots, snapshots')
                   /\ hypotheses' \in Seq(HypothesisRow) /\ Longer(hypotheses, hypotheses')
                   /\ decisions' \in Seq(DecisionRows) /\ Longer(decisions, decisions')
                   /\ riskChecks' \in Seq(SlotRows) /\ Longer(riskChecks, riskChecks')
                   /\ orders' \in Seq(OrderRows) /\ Longer(orders, orders')
<1> SUFFICES UNCHANGED request /\ lost \subseteq lost' /\ lost' \in SUBSET (Slots \X Tables) /\ Recs
  BY <1>b DEF Typed, Grown
<1>p. UNCHANGED tables => Recs
  BY <1>0 DEF tables, Typed
<1>1. CASE StampInitial
  <2>1. Kept \/ Loses("log")
    BY <1>1 DEF StampInitial, Record
  <2> QED
    BY <1>1, <1>c, <1>d, <1>e, <1>p, <2>1 DEF StampInitial
<1>2. CASE Enter
  <2>1. Kept \/ Loses("log")
    BY <1>2 DEF Enter, Record
  <2> QED
    BY <1>2, <1>c, <1>d, <1>e, <1>p, <2>1 DEF Enter
<1>3. CASE Exit
  <2>1. Kept \/ Loses("log")
    BY <1>3 DEF Exit, Record, Kept
  <2> QED
    BY <1>3, <1>c, <1>d, <1>e, <1>p, <2>1 DEF Exit
<1>4. CASE InitialBody
  BY <1>4, <1>p DEF InitialBody, Typed
<1>5. CASE AnalyzingBody
  <2>1. UNCHANGED snapshots \/ SaveWithPositions
    BY <1>5 DEF AnalyzingBody, PersistSnapshot
  <2>2. snapshots' \in Seq(SlotRows) /\ Longer(snapshots, snapshots')
    <3>1. [slot |-> thread.slot] \in SlotRows
      BY <1>a DEF SlotRows
    <3>2. CASE SaveWithPositions
      <4>1. snapshots \in Seq(SlotRows) /\ snapshots' = Append(snapshots, [slot |-> thread.slot])
        BY <3>2 DEF SaveWithPositions, Typed
      <4> QED
        BY <3>1, <4>1, AppendIsLonger
    <3> QED
      BY <1>0, <2>1, <3>2 DEF Typed
  <2>3. Kept \/ Loses("snapshot")
    BY <1>5 DEF AnalyzingBody, PersistSnapshot, Kept
  <2> QED
    BY <1>0, <1>5, <1>c, <1>d, <1>e, <2>2, <2>3 DEF AnalyzingBody, Typed
<1>6. CASE StrategyBody
  <2>1. UNCHANGED hypotheses \/ SaveMany(HypothesisRows(thread.slot))
    BY <1>6 DEF StrategyBody
  <2>2. hypotheses' \in Seq(HypothesisRow) /\ Longer(hypotheses, hypotheses')
    <3>1. HypothesisRows(thread.slot) \in Seq(HypothesisRow) /\ hypotheses \in Seq(HypothesisRow)
      BY <1>a, HypothesisRowsAre DEF Typed
    <3>2. CASE SaveMany(HypothesisRows(thread.slot))
      BY <3>1, <3>2, ConcatIsLonger DEF SaveMany
    <3> QED
      BY <1>0, <2>1, <3>1, <3>2
  <2>3. Kept \/ Loses("strategy")
    BY <1>6 DEF StrategyBody, Kept
  <2> QED
    BY <1>0, <1>6, <1>c, <1>d, <1>e, <2>2, <2>3 DEF StrategyBody, Typed
<1>7. CASE SaveDecision
  <2>1. UNCHANGED decisions \/ CreateDecision(thread.slot, thread.selected, thread.saved)
    BY <1>7 DEF SaveDecision
  <2>2. decisions' \in Seq(DecisionRows) /\ Longer(decisions, decisions')
    BY <1>0, <1>a, <2>1, DecisionIsRow DEF Typed
  <2>3. Kept \/ Loses("strategy")
    BY <1>7 DEF SaveDecision
  <2> QED
    BY <1>0, <1>7, <1>c, <1>d, <1>e, <2>2, <2>3 DEF SaveDecision, Typed
<1>8. CASE RiskBody
  <2>1. riskChecks' \in Seq(SlotRows) /\ Longer(riskChecks, riskChecks')
    BY <1>0, <1>8, <1>a, CheckIsRow DEF RiskBody, Typed
  <2> QED
    BY <1>0, <1>8, <2>1 DEF RiskBody, Typed
<1>9. CASE ExecutionBody
  <2>1. orders' \in Seq(OrderRows) /\ Longer(orders, orders')
    BY <1>9, OrdersTables
  <2> QED
    BY <1>0, <1>9, <2>1 DEF ExecutionBody, PersistOrder, Typed
<1>10. CASE MonitoringBody
  BY <1>10, <1>p DEF MonitoringBody, Typed
<1>11. CASE Reassess
  <2>1. Kept \/ Loses("reassessment")
    BY <1>11 DEF Reassess, PersistReassessment
  <2> QED
    BY <1>0, <1>11, <1>c, <1>d, <1>e, <2>1 DEF Reassess, Typed
<1>12. CASE CloseGate
  <2>1. LogCloseCheck \/ UNCHANGED <<riskChecks, lost>>
    BY <1>12 DEF CloseGate
  <2>2. /\ riskChecks' \in Seq(SlotRows) /\ Longer(riskChecks, riskChecks')
        /\ lost \subseteq lost' /\ lost' \in SUBSET (Slots \X Tables)
    BY <1>0, <2>1, CloseCheckIs DEF Typed
  <2> QED
    BY <1>0, <1>12, <2>2 DEF CloseGate, Typed
<1>13. CASE CloseOrder
  <2>1. orders' \in Seq(OrderRows) /\ Longer(orders, orders')
    BY <1>13, OrdersTables
  <2> QED
    BY <1>0, <1>13, <2>1 DEF CloseOrder, PersistOrder, Typed
<1>14. CASE RecordHedgeChange
  <2>1. Kept \/ Loses("change")
    BY <1>14 DEF RecordHedgeChange
  <2> QED
    BY <1>0, <1>14, <1>c, <1>d, <1>e, <2>1 DEF RecordHedgeChange, Typed
<1>15. CASE Reopen
  BY <1>15, <1>p DEF Reopen, Typed
<1>16. CASE PersistMonitoring
  <2>1. Kept \/ Loses("monitoring")
    BY <1>16 DEF PersistMonitoring
  <2> QED
    BY <1>0, <1>16, <1>c, <1>d, <1>e, <2>1 DEF PersistMonitoring, Typed
<1> QED
  BY <1>1, <1>2, <1>3, <1>4, <1>5, <1>6, <1>7, <1>8, <1>9, <1>10, <1>11, <1>12, <1>13, <1>14,
     <1>15, <1>16, Zenon DEF RunCycle

-----------------------------------------------------------------------------

\* What is on file stays on file, and what is known to be lost stays lost.
LEMMA KeptStays ==
  ASSUME Grown
  PROVE  /\ StrategyKept => StrategyKept'
         /\ SnapshotKept => SnapshotKept'
         /\ CheckKept => CheckKept'
         /\ riskChecks # <<>> => riskChecks' # <<>>
  BY DEF Grown, Longer, StrategyKept, SnapshotKept, CheckKept

\* An order is saved only after the approval, the decision and the snapshot it rests on
\* were saved or lost, and none of these goes away.
LEMMA OrdersFoundedStep ==
  ASSUME Typed, Placed, Founded, RunCycle
  PROVE  \A i \in DOMAIN orders' : OrderFounded(orders[i])'
<1>1. \A i \in DOMAIN orders : OrderFounded(orders[i])
  BY DEF Founded, ThreadFounded, OrderFounded
<1>2. Grown /\ Typed'
  BY TablesStep
<1>3. \A i \in DOMAIN orders : i \in DOMAIN orders' /\ OrderFounded(orders[i])'
  <2>1. \A i \in DOMAIN orders : i \in DOMAIN orders' /\ orders'[i] = orders[i]
    BY <1>2 DEF Grown, Longer
  <2> QED
    BY <1>1, <1>2, <2>1, KeptStays DEF OrderFounded
<1>4. CASE UNCHANGED orders
  BY <1>3, <1>4
<1>5. ASSUME NEW o \in OrderRows, orders' = Append(orders, o), OrderFounded(o)'
      PROVE  \A i \in DOMAIN orders' : OrderFounded(orders[i])'
  <2>1. /\ DOMAIN orders' = DOMAIN orders \cup {Len(orders) + 1}
        /\ orders'[Len(orders) + 1] = o
    BY <1>5, OneMore DEF Typed
  <2>2. ASSUME NEW i \in DOMAIN orders', i \notin DOMAIN orders
        PROVE  OrderFounded(orders[i])'
    <3>1. orders'[i] = o
      BY <2>1, <2>2
    <3> QED
      BY <1>5, <3>1 DEF OrderFounded
  <2> QED
    BY <1>3, <2>2
<1>6. CASE ExecutionBody
  <2>1. \/ UNCHANGED orders
        \/ \E o \in OrderRows : o.slot = thread.slot /\ orders' = Append(orders, o)
    BY <1>6, OrdersTables
  <2>2. StrategyKept /\ SnapshotKept /\ riskChecks # <<>>
    BY <1>6 DEF ExecutionBody, At, Founded, ThreadFounded, OrderFounded
  <2>3. \A o \in OrderRows : OrderFounded(o)'
    BY <1>2, <2>2, KeptStays DEF OrderFounded, CheckKept
  <2> QED
    BY <1>4, <1>5, <2>1, <2>3
<1>7. CASE CloseOrder
  <2>1. \/ UNCHANGED orders
        \/ \E o \in OrderRows : o.slot = thread.slot /\ orders' = Append(orders, o)
    BY <1>7, OrdersTables
  <2>2. CheckKept /\ thread.slot = "close"
    BY <1>7 DEF CloseOrder, At, Placed, Founded, ThreadFounded, OrderFounded
  <2>3. \A o \in OrderRows : o.slot = "close" => OrderFounded(o)'
    BY <1>2, <2>2, KeptStays DEF OrderFounded
  <2> QED
    BY <1>4, <1>5, <2>1, <2>2, <2>3
<1>8. UNCHANGED orders \/ ExecutionBody \/ CloseOrder
  BY DEF RunCycle, StampInitial, Enter, Exit, InitialBody, AnalyzingBody,
    StrategyBody, SaveDecision,
    RiskBody, MonitoringBody, Reassess, CloseGate, RecordHedgeChange, Reopen, PersistMonitoring,
    tables
<1> QED
  BY <1>4, <1>6, <1>7, <1>8

\* Each node finds what the nodes before it saved or lost.
LEMMA FoundedStep ==
  ASSUME Typed, Placed, ThreadFounded, Pointed, RunCycle
  PROVE  ThreadFounded'
<1>0. thread \in Threads /\ thread' \in Threads
  BY PlacedStep DEF Typed
<1>g. /\ StrategyKept => StrategyKept'
      /\ SnapshotKept => SnapshotKept'
      /\ CheckKept => CheckKept'
      /\ riskChecks # <<>> => riskChecks' # <<>>
  BY TablesStep, KeptStays
<1> USE DEF Placed, Goto, ThreadFounded
<1>1. CASE StampInitial
  BY <1>0, <1>g, <1>1 DEF StampInitial, At, Threads, ThreadSteps
<1>2. CASE Enter
  BY <1>0, <1>g, <1>2 DEF Enter, Threads, ThreadSteps
<1>3. CASE Exit
  <2>1. CASE thread.node = "MONITORING"
    <3>1. thread' = [thread EXCEPT !.at = "done"]
      BY <1>3, <2>1 DEF Exit
    <3> QED
      BY <1>0, <1>g, <2>1, <3>1 DEF Threads, ThreadSteps
  <2>2. CASE thread.node # "MONITORING"
    <3>1. thread' = [thread EXCEPT !.node = NextNode, !.at = IF Nested THEN "body" ELSE "enter"]
      BY <1>3, <2>2 DEF Exit
    <3>2. thread.at = "exit"
      BY <1>3 DEF Exit
    <3>3. /\ thread'.node = NextNode /\ thread'.at \in {"body", "enter"}
          /\ thread'.context = thread.context /\ thread'.cleared = thread.cleared
          /\ thread'.slot = thread.slot /\ thread'.selected = thread.selected
      BY <1>0, <3>1 DEF Threads
    <3> QED
      BY <1>0, <1>g, <2>2, <3>2, <3>3, NextNodeIs DEF Threads, Nodes
  <2> QED
    BY <2>1, <2>2
<1>4. CASE InitialBody
  BY <1>0, <1>g, <1>4 DEF InitialBody, At, Threads, ThreadSteps
<1>5. CASE AnalyzingBody
  <2>1. thread.slot = "primary" /\ thread.node = "ANALYZING"
    BY <1>0, <1>5 DEF AnalyzingBody, At, Threads
  <2>2. PersistSnapshot => SnapshotKept'
    <3>1. Loses("snapshot") => <<"primary", "snapshot">> \in lost'
      BY <2>1, LosesIs DEF Tables
    <3>2. SaveWithPositions => snapshots' # <<>>
      <4>1. [slot |-> thread.slot] \in SlotRows /\ snapshots \in Seq(SlotRows)
        BY <2>1 DEF SlotRows, Slots, Typed
      <4> QED
        BY <4>1, AppendIsLonger DEF SaveWithPositions
    <3> QED
      BY <3>1, <3>2 DEF PersistSnapshot, SnapshotKept
  <2> QED
    BY <1>0, <1>g, <1>5, <2>1, <2>2 DEF AnalyzingBody, At, Threads, ThreadSteps
<1>6. CASE StrategyBody
  <2>1. Loses("strategy") => StrategyKept'
    <3>1. thread.slot \in Slots
      BY <1>0 DEF Threads, Slots
    <3> QED
      BY <3>1, LosesIs DEF Tables, StrategyKept
  <2>2. thread.node = "STRATEGY_EVALUATION" /\ thread.slot # "close"
    BY <1>6 DEF StrategyBody, At
  <2>3. /\ thread'.node = thread.node /\ thread'.slot = thread.slot
        /\ thread'.context = thread.context /\ thread'.cleared = thread.cleared
        /\ \/ thread'.at = "decide"
           \/ thread'.at = "exit" /\ (thread'.selected = "none" \/ Loses("strategy"))
    BY <1>0, <1>6 DEF StrategyBody, Threads
  <2> QED
    BY <1>0, <1>g, <2>1, <2>2, <2>3 DEF Threads, ThreadSteps
<1>7. CASE SaveDecision
  <2>1. Loses("strategy") => StrategyKept'
    <3>1. thread.slot \in Slots
      BY <1>0 DEF Threads, Slots
    <3> QED
      BY <3>1, LosesIs DEF Tables, StrategyKept
  <2>2. thread.selected # "none" => hypotheses # <<>>
    <3>1. Len(Families) \in Nat /\ DOMAIN Families = 1 .. Len(Families)
      BY FamiliesAssumption, LenProperties
    <3>2. thread.selected # "none" => Len(Families) # 0
      BY <1>0, <3>1 DEF Threads, ToSet
    <3>3. thread.saved \in Nat /\ thread.saved + Len(Families) <= Len(hypotheses)
      BY <1>0, <1>7 DEF SaveDecision, At, Pointed, SavedAt, Threads
    <3> QED
      BY <3>1, <3>2, <3>3, EmptySeq
  <2>3. CreateDecision(thread.slot, thread.selected, thread.saved) /\ thread.selected # "none"
          => StrategyKept'
    <3>1. /\ thread.slot \in Slots /\ thread.saved \in Nat
          /\ thread.selected \in ToSet(Families) \cup {"none"}
      BY <1>0 DEF Threads, Slots
    <3>2. UNCHANGED hypotheses
      BY <1>7 DEF SaveDecision
    <3> QED
      BY <2>2, <3>1, <3>2, DecisionIsRow DEF StrategyKept
  <2>4. /\ thread'.node = thread.node /\ thread'.slot = thread.slot /\ thread'.at = "exit"
        /\ thread'.context = thread.context /\ thread'.cleared = thread.cleared
        /\ thread'.selected = thread.selected
        /\ thread.node = "STRATEGY_EVALUATION"
        /\ thread.slot # "close"
    BY <1>0, <1>7 DEF SaveDecision, At, Threads
  <2>5. \/ CreateDecision(thread.slot, thread.selected, thread.saved)
        \/ Loses("strategy")
    BY <1>7 DEF SaveDecision
  <2> QED
    BY <1>0, <1>g, <2>1, <2>3, <2>4, <2>5 DEF Threads, ThreadSteps
<1>8. CASE RiskBody
  <2>1. thread.slot \in Slots
    BY <1>0 DEF Threads, Slots
  <2>2. CreateCheck(thread.slot) => riskChecks' # <<>>
    BY <2>1, CheckIsRow
  <2> QED
    BY <1>0, <1>g, <1>8, <2>2 DEF RiskBody, At, Threads, ThreadSteps
<1>9. CASE ExecutionBody
  BY <1>0, <1>g, <1>9 DEF ExecutionBody, PersistOrder, Thrown, Nested, At, Threads, ThreadSteps
<1>10. CASE MonitoringBody
  BY <1>0, <1>g, <1>10 DEF MonitoringBody, BodyDone, Nested, At, Threads, ThreadSteps
<1>11. CASE Reassess
  BY <1>0, <1>g, <1>11 DEF Reassess, At, Threads, ThreadSteps
<1>12. CASE CloseGate
  <2>1. LogCloseCheck => CheckKept'
    BY CloseCheckIs
  <2>2. \/ LogCloseCheck
        \/ thread'.slot # "close"
    BY <1>0, <1>12 DEF CloseGate, At, Threads
  <2> QED
    BY <1>0, <1>g, <1>12, <2>1, <2>2 DEF CloseGate, At, Threads, ThreadSteps
<1>13. CASE CloseOrder
  BY <1>0, <1>g, <1>13 DEF CloseOrder, PersistOrder, At, Threads, ThreadSteps
<1>14. CASE RecordHedgeChange
  BY <1>0, <1>g, <1>14 DEF RecordHedgeChange, At, Threads, ThreadSteps
<1>15. CASE Reopen
  BY <1>0, <1>g, <1>15 DEF Reopen, At, Threads, ThreadSteps, Nodes
<1>16. CASE PersistMonitoring
  BY <1>0, <1>g, <1>16 DEF PersistMonitoring, At, Threads, ThreadSteps
<1> QED
  BY <1>1, <1>2, <1>3, <1>4, <1>5, <1>6, <1>7, <1>8, <1>9, <1>10, <1>11, <1>12, <1>13, <1>14,
     <1>15, <1>16, Zenon DEF RunCycle

-----------------------------------------------------------------------------

\* Hypotheses that were saved stay where they are.
LEMMA PointersStay ==
  ASSUME Typed, Longer(hypotheses, hypotheses')
  PROVE  /\ \A slot \in Slots, saved \in Nat : SavedAt(slot, saved) => SavedAt(slot, saved)'
         /\ \A d : PointsTo(d) => PointsTo(d)'
<1>1. /\ Len(hypotheses) \in Nat /\ DOMAIN hypotheses = 1 .. Len(hypotheses)
      /\ Len(Families) \in Nat
  BY FamiliesAssumption, LenProperties DEF Typed
<1>2. ASSUME NEW slot \in Slots, NEW saved \in Nat, SavedAt(slot, saved)
      PROVE  SavedAt(slot, saved)'
  <2>1. \A j \in 1 .. Len(Families) : saved + j \in DOMAIN hypotheses
    BY <1>1, <1>2 DEF SavedAt
  <2> QED
    BY <1>1, <1>2, <2>1 DEF SavedAt, Longer
<1>3. \A d : PointsTo(d) => PointsTo(d)'
  BY DEF PointsTo, Longer
<1> QED
  BY <1>2, <1>3

\* A decision made from hypotheses that are saved points to one of them.
LEMMA DecisionPoints ==
  ASSUME Typed, NEW slot \in Slots, NEW family \in ToSet(Families) \cup {"none"},
         NEW saved \in Nat, SavedAt(slot, saved),
         \A i \in DOMAIN decisions : PointsTo(decisions[i]),
         CreateDecision(slot, family, saved)
  PROVE  \A i \in DOMAIN decisions' : PointsTo(decisions'[i])
<1> DEFINE new == [slot |-> slot, family |-> family, selected |-> SelectedId(family, saved)]
<1>1. new \in DecisionRows /\ decisions \in Seq(DecisionRows)
  BY SelectedIdIs DEF DecisionRows, Typed
<1>2. PointsTo(new)
  <2>1. SUFFICES ASSUME SelectedId(family, saved) # 0
                 PROVE  /\ SelectedId(family, saved) \in DOMAIN hypotheses
                        /\ hypotheses[SelectedId(family, saved)].slot = slot
                        /\ hypotheses[SelectedId(family, saved)].family = family
    BY DEF PointsTo
  <2>2. PICK j \in 1 .. Len(Families) :
          SelectedId(family, saved) = saved + j /\ Families[j] = family
    BY <2>1, SelectedIdIs
  <2>3. /\ Len(hypotheses) \in Nat /\ DOMAIN hypotheses = 1 .. Len(hypotheses)
        /\ Len(Families) \in Nat
    BY FamiliesAssumption, LenProperties DEF Typed
  <2>4. hypotheses[saved + j] = [slot |-> slot, family |-> family]
    BY <2>2 DEF SavedAt
  <2>5. saved + j \in DOMAIN hypotheses
    BY <2>3 DEF SavedAt
  <2> QED
    BY <2>2, <2>4, <2>5
<1>3. /\ DOMAIN decisions' = DOMAIN decisions \cup {Len(decisions) + 1}
      /\ \A i \in DOMAIN decisions : decisions'[i] = decisions[i]
      /\ decisions'[Len(decisions) + 1] = new
  BY <1>1, OneMore DEF CreateDecision
<1> HIDE DEF new
<1> QED
  BY <1>2, <1>3

\* After a save of hypotheses their ids follow the count before it.
LEMMA SavedManyAt ==
  ASSUME Typed, NEW slot \in Slots, SaveMany(HypothesisRows(slot))
  PROVE  /\ hypotheses' \in Seq(HypothesisRow) /\ Longer(hypotheses, hypotheses')
         /\ Len(hypotheses) \in Nat
         /\ \A saved \in Nat : saved = Len(hypotheses) => SavedAt(slot, saved)'
<1>1. /\ HypothesisRows(slot) \in Seq(HypothesisRow) /\ hypotheses \in Seq(HypothesisRow)
      /\ Len(HypothesisRows(slot)) = Len(Families)
      /\ \A j \in 1 .. Len(Families) :
           HypothesisRows(slot)[j] = [slot |-> slot, family |-> Families[j]]
  BY HypothesisRowsAre DEF Typed
<1> QED
  BY <1>1, ConcatIsLonger, LenProperties DEF SaveMany, SavedAt

\* A step of the cycle saves a decision only at the ids its own evaluation got.
LEMMA PointedStep ==
  ASSUME Typed, Placed, Pointed, RunCycle
  PROVE  Pointed'
<1>0. thread \in Threads /\ thread' \in Threads /\ request.saved \in Nat
  BY PlacedStep DEF Typed
<1>1. Longer(hypotheses, hypotheses')
  BY TablesStep DEF Grown
<1>2. UNCHANGED request
  BY DEF RunCycle, StampInitial, Enter, Exit, InitialBody, AnalyzingBody,
    StrategyBody, SaveDecision,
    RiskBody, ExecutionBody, PersistOrder, MonitoringBody, Reassess, CloseGate, CloseOrder,
    RecordHedgeChange, Reopen, PersistMonitoring
<1>3. request'.at = "decide" => SavedAt("request", request.saved)'
  BY <1>0, <1>1, <1>2, PointersStay DEF Pointed, Slots
<1>4. \A i \in DOMAIN decisions' : PointsTo(decisions[i])'
  <2>1. CASE UNCHANGED decisions
    BY <1>1, <2>1, PointersStay DEF Pointed
  <2>2. CASE SaveDecision /\ CreateDecision(thread.slot, thread.selected, thread.saved)
    <3>1. /\ thread.slot \in Slots /\ thread.selected \in ToSet(Families) \cup {"none"}
          /\ thread.saved \in Nat
      BY <1>0 DEF Threads, Slots
    <3>2. SavedAt(thread.slot, thread.saved) /\ \A i \in DOMAIN decisions : PointsTo(decisions[i])
      BY <2>2 DEF SaveDecision, At, Pointed
    <3>3. \A i \in DOMAIN decisions' : PointsTo(decisions'[i])
      BY <2>2, <3>1, <3>2, DecisionPoints
    <3> QED
      BY <1>1, <3>3, PointersStay
  <2> QED
    BY <2>1, <2>2 DEF RunCycle, StampInitial, Enter, Exit, InitialBody, AnalyzingBody, StrategyBody,
      SaveDecision, RiskBody, ExecutionBody, PersistOrder, MonitoringBody, Reassess, CloseGate,
      CloseOrder, RecordHedgeChange, Reopen, PersistMonitoring, tables
<1>5. thread'.at = "decide" => SavedAt(thread.slot, thread.saved)'
  <2>1. CASE StrategyBody /\ thread'.at = "decide"
    <3>1. /\ SaveMany(HypothesisRows(thread.slot))
          /\ thread'.slot = thread.slot /\ thread'.saved = Len(hypotheses)
      BY <1>0, <2>1 DEF StrategyBody, Goto, Threads
    <3> QED
      BY <1>0, <3>1, SavedManyAt DEF Threads, Slots, SavedAt
  <2>2. CASE thread'.at # "decide"
    BY <2>2
  <2>3. thread'.at # "decide" \/ StrategyBody
    BY <1>0 DEF RunCycle, StampInitial, Enter, Exit, InitialBody, AnalyzingBody, SaveDecision,
      RiskBody, ExecutionBody, PersistOrder, Thrown, MonitoringBody, BodyDone, Reassess, CloseGate,
      CloseOrder, RecordHedgeChange, Reopen, PersistMonitoring, Goto, Threads
  <2> QED
    BY <2>1, <2>2, <2>3
<1> QED
  BY <1>3, <1>4, <1>5 DEF Pointed

-----------------------------------------------------------------------------

\* A second evaluation of the cycle adds hypotheses and a decision of its own.
LEMMA EvaluateStep ==
  ASSUME RecInv, EvaluateHypotheses \/ EvaluateDecision
  PROVE  RecInv' /\ Grown /\ UNCHANGED <<thread, log, snapshots, riskChecks, orders>>
<1> USE DEF RecInv
<1>1. /\ UNCHANGED <<thread, log, snapshots, riskChecks, orders, lost>>
  BY DEF EvaluateHypotheses, EvaluateDecision
<1>2. /\ Longer(snapshots, snapshots) /\ Longer(hypotheses, hypotheses)
      /\ Longer(decisions, decisions) /\ Longer(riskChecks, riskChecks) /\ Longer(orders, orders)
  BY SameIsLonger DEF Typed
<1>3. CASE EvaluateHypotheses
  <2>1. /\ SaveMany(HypothesisRows("request")) /\ "request" \in Slots
        /\ request' = [at |-> "decide", saved |-> Len(hypotheses)]
        /\ UNCHANGED decisions
    BY <1>3 DEF EvaluateHypotheses, RequestHypotheses, Slots
  <2>2. /\ hypotheses' \in Seq(HypothesisRow) /\ Longer(hypotheses, hypotheses')
        /\ Len(hypotheses) \in Nat
        /\ \A saved \in Nat : saved = Len(hypotheses) => SavedAt("request", saved)'
    BY <2>1, SavedManyAt
  <2>3. Typed' /\ Grown
    BY <1>1, <1>2, <2>1, <2>2 DEF Typed, Grown
  <2>4. Pointed'
    <3>1. thread.slot \in Slots /\ thread.saved \in Nat
      BY DEF Typed, Threads, Slots
    <3>2. thread'.at = "decide" => SavedAt(thread.slot, thread.saved)'
      BY <1>1, <2>2, <3>1, PointersStay DEF Pointed
    <3>3. SavedAt("request", request.saved)'
      BY <2>1, <2>2 DEF SavedAt
    <3>4. \A i \in DOMAIN decisions' : PointsTo(decisions[i])'
      BY <2>1, <2>2, PointersStay DEF Pointed
    <3> QED
      BY <3>2, <3>3, <3>4 DEF Pointed
  <2> QED
    BY <1>1, <2>3, <2>4, KeptStays DEF Placed, Founded, ThreadFounded, OrderFounded
<1>4. CASE EvaluateDecision
  <2>1. /\ request' = [at |-> "done", saved |-> 0]
        /\ UNCHANGED hypotheses
        /\ "request" \in Slots /\ request.saved \in Nat
        /\ SavedAt("request", request.saved)
    BY <1>4 DEF EvaluateDecision, Pointed, Typed, Slots
  <2>2. \/ UNCHANGED decisions
        \/ \E family \in ToSet(Families) : CreateDecision("request", family, request.saved)
    BY <1>4 DEF EvaluateDecision
  <2>3. decisions' \in Seq(DecisionRows) /\ Longer(decisions, decisions')
    BY <1>2, <2>1, <2>2, DecisionIsRow DEF Typed
  <2>4. Typed' /\ Grown
    BY <1>1, <1>2, <2>1, <2>3 DEF Typed, Grown
  <2>5. Pointed'
    <3>1. \A i \in DOMAIN decisions' : PointsTo(decisions'[i])
      BY <2>1, <2>2, DecisionPoints DEF Pointed
    <3>2. \A i \in DOMAIN decisions' : PointsTo(decisions[i])'
      BY <2>1, <3>1 DEF PointsTo
    <3> QED
      BY <1>1, <2>1, <3>2 DEF Pointed, SavedAt
  <2> QED
    BY <1>1, <2>4, <2>5, KeptStays DEF Placed, Founded, ThreadFounded, OrderFounded
<1> QED
  BY <1>3, <1>4

-----------------------------------------------------------------------------

\* What a part of the cycle has left behind stays left behind.
LEMMA OverStays ==
  ASSUME Typed, Placed, RunCycle
  PROVE  /\ AnalyzingOver => AnalyzingOver'
         /\ StrategyOver => StrategyOver'
         /\ RiskOver => RiskOver'
         /\ ExecutionOver => ExecutionOver'
         /\ ~MonitoringOver
<1>0. thread \in Threads /\ thread' \in Threads
  BY PlacedStep DEF Typed
<1>m. ~MonitoringOver
  BY DEF MonitoringOver, RunCycle, StampInitial, Enter, Exit, InitialBody, AnalyzingBody,
    StrategyBody, SaveDecision, RiskBody, ExecutionBody, MonitoringBody, Reassess, CloseGate,
    CloseOrder, RecordHedgeChange, Reopen, PersistMonitoring, At
<1> SUFFICES /\ AnalyzingOver => AnalyzingOver'
             /\ StrategyOver => StrategyOver'
             /\ RiskOver => RiskOver'
             /\ ExecutionOver => ExecutionOver'
  BY <1>m
<1> USE DEF AnalyzingOver, StrategyOver, RiskOver, ExecutionOver
<1>3. CASE Exit
  <2>1. /\ thread'.slot = thread.slot
        /\ thread'.node = (IF thread.node = "MONITORING" THEN thread.node ELSE NextNode)
    BY <1>0, <1>3 DEF Exit, Goto, Threads
  <2> QED
    BY <1>0, <2>1, NextNodeIs DEF Threads, Nodes, Placed
<1>9. CASE ExecutionBody
  <2>1. thread.node = "EXECUTION"
    BY <1>9 DEF ExecutionBody, At
  <2>2. \/ thread'.node = thread.node /\ thread'.slot = thread.slot
        \/ thread'.node = "MONITORING"
    BY <1>0, <1>9 DEF ExecutionBody, PersistOrder, Thrown, Goto, Threads
  <2> QED
    BY <2>1, <2>2
<1>10. CASE MonitoringBody
  <2>1. thread.node = "MONITORING" /\ thread'.node = "MONITORING"
    BY <1>0, <1>10 DEF MonitoringBody, BodyDone, At, Goto, Threads
  <2> QED
    BY <2>1
<1>14. CASE RecordHedgeChange
  <2>1. thread.node = "MONITORING" /\ thread'.node = "MONITORING"
    BY <1>0, <1>14 DEF RecordHedgeChange, At, Goto, Threads
  <2> QED
    BY <2>1
<1>12. CASE CloseGate
  <2>1. thread.node = "MONITORING" /\ thread'.node = "MONITORING"
    BY <1>0, <1>12 DEF CloseGate, At, Goto, Threads
  <2> QED
    BY <2>1
<1>15. CASE Reopen
  <2>1. thread'.slot = "reopen" /\ thread'.node = "STRATEGY_EVALUATION"
    BY <1>0, <1>15 DEF Reopen, Goto, Threads
  <2> QED
    BY <2>1
<1>17. CASE thread'.node = thread.node /\ thread'.slot = thread.slot
  BY <1>17
<1>18. \/ Exit \/ ExecutionBody \/ MonitoringBody \/ RecordHedgeChange \/ CloseGate \/ Reopen
       \/ thread'.node = thread.node /\ thread'.slot = thread.slot
  BY <1>0 DEF RunCycle, StampInitial, Enter, InitialBody, AnalyzingBody,
    StrategyBody, SaveDecision,
      RiskBody, PersistOrder, Reassess,
      CloseOrder, PersistMonitoring, Goto, Threads
<1> QED
  BY <1>3, <1>9, <1>10, <1>12, <1>14, <1>15, <1>17, <1>18

\* A row of another slot changes nothing in the rows of the primary cycle.
LEMMA OwnAppend ==
  ASSUME NEW S, NEW s \in Seq(S), NEW e \in S, e.slot # "primary"
  PROVE  Own(Append(s, e)) = Own(s)
<1>1. /\ DOMAIN Append(s, e) = DOMAIN s \cup {Len(s) + 1}
      /\ \A i \in DOMAIN s : Append(s, e)[i] = s[i]
      /\ Append(s, e)[Len(s) + 1] = e
  BY OneMore
<1> QED
  BY <1>1 DEF Own

\* Rows of another slot change nothing in the rows of the primary cycle.
LEMMA OwnConcat ==
  ASSUME NEW S, NEW s \in Seq(S), NEW t \in Seq(S), \A j \in 1 .. Len(t) : t[j].slot # "primary"
  PROVE  Own(s \o t) = Own(s)
<1>1. /\ Len(s) \in Nat /\ Len(t) \in Nat
      /\ DOMAIN s = 1 .. Len(s) /\ DOMAIN (s \o t) = 1 .. Len(s) + Len(t)
      /\ \A i \in 1 .. Len(s) + Len(t) : (s \o t)[i] =
                     IF i <= Len(s) THEN s[i] ELSE t[i - Len(s)]
  BY ConcatProperties, LenProperties
<1>2. \A i \in DOMAIN s : i \in DOMAIN (s \o t) /\ (s \o t)[i] = s[i]
  BY <1>1
<1>3. \A i \in DOMAIN (s \o t) : i \notin DOMAIN s => (s \o t)[i].slot # "primary"
  BY <1>1
<1> QED
  BY <1>2, <1>3 DEF Own

\* What a part of the cycle wrote is written when the cycle has left it.
LEMMA OwnStays ==
  ASSUME Typed, Placed, RunCycle
  PROVE  /\ AnalyzingOver => UNCHANGED snapshots
         /\ StrategyOver => UNCHANGED <<Own(hypotheses), Own(decisions)>>
         /\ RiskOver => UNCHANGED Own(riskChecks)
         /\ ExecutionOver => UNCHANGED Own(orders)
<1>0. thread \in Threads /\ thread.slot \in Slots
  BY DEF Typed, Threads, Slots
<1>1. CASE AnalyzingBody
  BY <1>1 DEF AnalyzingBody, At, AnalyzingOver, StrategyOver, RiskOver, ExecutionOver
<1>2. CASE StrategyBody
  <2>1. UNCHANGED <<snapshots, decisions, riskChecks, orders>>
    BY <1>2 DEF StrategyBody
  <2>2. ASSUME StrategyOver, SaveMany(HypothesisRows(thread.slot))
        PROVE  Own(hypotheses') = Own(hypotheses)
    <3>1. thread.slot # "primary"
      BY <1>2, <2>2 DEF StrategyBody, At, StrategyOver
    <3>2. \A j \in 1 .. Len(HypothesisRows(thread.slot)) :
            HypothesisRows(thread.slot)[j].slot # "primary"
      <4>1. /\ Len(HypothesisRows(thread.slot)) = Len(Families)
            /\ \A j \in 1 .. Len(Families) :
                 HypothesisRows(thread.slot)[j] = [slot |-> thread.slot, family |-> Families[j]]
        BY <1>0, HypothesisRowsAre
      <4>2. ASSUME NEW j \in 1 .. Len(HypothesisRows(thread.slot))
            PROVE  HypothesisRows(thread.slot)[j].slot = thread.slot
        <5>1. j \in 1 .. Len(Families)
          BY <4>1, <4>2, Zenon
        <5>2. HypothesisRows(thread.slot)[j] = [slot |-> thread.slot, family |-> Families[j]]
          BY <4>1, <5>1, Zenon
        <5> QED
          BY <5>2
      <4> QED
        BY <3>1, <4>2, Zenon
    <3>3. HypothesisRows(thread.slot) \in Seq(HypothesisRow) /\ hypotheses \in Seq(HypothesisRow)
      BY <1>0, HypothesisRowsAre DEF Typed
    <3>4. Own(hypotheses \o HypothesisRows(thread.slot)) = Own(hypotheses)
      BY <3>2, <3>3, OwnConcat
    <3> QED
      BY <2>2, <3>4, Zenon DEF SaveMany
  <2>3. UNCHANGED hypotheses \/ SaveMany(HypothesisRows(thread.slot))
    BY <1>2 DEF StrategyBody
  <2>4. StrategyOver => Own(hypotheses') = Own(hypotheses)
    BY <2>2, <2>3
  <2> QED
    BY <2>1, <2>4 DEF Own
<1>3. CASE SaveDecision
  <2>1. UNCHANGED <<snapshots, hypotheses, riskChecks, orders>>
    BY <1>3 DEF SaveDecision
  <2>2. ASSUME StrategyOver, CreateDecision(thread.slot, thread.selected, thread.saved)
        PROVE  Own(decisions') = Own(decisions)
    <3>1. thread.slot # "primary"
      BY <1>3, <2>2 DEF SaveDecision, At, StrategyOver
    <3> DEFINE new == [slot |-> thread.slot, family |-> thread.selected,
                       selected |-> SelectedId(thread.selected, thread.saved)]
    <3>2. new \in DecisionRows /\ new.slot # "primary" /\ decisions \in Seq(DecisionRows)
      BY <1>0, <3>1, SelectedIdIs DEF DecisionRows, Typed, Threads
    <3>3. decisions' = Append(decisions, new)
      BY <2>2 DEF CreateDecision
    <3> HIDE DEF new
    <3> QED
      BY <3>2, <3>3, OwnAppend
  <2>3. UNCHANGED decisions \/ CreateDecision(thread.slot, thread.selected, thread.saved)
    BY <1>3 DEF SaveDecision
  <2>4. StrategyOver => Own(decisions') = Own(decisions)
    BY <2>2, <2>3
  <2> QED
    BY <2>1, <2>4 DEF Own
<1>4. CASE RiskBody \/ CloseGate
  <2>1. UNCHANGED <<snapshots, hypotheses, decisions, orders>>
    BY <1>4 DEF RiskBody, CloseGate
  <2>2. ASSUME NEW slot \in Slots, slot # "primary", CreateCheck(slot)
        PROVE  Own(riskChecks') = Own(riskChecks)
    <3>1. /\ [slot |-> slot] \in SlotRows /\ [slot |-> slot].slot # "primary"
          /\ riskChecks \in Seq(SlotRows)
      BY <2>2 DEF SlotRows, Typed
    <3> QED
      BY <2>2, <3>1, OwnAppend DEF CreateCheck
  <2>3. RiskOver => \/ UNCHANGED riskChecks
                    \/ \E slot \in Slots : slot # "primary" /\ CreateCheck(slot)
    BY <1>0, <1>4 DEF RiskBody, CloseGate, LogCloseCheck, At, RiskOver, Slots
  <2>4. RiskOver => Own(riskChecks') = Own(riskChecks)
    BY <2>2, <2>3
  <2> QED
    BY <2>1, <2>4 DEF Own
<1>5. CASE ExecutionBody \/ CloseOrder
  <2>1. UNCHANGED <<snapshots, hypotheses, decisions, riskChecks>>
    BY <1>5 DEF ExecutionBody, CloseOrder, PersistOrder
  <2>2. \/ UNCHANGED orders
        \/ \E o \in OrderRows : o.slot = thread.slot /\ orders' = Append(orders, o)
    BY <1>5, OrdersTables
  <2>3. ExecutionOver => thread.slot # "primary"
    BY <1>5 DEF ExecutionBody, CloseOrder, At, ExecutionOver, Placed
  <2>4. ExecutionOver => Own(orders') = Own(orders)
    <3>1. orders \in Seq(OrderRows)
      BY DEF Typed
    <3>2. \A o \in OrderRows : o.slot # "primary" => Own(Append(orders, o)) = Own(orders)
      BY <3>1, OwnAppend
    <3>3. ASSUME NEW o \in OrderRows, o.slot # "primary", orders' = Append(orders, o)
          PROVE  Own(orders') = Own(orders)
      BY <3>2, <3>3, Zenon
    <3> QED
      BY <2>2, <2>3, <3>3
  <2> QED
    BY <2>1, <2>4 DEF Own
<1>6. CASE UNCHANGED <<snapshots, hypotheses, decisions, riskChecks, orders>>
  BY <1>6 DEF Own
<1>7. \/ AnalyzingBody \/ StrategyBody \/ SaveDecision \/ RiskBody \/ CloseGate \/ ExecutionBody
      \/ CloseOrder
      \/ UNCHANGED <<snapshots, hypotheses, decisions, riskChecks, orders>>
  BY DEF RunCycle, StampInitial, Enter, Exit, InitialBody, MonitoringBody, Reassess,
    RecordHedgeChange, Reopen, PersistMonitoring, tables
<1> QED
  BY <1>1, <1>2, <1>3, <1>4, <1>5, <1>6, <1>7

-----------------------------------------------------------------------------

\* The end of a node is logged when the cycle leaves it.
LEMMA EndedStep ==
  ASSUME Typed, Placed, log \in Seq(Rows), Ended, RunCycle
  PROVE  Ended'
<1>0. thread \in Threads /\ thread' \in Threads
  BY PlacedStep DEF Typed
<1>1. ASSUME NEW node, Over(node)
      PROVE  Over(node)'
  BY <1>1, OverStays DEF Over
<1>2. \/ log' = log
      \/ \E node \in Nodes, phase \in {"none", "ENTER"} : log' = Append(log, RowOf(node, phase))
      \/ Exit /\ ~Nested /\ log' = Append(log, RowOf(thread.node, "EXIT"))
  <2>1. CASE StampInitial \/ Enter
    BY <1>0, <2>1 DEF StampInitial, Enter, Record, SetState, Nodes, Threads
  <2>2. CASE Exit
    BY <2>2 DEF Exit, Record, SetState
  <2>3. CASE log' = log
    BY <2>3
  <2> QED
    BY <2>1, <2>2, <2>3 DEF RunCycle, InitialBody, AnalyzingBody,
    StrategyBody, SaveDecision,
      RiskBody, ExecutionBody, PersistOrder, MonitoringBody, Reassess, CloseGate, CloseOrder,
      RecordHedgeChange, Reopen, PersistMonitoring
<1>3. ASSUME NEW node, node = thread.node, Exit, ~Nested
      PROVE  Over(node)'
  <2>1. thread.slot = "primary" /\ thread.at = "exit"
    BY <1>0, <1>3 DEF Exit, Nested, Placed, Threads
  <2>2. CASE node = "MONITORING"
    <3>1. thread' = [thread EXCEPT !.at = "done"]
      BY <1>3, <2>2 DEF Exit, Goto
    <3>2. thread'.node = "MONITORING" /\ thread'.at = "done"
      BY <1>0, <1>3, <2>2, <3>1 DEF Threads
    <3> QED
      BY <2>2, <3>2 DEF Over, MonitoringOver, ExecutionOver, RiskOver, StrategyOver, AnalyzingOver
  <2>3. CASE node # "MONITORING"
    <3>1. thread'.node = NextNode
      BY <1>0, <1>3, <2>3 DEF Exit, Goto, Threads
    <3> QED
      BY <1>0, <1>3, <2>1, <2>3, <3>1, NextNodeIs DEF Over, ExecutionOver, RiskOver, StrategyOver,
         AnalyzingOver, Threads, Nodes
  <2> QED
    BY <2>2, <2>3
<1>4. ASSUME NEW row \in Rows, log' = Append(log, row), row.phase = "EXIT" => Over(row.node)'
      PROVE  Ended'
  <2>1. /\ DOMAIN log' = DOMAIN log \cup {Len(log) + 1}
        /\ \A i \in DOMAIN log : log'[i] = log[i]
        /\ log'[Len(log) + 1] = row
    BY <1>4, OneMore
  <2> QED
    BY <1>1, <1>4, <2>1 DEF Ended
<1>5. CASE log' = log
  BY <1>1, <1>5 DEF Ended
<1>6. ASSUME NEW node \in Nodes, NEW phase \in {"none", "ENTER"},
             log' = Append(log, RowOf(node, phase))
      PROVE  Ended'
  <2>1. RowOf(node, phase) \in Rows /\ RowOf(node, phase).phase # "EXIT"
    BY <1>6 DEF RowOf, Rows
  <2> QED
    BY <1>4, <1>6, <2>1
<1>7. ASSUME NEW node, node = thread.node, Exit, ~Nested, log' = Append(log, RowOf(node, "EXIT"))
      PROVE  Ended'
  <2>1. RowOf(node, "EXIT") \in Rows /\ RowOf(node, "EXIT").node = node
    BY <1>0, <1>7 DEF RowOf, Rows, Threads
  <2>2. Over(node)'
    BY <1>3, <1>7
  <2> QED
    BY <1>4, <1>7, <2>1, <2>2
<1> QED
  BY <1>2, <1>5, <1>6, <1>7

-----------------------------------------------------------------------------

\* The sequence the filled legs are stored in lists each of them.
LEMMA SetToSeqLists ==
  ASSUME NEW S, IsFiniteSet(S)
  PROVE  ToSet(SetToSeq(S)) = S
<1> DEFINE n == Cardinality(S)
           f == SetToSeq(S)
<1>1. n \in Nat /\ ExistsBijection(1 .. n, S)
  BY FS_CardinalityType
<1>2. PICK g \in Bijection(1 .. n, S) : TRUE
  BY <1>1, Fun_ExistsBij
<1>3. g \in [1 .. n -> S] /\ IsInjective(g)
  <2>1. g \in [1 .. n -> S] /\ \A a, b \in 1 .. n : g[a] = g[b] => a = b
    BY <1>2, Fun_BijectionProperties
  <2> QED
    BY <2>1 DEF IsInjective
<1>4. f \in [1 .. n -> S] /\ IsInjective(f)
  BY <1>3 DEF SetToSeq
<1>5. f \in Injection(1 .. n, S)
  BY <1>4 DEF Injection
<1>6. Cardinality(1 .. n) = n
  BY <1>1, FS_Interval
<1>7. f \in Surjection(1 .. n, S)
  BY <1>5, <1>6, FS_Injection
<1> HIDE DEF f, n
<1>8. f \in [1 .. n -> S] /\ \A t \in S : \E s \in 1 .. n : f[s] = t
  BY <1>7 DEF Surjection
<1>9. ToSet(f) = S
  BY <1>8 DEF ToSet
<1> QED
  BY <1>9 DEF f

\* The fills stored with an order are those persisted of its live answer.
LEMMA FillsForIs ==
  ASSUME Typed, NEW order \in DOMAIN orders
  PROVE  FillsFor(order) = PersistedFills(orders[order].live)
<1>1. orders[order] \in OrderRows
  BY LenProperties, ElementOfSeq DEF Typed
<1>2. /\ orders[order].live \in BrokerCases
      /\ orders[order].fills = SetToSeq(PersistedFills(orders[order].live))
  BY <1>1 DEF OrderRows
<1>3. IsFiniteSet(PersistedFills(orders[order].live))
  <2>1. PersistedFills(orders[order].live) \subseteq DOMAIN orders[order].live.fills
    BY DEF PersistedFills, FilledLegs
  <2> QED
    BY <1>2, <2>1, BrokerCasesAssumption, FS_Subset
<1> QED
  BY <1>2, <1>3, SetToSeqLists DEF FillsFor

\* What the answer of GET /execution is mapped back to.
LEMMA AnswerIsPersisted ==
  ASSUME Typed, NEW order \in DOMAIN orders
  PROVE  /\ ExecutionStatusOf(orders[order].status) = Persisted(orders[order].live)
         /\ Persisted(orders[order].live) \in ExecutionStatuses
<1>1. orders[order] \in OrderRows
  BY LenProperties, ElementOfSeq DEF Typed
<1>2. Persisted(orders[order].live) \in ExecutionStatuses
  BY <1>1, PersistedIs DEF OrderRows
<1>3. orders[order].status = OrderRowStatus(Persisted(orders[order].live))
  BY <1>1 DEF OrderRows
<1> QED
  BY <1>2, <1>3 DEF ExecutionStatusOf, OrderRowStatus, ExecutionStatuses

\* What a request has read stays true while the cycle goes on writing.
LEMMA ReadStays ==
  ASSUME RecInv, RdInv, RecInv', Grown, Longer(log, log'), UNCHANGED reader
  PROVE  RdInv'
<1>1. /\ Len(decisions) \in Nat /\ Len(decisions') \in Nat
      /\ DOMAIN decisions = 1 .. Len(decisions)
  BY LenProperties DEF RecInv, Typed
<1>2. ExecutionRead'
  BY DEF RdInv, ExecutionRead, Grown, Longer
<1>3. StateRead'
  BY DEF RdInv, StateRead, Longer
<1>4. TrailRead'
  <2>1. SUFFICES ASSUME reader.at \in {"hypotheses", "context", "trail"}
                 PROVE  TrailRead'
    BY DEF TrailRead
  <2>2. /\ reader.order \in DOMAIN orders' /\ orders'[reader.order] = orders[reader.order]
        /\ reader.decision \in 0 .. Len(decisions')
        /\ reader.decision # 0 => decisions'[reader.decision] = decisions[reader.decision]
        /\ lost \subseteq lost'
    BY <1>1, <2>1 DEF RdInv, TrailRead, Grown, Longer
  <2> QED
    BY <2>1, <2>2 DEF RdInv, TrailRead
<1> QED
  BY <1>2, <1>3, <1>4 DEF RdInv

\* Every query leaves what the request knows true.
LEMMA ReadStep ==
  ASSUME RecInv, log \in Seq(Rows), RdInv, ReadCycle \/ ReadRecords
  PROVE  RdInv'
<1>0. /\ UNCHANGED <<snapshots, hypotheses, decisions, riskChecks, orders, log, lost>>
      /\ reader \in Readers
  BY DEF ReadCycle, ReadRecords, CycleState, CycleHistory, TrailOrder, TrailDecision,
         TrailHypotheses, TrailContext, ExecutionOrder, ExecutionFills, Read, records, tables, RdInv
<1>t. Typed
  BY DEF RecInv
<1>l. /\ Len(log) \in Nat /\ DOMAIN log = 1 .. Len(log)
      /\ Len(decisions) \in Nat /\ DOMAIN decisions = 1 .. Len(decisions)
      /\ Len(hypotheses) \in Nat /\ DOMAIN hypotheses = 1 .. Len(hypotheses)
      /\ Len(orders) \in Nat /\ DOMAIN orders = 1 .. Len(orders)
      /\ Len(riskChecks) \in Nat /\ (Len(riskChecks) = 0 <=> riskChecks = <<>>)
      /\ Len(snapshots) \in Nat /\ (Len(snapshots) = 0 <=> snapshots = <<>>)
      /\ (Len(decisions) = 0 <=> decisions = <<>>)
      /\ (Len(hypotheses) = 0 <=> hypotheses = <<>>)
      /\ (Len(orders) = 0 <=> orders = <<>>)
      /\ (Len(log) = 0 <=> log = <<>>)
  BY <1>t, LenProperties, EmptySeq DEF Typed
<1>1. CASE CycleState
  <2>1. reader' = [reader EXCEPT !.at = "history", !.state = Len(log)] /\ log # <<>>
    BY <1>1 DEF CycleState, GetState, Read
  <2>2. reader' \in Readers /\ reader'.at = "history" /\ reader'.state = Len(log)
    BY <1>0, <1>l, <2>1 DEF Readers
  <2>3. Len(log) \in DOMAIN log'
    BY <1>0, <1>l, <2>1
  <2> QED
    BY <2>2, <2>3 DEF RdInv, TrailRead, ExecutionRead, StateRead
<1>2. CASE CycleHistory
  <2>1. /\ reader.at = "history"
        /\ reader' = [reader EXCEPT !.at = "cycle state", !.listed = DOMAIN log]
    BY <1>2 DEF CycleHistory, GetTransitions, Read
  <2>2. /\ reader' \in Readers /\ reader'.at = "cycle state"
        /\ reader'.listed = DOMAIN log /\ reader'.state = reader.state
    <3>1. DOMAIN log \in SUBSET Nat
      BY <1>l
    <3> QED
      BY <1>0, <2>1, <3>1 DEF Readers
  <2>3. reader.state \in DOMAIN log
    BY <2>1 DEF RdInv, StateRead
  <2> QED
    BY <2>2, <2>3 DEF RdInv, TrailRead, ExecutionRead, StateRead
<1>3. CASE ExecutionOrder
  <2> DEFINE answer == ExecutionStatusOf(orders[Len(orders)].status)
  <2>1. /\ Len(orders) \in DOMAIN orders
        /\ answer = Persisted(orders[Len(orders)].live)
        /\ answer \in ExecutionStatuses /\ answer # "none"
    BY <1>3, <1>l, <1>t, AnswerIsPersisted DEF ExecutionOrder, ExecutionStatuses
  <2>2. reader' = [reader EXCEPT !.at = "fills", !.order = Len(orders), !.answer = answer]
    BY <1>3, <2>1 DEF ExecutionOrder, Read
  <2> HIDE DEF answer
  <2> QED
    BY <1>0, <1>l, <2>1, <2>2 DEF RdInv, TrailRead, ExecutionRead, StateRead, Readers
<1>4. CASE ExecutionFills
  <2>1. /\ reader.at = "fills" /\ reader.order \in DOMAIN orders
        /\ reader.answer = Persisted(orders[reader.order].live)
    BY <1>4 DEF ExecutionFills, RdInv, ExecutionRead
  <2>2. /\ FillsFor(reader.order) = PersistedFills(orders[reader.order].live)
        /\ FillsFor(reader.order) \in SUBSET Legs
    <3>1. orders[reader.order].live \in BrokerCases
      BY <1>t, <2>1, LenProperties, ElementOfSeq DEF Typed, OrderRows
    <3> QED
      BY <1>t, <2>1, <3>1, FillsForIs DEF PersistedFills, FilledLegs, Legs
  <2>3. reader' = [reader EXCEPT !.at = "execution", !.filled = FillsFor(reader.order),
                      !.unfilled = IF reader.answer = "PARTIALLY_FILLED" THEN {0} ELSE {}]
    BY <1>4 DEF ExecutionFills, Read
  <2> QED
    BY <1>0, <2>1, <2>2, <2>3 DEF RdInv, TrailRead, ExecutionRead, StateRead, Readers
<1>5. CASE TrailOrder
  <2>1. PICK order \in DOMAIN orders : TrailDecision(order)
    BY <1>5 DEF TrailOrder
  <2>2. /\ riskChecks = <<>> => orders[order].slot = "close" /\ <<"close", "check">> \in lost
        /\ orders[order].slot # "close" => StrategyKept /\ SnapshotKept
    BY DEF RecInv, Founded, OrderFounded, CheckKept
  <2>3. /\ reader' = [reader EXCEPT !.at = "hypotheses", !.order = order,
                       !.decision = Len(decisions),
                       !.missing = {l \in {"risk_approval"} : Len(riskChecks) = 0} \cup
                                   {l \in {"strategy_decision"} : Len(decisions) = 0}]
        /\ order \in Nat
    BY <2>1, <1>l DEF TrailDecision, Read, LatestDecision, LatestApproval
  <2>4. /\ reader' \in Readers /\ reader'.at = "hypotheses" /\ reader'.order = order
        /\ reader'.decision = Len(decisions)
        /\ reader'.missing = {l \in {"risk_approval"} : Len(riskChecks) = 0} \cup
                              {l \in {"strategy_decision"} : Len(decisions) = 0}
    BY <1>0, <1>l, <2>3 DEF Readers, Links
  <2>5. /\ "risk_approval" \in reader'.missing => riskChecks = <<>>
        /\ "strategy_decision" \in reader'.missing => decisions = <<>>
        /\ "hypotheses" \notin reader'.missing /\ "analysis_context" \notin reader'.missing
    BY <1>l, <2>4
  <2>6. decisions = <<>> /\ orders[order].slot # "close" =>
          \E s \in Slots : <<s, "strategy">> \in lost
    BY <2>2 DEF StrategyKept
  <2>7. order \in DOMAIN orders' /\ Len(decisions) \in 0 .. Len(decisions')
    BY <1>0, <1>l
  <2>8. TrailRead'
    BY <1>0, <2>2, <2>4, <2>5, <2>6, <2>7 DEF TrailRead
  <2> QED
    BY <2>4, <2>8 DEF RdInv, ExecutionRead, StateRead
<1>6. CASE TrailHypotheses
  <2>1. /\ reader.at = "hypotheses"
        /\ reader' = [reader EXCEPT !.at = "context", !.listed = DOMAIN hypotheses,
             !.missing = reader.missing \cup {l \in {"hypotheses"} : DOMAIN hypotheses = {}}]
    BY <1>6 DEF TrailHypotheses, Read, ListHypotheses, Missing
  <2>2. /\ reader.order \in DOMAIN orders
        /\ orders[reader.order].slot # "close" => StrategyKept
    BY <2>1 DEF RecInv, Founded, ThreadFounded, OrderFounded, RdInv, TrailRead
  <2>3. reader.decision # 0 /\ decisions[reader.decision].selected # 0 =>
          decisions[reader.decision].selected \in DOMAIN hypotheses
    BY <1>l, <2>1 DEF RecInv, Pointed, PointsTo, RdInv, TrailRead
  <2>4. DOMAIN hypotheses = {} => hypotheses = <<>>
    BY <1>l
  <2>5. /\ reader' \in Readers /\ reader'.at = "context" /\ reader'.order = reader.order
        /\ reader'.decision = reader.decision /\ reader'.listed = DOMAIN hypotheses
        /\ reader'.missing = reader.missing \cup {l \in {"hypotheses"} : DOMAIN hypotheses = {}}
    <3>1. DOMAIN hypotheses \in SUBSET Nat
      BY <1>l
    <3> QED
      BY <1>0, <2>1, <3>1 DEF Readers, Links
  <2> QED
    BY <1>0, <1>l, <2>1, <2>2, <2>3, <2>4, <2>5 DEF RdInv, TrailRead, ExecutionRead, StateRead,
       StrategyKept
<1>7. CASE TrailContext
  <2>1. /\ reader.at = "context"
        /\ reader' = [reader EXCEPT !.at = "trail",
             !.missing = (reader.missing \cup
                            {l \in {"analysis_context"} : Len(snapshots) = 0}) \cup
                         {l \in {"trigger"} : ListEvents \cup ListReassessments = {}}]
    BY <1>7 DEF TrailContext, Read, LatestSnapshot, Missing
  <2>2. /\ reader.order \in DOMAIN orders
        /\ orders[reader.order].slot # "close" => SnapshotKept
    BY <2>1 DEF RecInv, Founded, ThreadFounded, OrderFounded, RdInv, TrailRead
  <2>3. /\ reader' \in Readers /\ reader'.at = "trail" /\ reader'.order = reader.order
        /\ reader'.decision = reader.decision /\ reader'.listed = reader.listed
        /\ reader'.missing \subseteq reader.missing \cup {"analysis_context", "trigger"}
        /\ "analysis_context" \in reader'.missing =>
             "analysis_context" \in reader.missing \/ snapshots = <<>>
    BY <1>0, <1>l, <2>1 DEF Readers, Links
  <2> QED
    BY <1>0, <1>l, <2>1, <2>2, <2>3 DEF RdInv, TrailRead, ExecutionRead, StateRead,
       SnapshotKept
<1> QED
  BY <1>1, <1>2, <1>3, <1>4, <1>5, <1>6, <1>7 DEF ReadCycle, ReadRecords

-----------------------------------------------------------------------------

\* The invariant holds at the start.
LEMMA RecInit == Init => RecInv /\ Ended /\ Alone /\ RdInv
<1> SUFFICES ASSUME Init
             PROVE  RecInv /\ Ended /\ Alone /\ RdInv
  OBVIOUS
<1>1. Typed
  BY EmptySeq DEF Init, RecordsInit, Typed, Threads, ThreadSteps, Nodes
<1>2. Placed /\ Founded
  BY DEF Init, RecordsInit, Placed, Founded, ThreadFounded, OrderFounded
<1>3. Pointed /\ Ended
  BY DEF Init, RecordsInit, Pointed, Ended
<1>4. Alone
  BY DEF Init, StreamInit, Alone
<1>5. RdInv
  BY DEF Init, ReaderInit, NoRead, RdInv, Readers, TrailRead, ExecutionRead, StateRead
<1> QED
  BY <1>1, <1>2, <1>3, <1>4, <1>5 DEF RecInv

\* What the cycle, or a second evaluation beside it, writes keeps the invariant.
LEMMA WriteKeeps ==
  ASSUME AllInv, Write
  PROVE  RecInv' /\ Grown /\ Ended' /\ Alone' /\ RdInv'
<1>0. Typed /\ Placed /\ Founded /\ Pointed /\ log \in Seq(Rows)
  BY DEF AllInv, RecInv, RInv, Logged
<1>1. CASE RunCycle
  <2>1. RecInv' /\ Grown
    <3>1. Typed' /\ Grown /\ Placed'
      BY <1>0, <1>1, PlacedStep, TablesStep
    <3>2. ThreadFounded'
      BY <1>0, <1>1, FoundedStep DEF Founded, ThreadFounded, OrderFounded
    <3>3. \A i \in DOMAIN orders' : OrderFounded(orders[i])'
      BY <1>0, <1>1, OrdersFoundedStep
    <3>4. Founded'
      BY <3>2, <3>3 DEF Founded, ThreadFounded, OrderFounded
    <3>5. Pointed'
      BY <1>0, <1>1, PointedStep
    <3> QED
      BY <3>1, <3>4, <3>5 DEF RecInv
  <2>2. Ended'
    BY <1>0, <1>1, EndedStep DEF AllInv
  <2>3. Alone'
    BY <1>1 DEF AllInv, Alone, Write, streaming, RunCycle, StampInitial, Enter, Exit, InitialBody,
      AnalyzingBody, StrategyBody, SaveDecision, RiskBody, ExecutionBody, PersistOrder,
      MonitoringBody, Reassess, CloseGate, CloseOrder, RecordHedgeChange, Reopen, PersistMonitoring
  <2>4. Longer(log, log')
    <3>1. Grows
      BY <1>1, CycleGrows DEF AllInv, RInv
    <3> QED
      BY <1>0, <3>1, SameIsLonger, AppendIsLonger DEF Grows
  <2> QED
    BY <2>1, <2>2, <2>3, <2>4, ReadStays DEF AllInv, Write
<1>2. CASE (Quiet /\ EvaluateHypotheses) \/ EvaluateDecision
  <2>1. RecInv' /\ Grown /\ UNCHANGED <<thread, log>>
    BY <1>2, EvaluateStep DEF AllInv
  <2>2. Ended'
    BY <2>1 DEF AllInv, Ended, Over, MonitoringOver, ExecutionOver, RiskOver, StrategyOver,
           AnalyzingOver
  <2>3. Alone'
    BY <1>2 DEF AllInv, Alone, Write, streaming, Quiet, EvaluateHypotheses, EvaluateDecision
  <2>4. Longer(log, log')
    BY <1>0, <2>1, SameIsLonger
  <2> QED
    BY <2>1, <2>2, <2>3, <2>4, ReadStays DEF AllInv, Write
<1> QED
  BY <1>1, <1>2 DEF Write

\* A step that leaves the records alone leaves what is known of them.
LEMMA RecordsStay ==
  ASSUME RecInv, Ended,
         UNCHANGED <<thread, request, log, snapshots, hypotheses, decisions, riskChecks, orders,
                     lost>>
  PROVE  RecInv' /\ Ended'
<1>1. Typed' /\ Placed'
  BY DEF RecInv, Typed, Placed
<1>2. Founded'
  BY DEF RecInv, Founded, ThreadFounded, OrderFounded, StrategyKept, SnapshotKept, CheckKept
<1>3. Pointed'
  BY DEF RecInv, Pointed, PointsTo, SavedAt
<1>4. Ended'
  BY DEF Ended, Over, MonitoringOver, ExecutionOver, RiskOver, StrategyOver, AnalyzingOver
<1> QED
  BY <1>1, <1>2, <1>3, <1>4 DEF RecInv

\* What a client asks for changes no row.
LEMMA AskKeeps ==
  ASSUME AllInv, Ask
  PROVE  UNCHANGED records /\ RecInv' /\ Ended' /\ Alone' /\ RdInv'
<1>1. UNCHANGED records
  BY DEF Ask, Follow, Connect, ConnectFails, Resolve, GiveUp, Poll, ReadCycle, ReadRecords, CycleState,
         CycleHistory, TrailOrder, TrailDecision, TrailHypotheses, TrailContext, ExecutionOrder,
         ExecutionFills, Read
<1>2. /\ UNCHANGED <<thread, request, log, snapshots, hypotheses, decisions, riskChecks, orders,
                     lost>>
  BY <1>1 DEF records, tables
<1>3. RecInv' /\ Ended'
  BY <1>2, RecordsStay DEF AllInv
<1>4. Alone'
  BY <1>2 DEF AllInv, Alone, Ask, streaming
<1>5. RdInv'
  <2>1. CASE ReadCycle \/ ReadRecords
    BY <2>1, ReadStep DEF AllInv, RInv, Logged
  <2>2. CASE UNCHANGED reader
    BY <1>2, <2>2 DEF AllInv, RdInv, TrailRead, ExecutionRead, StateRead
  <2> QED
    BY <2>1, <2>2 DEF Ask
<1> QED
  BY <1>1, <1>3, <1>4, <1>5

\* The invariant is inductive.
LEMMA AllStep == AllInv /\ [Next]_vars => AllInv'
<1> SUFFICES ASSUME AllInv, [Next]_vars
             PROVE  AllInv'
  OBVIOUS
<1>1. RInv'
  BY FollowerStep DEF AllInv
<1>2. CASE Write
  BY <1>1, <1>2, WriteKeeps DEF AllInv
<1>3. CASE Ask
  BY <1>1, <1>3, AskKeeps DEF AllInv
<1>4. CASE UNCHANGED vars
  <2>1. /\ UNCHANGED <<thread, request, log, snapshots, hypotheses, decisions, riskChecks, orders,
                     lost, stream, reader>>
    BY <1>4 DEF vars, records, tables, streaming
  <2>2. RecInv' /\ Ended'
    BY <2>1, RecordsStay DEF AllInv
  <2>3. Alone' /\ RdInv'
    BY <2>1 DEF AllInv, Alone, RdInv, TrailRead, ExecutionRead, StateRead
  <2> QED
    BY <1>1, <2>2, <2>3 DEF AllInv
<1> QED
  BY <1>2, <1>3, <1>4 DEF Next

\* GET /execution answers with the status and the legs of the live result, with FAILED and
\* none where the broker's answer gave no result, and only before there is an order with
\* 404: for any broker answers and any lost rows.
THEOREM ExecutionReported == Spec => []ExecutionIsReported
<1>1. AllInv => ExecutionIsReported
  <2> SUFFICES ASSUME AllInv
               PROVE  ExecutionIsReported
    OBVIOUS
  <2>1. ExecutionRead
    BY DEF AllInv, RdInv
  <2> QED
    BY <2>1 DEF ExecutionRead, ExecutionIsReported, Persisted, PersistedFills
<1>2. Init => AllInv
  BY FollowerInit, RecInit DEF AllInv
<1> QED
  BY <1>1, <1>2, AllStep, PTL DEF Spec

\* A trail misses the approval of its order only for a close whose check was lost; what else
\* it misses of a selected trade was lost to a failing write, whatever is written between its
\* queries.
THEOREM TradeReasoned == Spec => []TradeHasItsReasons
<1>1. AllInv => TradeHasItsReasons
  BY DEF AllInv, RdInv, TrailRead, TradeHasItsReasons
<1>2. Init => AllInv
  BY FollowerInit, RecInit DEF AllInv
<1> QED
  BY <1>1, <1>2, AllStep, PTL DEF Spec

\* What an answer points at, it lists: the decision of a trail its own hypothesis, the state
\* of a cycle its row, whatever is written between the queries.
THEOREM AnswersPoint == Spec => []PointsAtWhatItLists
<1>1. AllInv => PointsAtWhatItLists
  <2> SUFFICES ASSUME AllInv
               PROVE  PointsAtWhatItLists
    OBVIOUS
  <2>1. Typed /\ Pointed /\ TrailRead /\ StateRead
    BY DEF AllInv, RecInv, RdInv
  <2>2. Len(decisions) \in Nat /\ DOMAIN decisions = 1 .. Len(decisions)
    BY <2>1, LenProperties DEF Typed
  <2> DEFINE d == decisions[reader.decision]
  <2>3. ASSUME reader.at = "trail", reader.decision # 0, d.selected # 0
        PROVE  /\ d.selected \in reader.listed
               /\ hypotheses[d.selected].slot = d.slot
               /\ hypotheses[d.selected].family = d.family
    <3>1. reader.decision \in DOMAIN decisions /\ d.selected \in reader.listed
      BY <2>1, <2>2, <2>3 DEF TrailRead
    <3>2. PointsTo(d)
      BY <2>1, <3>1 DEF Pointed
    <3> QED
      BY <2>3, <3>1, <3>2 DEF PointsTo
  <2>4. reader.at = "cycle state" => reader.state \in reader.listed
    BY <2>1 DEF StateRead
  <2> QED
    BY <2>3, <2>4, Zenon DEF PointsAtWhatItLists
<1>2. Init => AllInv
  BY FollowerInit, RecInit DEF AllInv
<1> QED
  BY <1>1, <1>2, AllStep, PTL DEF Spec

\* The end of a node reaches a client only when the cycle has left the node.
LEMMA AnnouncedIsOver ==
  ASSUME AllInv, stream.cycle = "this", NEW node, Announced(node)
  PROVE  Over(node)
<1>1. PICK i \in DOMAIN delivered : delivered[i] = RowOf(node, "EXIT")
  BY DEF Announced
<1>2. Followed = log /\ log \in Seq(Rows)
  BY DEF Followed, LogOf, AllInv, RInv, Logged
<1>3. /\ stream.lastId \in Nat /\ stream.lastId <= Len(log)
      /\ delivered = SubSeq(log, 1, stream.lastId)
  BY <1>2 DEF AllInv, RInv, Sent
<1>4. /\ Len(log) \in Nat /\ DOMAIN log = 1 .. Len(log)
      /\ \A j \in 1 .. stream.lastId : log[j] \in Rows
  BY <1>2, <1>3, LenProperties, ElementOfSeq
<1>5. /\ DOMAIN delivered = 1 .. stream.lastId
      /\ \A j \in 1 .. stream.lastId : delivered[j] = log[j]
  <2>1. /\ SubSeq(log, 1, stream.lastId) \in Seq(Rows)
        /\ Len(SubSeq(log, 1, stream.lastId)) =
             IF 1 <= stream.lastId THEN stream.lastId - 1 + 1 ELSE 0
        /\ \A j \in 1 .. stream.lastId - 1 + 1 : SubSeq(log, 1, stream.lastId)[j] = log[1 + j - 1]
    BY <1>3, <1>4, SubSeqProperties
  <2> QED
    BY <1>3, <2>1, LenProperties
<1>6. i \in DOMAIN log /\ log[i] = RowOf(node, "EXIT")
  BY <1>1, <1>3, <1>4, <1>5
<1>7. log[i].phase = "EXIT" /\ log[i].node = node
  BY <1>6 DEF RowOf
<1> QED
  BY <1>6, <1>7 DEF AllInv, Ended

\* When the stream has announced the end of a node, what the node writes does not change
\* any more: for any families, broker answers, lost rows and earlier logs.
THEOREM AnnouncedFinal == Spec => AnnouncedIsFinal
<1> DEFINE Final ==
       stream.cycle = "this" =>
         /\ Announced("ANALYZING") => UNCHANGED snapshots
         /\ Announced("STRATEGY_EVALUATION") =>
              UNCHANGED <<Own(hypotheses), Own(decisions)>>
         /\ Announced("RISK_CHECK") => UNCHANGED Own(riskChecks)
         /\ Announced("EXECUTION") => UNCHANGED Own(orders)
         /\ Announced("MONITORING") => UNCHANGED tables
<1>1. AllInv /\ [Next]_vars => [Final]_vars
  <2> SUFFICES ASSUME AllInv, Next, stream.cycle = "this"
               PROVE  Final
    OBVIOUS
  <2>1. CASE Ask
    <3>1. UNCHANGED <<snapshots, hypotheses, decisions, riskChecks, orders, tables>>
      BY <2>1, AskKeeps DEF records, tables
    <3> QED
      BY <3>1 DEF Own
  <2>2. CASE Write
    <3>1. RunCycle
      BY <2>2 DEF Write, Quiet, AllInv, RInv, Sent, Alone, EvaluateDecision
    <3>2. Typed /\ Placed
      BY DEF AllInv, RecInv
    <3> QED
      BY <3>1, <3>2, AnnouncedIsOver, OverStays, OwnStays DEF Over
  <2> QED
    BY <2>1, <2>2 DEF Next
<1>2. Init => AllInv
  BY FollowerInit, RecInit DEF AllInv
<1> QED
  BY <1>1, <1>2, AllStep, PTL DEF Spec, AnnouncedIsFinal

=============================================================================
