-------------------------- MODULE HedgeCycle_proofs --------------------------
(***************************************************************************)
(* What HedgeCycle promises for every set of invocations and whether or not *)
(* database calls can fail: types, the risk gate, one submission per place, *)
(* the orders table knows what the broker holds, one order that opens       *)
(* protection per cycle.                                                    *)
(*                                                                          *)
(* The inductive invariant IInv has a part that speaks of one invocation    *)
(* (Local) and a part that relates them (Alone and the two properties of    *)
(* the orders table).                                                       *)
(***************************************************************************)
EXTENDS HedgeCycle, TLAPS

Level2 == {"assess", "closegate", "closesubmit", "closepersist", "change"}

\* The steps of an invocation happen in the nodes they belong to, and Level 2
\* only outside of the reopen cycle.
Shape(r) ==
  /\ run[r].nested => run[r].node \in {"STRATEGY_EVALUATION", "RISK_CHECK", "EXECUTION",
                                       "MONITORING"}
  /\ At(r, "submit") \/ At(r, "persist") => run[r].node = "EXECUTION"
  /\ run[r].pc \in Level2 => ~run[r].nested
  /\ run[r].pc \in Level2 \cup {"snapshot"} => run[r].node = "MONITORING"
  /\ At(r, "idle") => ~run[r].nested

\* Where an invocation can be once it has used the slot of its EXECUTION ...
PastExecution(r) == \/ run[r].node = "EXECUTION" /\ run[r].pc \in {"persist", "exit"}
                    \/ run[r].node = "MONITORING"

\* ... and once it is past the steps of Level 2 that are not in pcs.
PastLevel2(r, pcs) == run[r].node = "MONITORING" /\ run[r].pc \in pcs \cup {"snapshot", "exit"}

\* A slot is used in the order of the program: what is placed or recorded says
\* where the invocation must be by now.
Order(r) ==
  \/ run[r].pc \in Over
  \/ /\ Placed(r, "primary") => run[r].nested \/ PastExecution(r)
     /\ Placed(r, "close") => run[r].nested \/ PastLevel2(r, {"closepersist", "change"})
     /\ Placed(r, "reopen") => IF run[r].nested THEN PastExecution(r) ELSE PastLevel2(r, {})
     /\ r \in changes => run[r].nested \/ PastLevel2(r, {})

\* The verdict on the state is the one in the table, until the order it
\* cleared is submitted.
Cleared(r) ==
  /\ run[r].decision = "clear" /\ run[r].node \in {"RISK_CHECK", "EXECUTION"}
       => checks[<<r, OpenSlot(r)>>] = "clear"
  /\ At(r, "submit") => checks[<<r, OpenSlot(r)>>] = "clear"
  /\ run[r].pc \in {"closesubmit", "closepersist", "change"}
       => checks[<<r, "close">>] \in {"clear", "unlogged"}

\* GatedOrders and SubmitOnce for one invocation.
Gated(r) ==
  /\ \A s \in OpenSlots : Placed(r, s) => checks[<<r, s>>] = "clear"
  /\ Placed(r, "close") \/ r \in changes => checks[<<r, "close">>] \in {"clear", "unlogged"}

Once(r) == \A s \in Slots : book[<<r, s>>] <= 1

Local(r) == Shape(r) /\ Order(r) /\ Cleared(r) /\ Gated(r) /\ Once(r)

\* Without gaps one invocation works at a time, and one that is past the guard
\* of EXECUTION has found an empty orders table that is still empty.
Alone ==
  gaps = {} => /\ \A q, r \in Runs : Active(q) /\ Active(r) => q = r
               /\ \A r \in Runs : At(r, "submit") => orders = {}

IInv == /\ TypeOK
        /\ \A r \in Runs : Local(r)
        /\ Alone
        /\ OrderOnFile
        /\ OneOpenOrder

-----------------------------------------------------------------------------
(* What one step of an invocation can touch                                 *)

\* Every action changes the state of its own invocation and, in the tables that
\* are kept per invocation, only entries of it.
Frame(r) ==
  /\ \E st \in RunState : Become(r, st)
  /\ book' = book \/ \E s \in Slots : Place(r, s)
  /\ orders' = orders \/ \E s \in Slots : orders' = orders \cup {<<r, s>>}
  /\ \/ checks' = checks
     \/ \E s \in Slots, v \in Verdicts : checks' = [checks EXCEPT ![<<r, s>>] = v]
  /\ failures' = failures \/ \E s \in Slots : failures' = failures \cup {<<r, s>>}
  /\ changes' = changes \/ changes' = changes \cup {r}
  /\ gaps \subseteq gaps' /\ gaps' \subseteq Gaps

\* A step of one invocation leaves the local state of the others alone.
LEMMA BecomeRun ==
  ASSUME TypeOK, NEW r \in Runs, NEW st \in RunState, Become(r, st)
  PROVE  /\ run' \in [Runs -> RunState]
         /\ run'[r] = st
         /\ \A q \in Runs \ {r} : run'[q] = run[q]
BY DEF Become, TypeOK

\* The order EXECUTION submits is the first one of its cycle or the reopened one.
LEMMA OpenSlotType == ASSUME NEW r PROVE OpenSlot(r) \in Slots
BY DEF OpenSlot, Slots

\* The conditional edges of the graph lead to nodes of the graph.
LEMMA NextNodeType == ASSUME NEW r, run[r].node \in Nodes PROVE NextNode(r) \in Nodes
BY DEF NextNode, Nodes

\* Overlapping invocations are one of the named gaps.
LEMMA OverlapType == Overlap \subseteq Gaps
BY DEF Overlap, Gaps

\* What is left of the state of an invocation that is over.
LEMMA EndIs ==
  ASSUME TypeOK, NEW r \in Runs, NEW pc \in Over, End(r, pc)
  PROVE  /\ \E st \in RunState : Become(r, st)
         /\ run'[r].pc = pc /\ run'[r].node = "INITIAL" /\ run'[r].nested = FALSE
         /\ run'[r].decision = "none" /\ run'[r].flaky = run[r].flaky
         /\ run'[r].escaped = run[r].escaped
<1> DEFINE st == [Idle EXCEPT !.pc = pc, !.flaky = run[r].flaky, !.escaped = run[r].escaped]
<1>1. run[r].flaky \in BOOLEAN /\ run[r].escaped \in SUBSET Slots
  BY DEF TypeOK, RunState
<1>2. /\ st \in RunState
      /\ st.pc = pc /\ st.node = "INITIAL" /\ st.nested = FALSE /\ st.decision = "none"
      /\ st.flaky = run[r].flaky /\ st.escaped = run[r].escaped
  BY <1>1 DEF Idle, RunState, Steps, Nodes, Outcomes
<1>3. Become(r, st)
  BY DEF End
<1> HIDE DEF st
<1> QED
  BY <1>2, <1>3, BecomeRun

\* What is left of it when an error has escaped from the node.
LEMMA EscapeIs ==
  ASSUME TypeOK, NEW r \in Runs, Escape(r)
  PROVE  /\ \E st \in RunState : Become(r, st)
         /\ \/ run'[r].pc = "raised" /\ run'[r].node = "INITIAL" /\ run'[r].nested = FALSE
               /\ ~run[r].nested /\ run'[r].decision = "none"
               /\ run'[r].escaped = run[r].escaped
            \/ run'[r].pc = "snapshot" /\ run'[r].node = "MONITORING" /\ run'[r].nested = FALSE
               /\ run[r].nested /\ run'[r].decision = "none"
               /\ run'[r].escaped = run[r].escaped \cup {"reopen"}
         /\ run'[r].flaky = run[r].flaky
<1>1. CASE ~run[r].nested
  BY <1>1, EndIs DEF Escape, Over
<1>2. CASE run[r].nested
  <2> DEFINE st == [run[r] EXCEPT !.pc = "snapshot", !.nested = FALSE, !.node = "MONITORING",
                                  !.decision = "none",
                                  !.escaped = run[r].escaped \cup {"reopen"}]
  <2>1. run[r] \in RunState /\ run[r].escaped \cup {"reopen"} \in SUBSET Slots
    BY DEF TypeOK, RunState, Slots
  <2>2. /\ st \in RunState
        /\ st.pc = "snapshot" /\ st.node = "MONITORING" /\ st.nested = FALSE
        /\ st.decision = "none" /\ st.flaky = run[r].flaky
        /\ st.escaped = run[r].escaped \cup {"reopen"}
    BY <2>1 DEF RunState, Steps, Nodes
  <2>3. Become(r, st)
    BY <1>2 DEF Escape
  <2> HIDE DEF st
  <2> QED
    BY <1>2, <2>2, <2>3, BecomeRun
<1> QED
  BY <1>1, <1>2 DEF TypeOK, RunState

\* Every node body, edge and persistence call stays within Frame.
LEMMA ActFrame ==
  ASSUME TypeOK, NEW r \in Runs, Act(r)
  PROVE  Frame(r)
<1>1. run[r] \in RunState /\ gaps \subseteq Gaps
  BY DEF TypeOK
<1>2. OpenSlot(r) \in Slots /\ NextNode(r) \in Nodes
  BY <1>1, OpenSlotType, NextNodeType DEF RunState
<1>3. Overlap \subseteq Gaps
  BY OverlapType
<1>4. CASE InvokeCycle(r)
  <2>1. \E st \in RunState : Become(r, st)
    BY <1>1, <1>2, <1>4 DEF InvokeCycle, Flakiness, At, RunState, Steps, Over, Nodes, Outcomes
  <2>2. QED
    BY <1>1, <1>3, <2>1, <1>4 DEF InvokeCycle, Frame, tables
<1>5. CASE InvokeTick(r)
  <2>1. \E st \in RunState : Become(r, st)
    BY <1>1, <1>2, <1>5 DEF InvokeTick, Flakiness, At, RunState, Steps, Over, Nodes, Outcomes
  <2>2. QED
    BY <1>1, <1>3, <2>1, <1>5 DEF InvokeTick, Frame, tables
<1>6. CASE Enter(r)
  <2>1. \E st \in RunState : Become(r, st)
    BY <1>1, <1>2, <1>6 DEF Enter, At, Go, RunState, Steps, Over, Nodes, Outcomes
  <2>2. QED
    BY <1>1, <2>1, <1>6 DEF Enter, Frame, tables, Slots, Verdicts, Gaps
<1>7. CASE Exit(r)
  <2>1. \E st \in RunState : Become(r, st)
    <3> DEFINE decision == IF NextNode(r) = "MONITORING" THEN "none" ELSE run[r].decision
    <3>1. decision \in {"none", "skip", "hedge", "clear", "reject"}
      BY <1>1 DEF RunState
    <3>2. [run[r] EXCEPT !.pc = "enter", !.node = NextNode(r),
                         !.decision = decision] \in RunState
      BY <1>1, <1>2, <3>1 DEF RunState, Steps
    <3>3. QED
      BY <1>7, <3>2 DEF Exit
  <2>2. QED
    BY <1>1, <2>1, <1>7 DEF Exit, Frame, tables, Slots, Verdicts, Gaps
<1>8. CASE ExitMonitoring(r)
  <2>1. \E st \in RunState : Become(r, st)
    BY <1>8, EndIs DEF ExitMonitoring, Over
  <2>2. QED
    BY <1>1, <2>1, <1>8 DEF ExitMonitoring, Frame, tables, Slots, Verdicts, Gaps
<1>9. CASE ExitReopen(r)
  <2>1. \E st \in RunState : Become(r, st)
    BY <1>1, <1>2, <1>9 DEF ExitReopen, AtNode, RunState, Steps, Over, Nodes, Outcomes
  <2>2. QED
    BY <1>1, <1>2, <2>1, <1>9 DEF ExitReopen, AtNode, Frame, tables, Slots, Verdicts, Gaps
<1>10. CASE InitialBody(r)
  <2>1. \E st \in RunState : Become(r, st)
    BY <1>1, <1>2, <1>10 DEF InitialBody, AtNode, Go, RunState, Steps, Over, Nodes, Outcomes
  <2>2. QED
    BY <1>1, <1>2, <2>1, <1>10 DEF InitialBody, AtNode, Go, Frame, tables, Slots, Verdicts, Gaps
<1>11. CASE AnalyzingBody(r)
  <2>1. \E st \in RunState : Become(r, st)
    BY <1>1, <1>2, <1>11 DEF AnalyzingBody, AtNode, Halt, RunState, Steps, Over, Nodes, Outcomes
  <2>2. QED
    BY <1>1, <1>2, <2>1, <1>11 DEF AnalyzingBody, AtNode, Halt, Frame, tables, Slots, Verdicts, Gaps
<1>12. CASE StrategyBody(r)
  <2>1. \E st \in RunState : Become(r, st)
    BY <1>1, <1>2, <1>12 DEF StrategyBody, AtNode, Halt, RunState, Steps, Over, Nodes, Outcomes
  <2>2. QED
    BY <1>1, <1>2, <2>1, <1>12 DEF StrategyBody, AtNode, Halt, Frame, tables, Slots, Verdicts, Gaps
<1>13. CASE RiskBody(r)
  <2>1. \E st \in RunState : Become(r, st)
    BY <1>1, <1>2, <1>13 DEF RiskBody, AtNode, RunState, Steps, Over, Nodes, Outcomes
  <2>2. QED
    BY <1>1, <1>2, <2>1, <1>13 DEF RiskBody, AtNode, Frame, tables, Slots, Verdicts, Gaps
<1>14. CASE RiskBodyFails(r)
  <2>1. \E st \in RunState : Become(r, st)
    BY <1>1, <1>2, <1>14 DEF RiskBodyFails, AtNode, Halt, RunState, Steps, Over, Nodes, Outcomes
  <2>2. QED
    BY <1>1, <1>2, <2>1, <1>14 DEF RiskBodyFails, AtNode, Halt, Frame, tables, Slots, Verdicts, Gaps
<1>15. CASE SkipGuarded(r)
  <2>1. \E st \in RunState : Become(r, st)
    BY <1>1, <1>2, <1>15 DEF SkipGuarded, AtNode, Go, RunState, Steps, Over, Nodes, Outcomes
  <2>2. QED
    BY <1>1, <1>2, <2>1, <1>15 DEF SkipGuarded, AtNode, Go, Frame, tables, Slots, Verdicts, Gaps
<1>16. CASE PassGuard(r)
  <2>1. \E st \in RunState : Become(r, st)
    BY <1>1, <1>2, <1>16 DEF PassGuard, AtNode, Go, RunState, Steps, Over, Nodes, Outcomes
  <2>2. QED
    BY <1>1, <1>2, <2>1, <1>16 DEF PassGuard, AtNode, Go, Frame, tables, Slots, Verdicts, Gaps
<1>17. CASE AbortBeforeSubmit(r)
  <2>1. \E st \in RunState : Become(r, st)
    BY <1>1, <1>2, <1>17 DEF AbortBeforeSubmit, AtNode, Go, WriteFailure, RunState, Steps, Over, Nodes, Outcomes
  <2>2. QED
    BY <1>1, <1>2, <2>1, <1>17 DEF AbortBeforeSubmit, AtNode, Go, WriteFailure, Frame, tables, Slots, Verdicts, Gaps
<1>18. CASE PlanRaises(r)
  <2>1. \E st \in RunState : Become(r, st)
    BY <1>18, EscapeIs DEF PlanRaises
  <2>2. QED
    BY <1>1, <1>2, <2>1, <1>18 DEF PlanRaises, Frame, tables, Slots, Verdicts, Gaps
<1>19. CASE Submit(r)
  <2>1. \E st \in RunState : Become(r, st)
    BY <1>1, <1>2, <1>19 DEF Submit, AtNode, RunState, Steps, Over, Nodes, Outcomes
  <2>2. QED
    BY <1>1, <1>2, <2>1, <1>19 DEF Submit, AtNode, Frame, tables, Slots, Verdicts, Gaps
<1>20. CASE SubmitUnmappable(r)
  <2>1. \E st \in RunState : Become(r, st)
    BY <1>20, EscapeIs DEF SubmitUnmappable
  <2>2. QED
    BY <1>1, <1>2, <2>1, <1>20 DEF SubmitUnmappable, Frame, tables, Slots, Verdicts, Gaps
<1>21. CASE SubmitFails(r)
  <2>1. \E st \in RunState : Become(r, st)
    BY <1>1, <1>2, <1>21 DEF SubmitFails, AtNode, Halt, WriteFailure, RunState, Steps, Over, Nodes, Outcomes
  <2>2. QED
    BY <1>1, <1>2, <2>1, <1>21 DEF SubmitFails, AtNode, Halt, WriteFailure, Frame, tables, Slots, Verdicts, Gaps
<1>22. CASE PersistOrder(r)
  <2>1. \E st \in RunState : Become(r, st)
    BY <1>1, <1>2, <1>22 DEF PersistOrder, AtNode, RunState, Steps, Over, Nodes, Outcomes
  <2>2. QED
    BY <1>1, <1>2, <2>1, <1>22 DEF PersistOrder, AtNode, Frame, tables, Slots, Verdicts, Gaps
<1>23. CASE Level1(r)
  <2>1. \E st \in RunState : Become(r, st)
    BY <1>1, <1>2, <1>23 DEF Level1, AtNode, Go, RunState, Steps, Over, Nodes, Outcomes
  <2>2. QED
    BY <1>1, <1>2, <2>1, <1>23 DEF Level1, AtNode, Go, Frame, tables, Slots, Verdicts, Gaps
<1>24. CASE Assess(r)
  <2>1. \E st \in RunState : Become(r, st)
    BY <1>1, <1>2, <1>24 DEF Assess, At, Go, Reopened, RunState, Steps, Over, Nodes, Outcomes
  <2>2. QED
    BY <1>1, <1>2, <2>1, <1>24 DEF Assess, At, Go, Reopened, Frame, tables, Slots, Verdicts, Gaps
<1>25. CASE CloseStops(r)
  <2>1. \E st \in RunState : Become(r, st)
    BY <1>1, <1>2, <1>25 DEF CloseStops, At, Go, RunState, Steps, Over, Nodes, Outcomes
  <2>2. QED
    BY <1>1, <1>2, <2>1, <1>25 DEF CloseStops, At, Go, Frame, tables, Slots, Verdicts, Gaps
<1>26. CASE CloseGate(r)
  <2>1. \E st \in RunState : Become(r, st)
    BY <1>1, <1>2, <1>26 DEF CloseGate, At, Go, CloseCleared, RunState, Steps, Over, Nodes, Outcomes
  <2>2. QED
    BY <1>1, <1>2, <2>1, <1>26 DEF CloseGate, At, Go, CloseCleared, Frame, tables, Slots, Verdicts, Gaps
<1>27. CASE ClosePlanFails(r)
  <2>1. run[r].escaped \cup {"close"} \in SUBSET Slots
    BY <1>1 DEF RunState, Slots
  <2>2. \E st \in RunState : Become(r, st)
    <3>1. CASE Become(r, [run[r] EXCEPT !.pc = "snapshot",
                                        !.escaped = run[r].escaped \cup {"close"}])
      BY <1>1, <2>1, <3>1 DEF RunState, Steps
    <3>2. CASE Become(r, [Reopened(r) EXCEPT !.escaped = Reopened(r).escaped \cup {"close"}])
      BY <1>1, <2>1, <3>2 DEF Reopened, RunState, Steps, Nodes
    <3> QED
      BY <1>27, <3>1, <3>2 DEF ClosePlanFails
  <2>3. QED
    BY <1>1, <1>2, <2>2, <1>27 DEF ClosePlanFails, At, Go, CloseCleared, Reopened, Frame, tables, Slots, Verdicts, Gaps
<1>28. CASE CloseSubmit(r)
  <2>1. \E st \in RunState : Become(r, st)
    BY <1>1, <1>2, <1>28 DEF CloseSubmit, At, Go, RunState, Steps, Over, Nodes, Outcomes
  <2>2. QED
    BY <1>1, <1>2, <2>1, <1>28 DEF CloseSubmit, At, Go, Frame, tables, Slots, Verdicts, Gaps
<1>29. CASE CloseSubmitFails(r)
  <2>1. \E st \in RunState : Become(r, st)
    BY <1>1, <1>2, <1>29 DEF CloseSubmitFails, At, Go, RunState, Steps, Over, Nodes, Outcomes
  <2>2. QED
    BY <1>1, <1>2, <2>1, <1>29 DEF CloseSubmitFails, At, Go, Frame, tables, Slots, Verdicts, Gaps
<1>30. CASE ClosePersist(r)
  <2>1. \E st \in RunState : Become(r, st)
    BY <1>1, <1>2, <1>30 DEF ClosePersist, At, Go, RunState, Steps, Over, Nodes, Outcomes
  <2>2. QED
    BY <1>1, <1>2, <2>1, <1>30 DEF ClosePersist, At, Go, Frame, tables, Slots, Verdicts, Gaps
<1>31. CASE RecordChange(r)
  <2>1. \E st \in RunState : Become(r, st)
    BY <1>1, <1>2, <1>31 DEF RecordChange, At, Go, Reopened, RunState, Steps, Over, Nodes, Outcomes
  <2>2. QED
    BY <1>1, <1>2, <2>1, <1>31 DEF RecordChange, At, Go, Reopened, Frame, tables, Slots, Verdicts, Gaps
<1>32. CASE Snapshot(r)
  <2>1. \E st \in RunState : Become(r, st)
    <3>1. CASE End(r, "done")
      BY <3>1, EndIs DEF Over
    <3>2. CASE Go(r, "exit")
      BY <1>1, <3>2 DEF Go, RunState, Steps
    <3> QED
      BY <1>32, <3>1, <3>2 DEF Snapshot
  <2>2. QED
    BY <1>1, <1>2, <2>1, <1>32 DEF Snapshot, At, Go, End, Idle, Frame, tables, Slots, Verdicts, Gaps
<1>33. CASE Crash(r)
  <2>1. \E st \in RunState : Become(r, st)
    BY <1>33, EndIs DEF Crash, Over
  <2>2. QED
    BY <1>1, <1>2, <2>1, <1>33 DEF Crash, End, Idle, Frame, tables, Slots, Verdicts, Gaps
<1>34. CASE CrashInSubmit(r)
  <2>1. \E st \in RunState : Become(r, st)
    BY <1>34, EndIs DEF CrashInSubmit, Over
  <2>2. QED
    BY <1>1, <1>2, <2>1, <1>34 DEF CrashInSubmit, End, Idle, Frame, tables, Slots, Verdicts, Gaps
<1> QED
  BY <1>4, <1>5, <1>6, <1>7, <1>8, <1>9, <1>10, <1>11, <1>12, <1>13, <1>14, <1>15, <1>16, <1>17, <1>18, <1>19, <1>20, <1>21, <1>22, <1>23, <1>24, <1>25, <1>26, <1>27, <1>28, <1>29, <1>30, <1>31, <1>32, <1>33, <1>34
     DEF Act, Step, Graph, Execution, Monitoring

\* A step within Frame keeps the types.
LEMMA FrameType ==
  ASSUME TypeOK, NEW r \in Runs, Frame(r)
  PROVE  TypeOK'
<1>1. run' \in [Runs -> RunState]
  BY BecomeRun DEF Frame
<1>2. book' \in [Runs \X Slots -> Nat]
  <2>1. book \in [Runs \X Slots -> Nat]
    BY DEF TypeOK
  <2>2. ASSUME NEW s \in Slots, Place(r, s) PROVE book' \in [Runs \X Slots -> Nat]
    <3>1. <<r, s>> \in Runs \X Slots
      OBVIOUS
    <3>2. book[<<r, s>>] + 1 \in Nat
      BY <2>1, <3>1
    <3>3. QED
      BY <2>1, <2>2, <3>1, <3>2 DEF Place
  <2>3. QED
    BY <2>1, <2>2 DEF Frame
<1>3. checks' \in [Runs \X Slots -> Verdicts]
  BY DEF TypeOK, Frame
<1>4. orders' \subseteq Runs \X Slots /\ failures' \subseteq Runs \X Slots
  BY DEF TypeOK, Frame
<1>5. changes' \subseteq Runs /\ gaps' \subseteq Gaps
  BY DEF TypeOK, Frame
<1> QED
  BY <1>1, <1>2, <1>3, <1>4, <1>5 DEF TypeOK

\* A step within Frame leaves the other invocations' state and rows alone.
LEMMA FrameOthers ==
  ASSUME TypeOK, NEW r \in Runs, Frame(r), NEW q \in Runs \ {r}
  PROVE  /\ run'[q] = run[q]
         /\ \A s \in Slots : book'[<<q, s>>] = book[<<q, s>>] /\ checks'[<<q, s>>] = checks[<<q, s>>]
         /\ q \in changes' <=> q \in changes
<1>1. run'[q] = run[q]
  BY BecomeRun DEF Frame
<1>2. \A s \in Slots : book'[<<q, s>>] = book[<<q, s>>]
  BY DEF TypeOK, Frame, Place
<1>3. \A s \in Slots : checks'[<<q, s>>] = checks[<<q, s>>]
  BY DEF TypeOK, Frame
<1>4. q \in changes' <=> q \in changes
  BY DEF Frame
<1> QED
  BY <1>1, <1>2, <1>3, <1>4

\* ... and with them what is known of each of them by itself.
LEMMA LocalOthers ==
  ASSUME TypeOK, NEW r \in Runs, Frame(r), NEW q \in Runs \ {r}, Local(q)
  PROVE  Local(q)'
<1>1. /\ run'[q] = run[q]
      /\ \A s \in Slots : book'[<<q, s>>] = book[<<q, s>>] /\ checks'[<<q, s>>] = checks[<<q, s>>]
      /\ q \in changes' <=> q \in changes
  BY FrameOthers
<1>2. OpenSlots \subseteq Slots /\ "primary" \in Slots /\ "close" \in Slots /\ "reopen" \in Slots
      /\ OpenSlot(q) \in Slots /\ OpenSlot(q)' = OpenSlot(q)
  BY <1>1 DEF OpenSlots, Slots, OpenSlot
<1>3. Shape(q)' /\ Order(q)'
  BY <1>1, <1>2 DEF Local, Shape, Order, At, Placed, PastExecution, PastLevel2
<1>4. Cleared(q)' /\ Gated(q)' /\ Once(q)'
  BY <1>1, <1>2 DEF Local, Cleared, Gated, Once, At, Placed
<1> QED
  BY <1>3, <1>4 DEF Local

\* Nothing is asked of an invocation that is over, but what it has left behind.
LEMMA OverIsLocal ==
  ASSUME TypeOK, NEW r \in Runs, Local(r), NEW pc \in Over, End(r, pc),
         book' = book, checks' = checks, changes' = changes
  PROVE  Local(r)'
  BY EndIs DEF Local, Shape, Order, Cleared, Gated, Once, Placed, Level2, At, Over

\* A step of an invocation keeps what is known of that invocation: its place in the
\* graph, the order of its effects, the verdict behind them.
LEMMA LocalStep ==
  ASSUME TypeOK, NEW r \in Runs, Local(r), Act(r)
  PROVE  Local(r)'
<1>1. run[r] \in RunState /\ \A st : Become(r, st) => run'[r] = st
  BY DEF TypeOK, Become
<1>2. \A s \in Slots : book[<<r, s>>] \in Nat /\ checks[<<r, s>>] \in Verdicts
  BY DEF TypeOK
<1>3. \A s, t \in Slots :
        Place(r, s) => book'[<<r, t>>] = IF t = s THEN book[<<r, s>>] + 1 ELSE book[<<r, t>>]
  BY DEF TypeOK, Place
<1>4. \A s, t \in Slots : \A v :
        checks' = [checks EXCEPT ![<<r, s>>] = v] =>
          checks'[<<r, t>>] = IF t = s THEN v ELSE checks[<<r, t>>]
  BY DEF TypeOK
<1>5. OpenSlot(r) \in Slots
  BY OpenSlotType
<1>6. CASE InvokeCycle(r)
  <2>1. PICK flaky \in BOOLEAN : Become(r, [run[r] EXCEPT !.pc = "enter", !.flaky = flaky])
    BY <1>6 DEF InvokeCycle, Flakiness
  <2>2. /\ run[r].pc = "idle" /\ run'[r].pc = "enter"
        /\ run'[r].node = run[r].node /\ run'[r].nested = run[r].nested
        /\ run'[r].decision = run[r].decision
        /\ book' = book /\ checks' = checks /\ changes' = changes
    BY <1>1, <1>6, <2>1 DEF InvokeCycle, At, tables, RunState
  <2>3. QED
    BY <2>2 DEF Local, Shape, Order, Cleared, Gated, Once, PastExecution, PastLevel2, Level2,
                Placed, OpenSlot, Over, At
<1>7. CASE InvokeTick(r)
  <2>1. PICK flaky \in BOOLEAN :
          Become(r, [run[r] EXCEPT !.pc = "body", !.kind = "tick", !.node = "MONITORING",
                                   !.context = TRUE, !.flaky = flaky])
    BY <1>7 DEF InvokeTick, Flakiness
  <2>2. /\ run[r].pc = "idle" /\ run'[r].pc = "body"
        /\ run'[r].node = "MONITORING" /\ run'[r].nested = run[r].nested
        /\ run'[r].decision = run[r].decision
        /\ book' = book /\ checks' = checks /\ changes' = changes
    BY <1>1, <1>7, <2>1 DEF InvokeTick, At, tables, RunState
  <2>3. QED
    BY <2>2 DEF Local, Shape, Order, Cleared, Gated, Once, PastExecution, PastLevel2, Level2,
                Placed, OpenSlot, Over, At
<1>8. CASE Enter(r)
  BY <1>1, <1>2, <1>3, <1>4, <1>8
     DEF Enter, At, Go, tables, RunState, Local, Shape, Order, Cleared, Gated, Once, PastExecution, PastLevel2, Level2, Placed, OpenSlot, Slots, OpenSlots, Over
<1>9. CASE Exit(r)
  <2>1. run[r].pc = "exit" /\ run[r].node # "MONITORING"
    BY <1>9 DEF Exit, At, AtNode
  <2>2. /\ run'[r].pc = "enter"
        /\ run'[r].node = NextNode(r)
        /\ run'[r].nested = run[r].nested
        /\ NextNode(r) # "MONITORING" => run'[r].decision = run[r].decision
    BY <1>1, <1>4, <1>5, <1>9 DEF Exit, At, RunState
  <2>3. /\ book' = book
        /\ checks' = checks
        /\ changes' = changes
    BY <1>2, <1>3, <1>4, <1>5, <1>9 DEF Exit, tables, Slots
  <2>4. Shape(r)'
    BY <1>1, <2>1, <2>2 DEF Local, Shape, Level2, At, RunState, Nodes, NextNode
  <2>5. Order(r)'
    BY <2>1, <2>2, <2>3 DEF Local, Shape, Order, PastExecution, PastLevel2, Placed, OpenSlot, Slots, Over, At, Level2, NextNode
  <2>6. Cleared(r)'
    BY <2>1, <2>2, <2>3 DEF Local, Cleared, Shape, Level2, OpenSlot, Slots, At, NextNode
  <2>7. Gated(r)' /\ Once(r)'
    BY <1>2, <2>1, <2>2, <2>3 DEF Local, Gated, Once, Order, Cleared, PastExecution, PastLevel2, Placed, OpenSlot, OpenSlots, Slots, Over, At, Shape, Level2
  <2>8. QED
    BY <2>4, <2>5, <2>6, <2>7 DEF Local
<1>10. CASE ExitMonitoring(r)
  BY <1>10, OverIsLocal DEF ExitMonitoring, tables, Over
<1>11. CASE ExitReopen(r)
  <2>1. /\ run[r].pc = "exit" /\ run[r].node = "MONITORING" /\ run[r].nested
        /\ run'[r].pc = "snapshot" /\ run'[r].node = "MONITORING" /\ ~run'[r].nested
        /\ book' = book /\ checks' = checks /\ changes' = changes
    BY <1>1, <1>11 DEF ExitReopen, AtNode, tables, RunState
  <2> QED
    BY <2>1 DEF Local, Shape, Order, Cleared, Gated, Once, At, PastExecution, PastLevel2, Level2,
                Placed, Over
<1>12. CASE InitialBody(r)
  BY <1>1, <1>2, <1>3, <1>4, <1>12
     DEF InitialBody, AtNode, Go, At, tables, RunState, Local, Shape, Order, Cleared, Gated, Once, PastExecution, PastLevel2, Level2, Placed, OpenSlot, Slots, OpenSlots, Over
<1>13. CASE AnalyzingBody(r)
  <2>1. /\ run[r].node = "ANALYZING" /\ run[r].pc = "body" /\ run'[r].pc = "exit"
        /\ run'[r].node = run[r].node
        /\ run'[r].nested = run[r].nested /\ run'[r].decision = run[r].decision
        /\ book' = book /\ checks' = checks /\ changes' = changes
    BY <1>1, <1>13 DEF AnalyzingBody, AtNode, Halt, tables, RunState
  <2>2. Shape(r)' /\ Order(r)'
    BY <2>1 DEF Local, Shape, Order, PastExecution, PastLevel2, Level2, Placed, Over, At
  <2>3. Cleared(r)' /\ Gated(r)' /\ Once(r)'
    BY <2>1 DEF Local, Cleared, Gated, Once, Placed, OpenSlot, Over, At
  <2>4. QED
    BY <2>2, <2>3 DEF Local
<1>14. CASE StrategyBody(r)
  <2>1. run[r].pc = "body" /\ run[r].node = "STRATEGY_EVALUATION"
    BY <1>14 DEF StrategyBody, At, AtNode
  <2>2. /\ run'[r].pc = "exit"
        /\ run'[r].node = run[r].node
        /\ run'[r].nested = run[r].nested
    BY <1>1, <1>4, <1>5, <1>14 DEF StrategyBody, AtNode, Halt, RunState
  <2>3. /\ book' = book
        /\ checks' = checks
        /\ changes' = changes
    BY <1>2, <1>3, <1>4, <1>5, <1>14 DEF StrategyBody, tables, Slots
  <2>4. Shape(r)'
    BY <1>1, <2>1, <2>2 DEF Local, Shape, Level2, At, RunState, Nodes
  <2>5. Order(r)'
    BY <2>1, <2>2, <2>3 DEF Local, Shape, Order, PastExecution, PastLevel2, Placed, OpenSlot, Slots, Over, At, Level2
  <2>6. Cleared(r)'
    BY <2>1, <2>2, <2>3 DEF Local, Cleared, Shape, Level2, OpenSlot, Slots, At
  <2>7. Gated(r)' /\ Once(r)'
    BY <1>2, <2>1, <2>2, <2>3 DEF Local, Gated, Once, Order, Cleared, PastExecution, PastLevel2, Placed, OpenSlot, OpenSlots, Slots, Over, At, Shape, Level2
  <2>8. QED
    BY <2>4, <2>5, <2>6, <2>7 DEF Local
<1>15. CASE RiskBody(r)
  <2>1. run[r].pc = "body" /\ run[r].node = "RISK_CHECK"
    BY <1>15 DEF RiskBody, At, AtNode
  <2>2. /\ run'[r].pc = "exit"
        /\ run'[r].node = run[r].node
        /\ run'[r].nested = run[r].nested
        /\ run'[r].decision = checks'[<<r, OpenSlot(r)>>]
    <3>1. PICK verdict \in {"clear", "reject"} :
            /\ Become(r, [run[r] EXCEPT !.pc = "exit", !.decision = verdict])
            /\ checks' = [checks EXCEPT ![<<r, OpenSlot(r)>>] = verdict]
      BY <1>15 DEF RiskBody
    <3>2. checks'[<<r, OpenSlot(r)>>] = verdict
      BY <1>4, <1>5, <3>1
    <3>3. QED
      BY <1>1, <3>1, <3>2 DEF RunState
  <2>3. /\ \A s \in Slots : s # OpenSlot(r) => checks'[<<r, s>>] = checks[<<r, s>>]
        /\ book' = book
        /\ changes' = changes
    BY <1>2, <1>3, <1>4, <1>5, <1>15 DEF RiskBody, tables, Slots
  <2>4. Shape(r)'
    BY <1>1, <2>1, <2>2 DEF Local, Shape, Level2, At, RunState, Nodes
  <2>5. Order(r)'
    BY <2>1, <2>2, <2>3 DEF Local, Shape, Order, PastExecution, PastLevel2, Placed, OpenSlot, Slots, Over, At, Level2
  <2>6. Cleared(r)'
    BY <2>1, <2>2, <2>3 DEF Local, Cleared, Shape, Level2, OpenSlot, Slots, At
  <2>7. Gated(r)' /\ Once(r)'
    BY <1>2, <2>1, <2>2, <2>3 DEF Local, Gated, Once, Order, Cleared, PastExecution, PastLevel2, Placed, OpenSlot, OpenSlots, Slots, Over, At, Shape, Level2
  <2>8. QED
    BY <2>4, <2>5, <2>6, <2>7 DEF Local
<1>16. CASE RiskBodyFails(r)
  <2>1. /\ run[r].node = "RISK_CHECK" /\ run[r].pc = "body" /\ run'[r].pc = "exit"
        /\ run'[r].node = run[r].node /\ run'[r].nested = run[r].nested
        /\ run'[r].decision = run[r].decision
        /\ book' = book /\ checks' = checks /\ changes' = changes
    BY <1>1, <1>16 DEF RiskBodyFails, AtNode, Halt, tables, RunState
  <2>2. Shape(r)' /\ Order(r)'
    BY <2>1 DEF Local, Shape, Order, PastExecution, PastLevel2, Level2, Placed, Over, At
  <2>3. Cleared(r)' /\ Gated(r)' /\ Once(r)'
    BY <2>1 DEF Local, Cleared, Gated, Once, Placed, OpenSlot, Over, At
  <2>4. QED
    BY <2>2, <2>3 DEF Local
<1>17. CASE SkipGuarded(r)
  BY <1>1, <1>2, <1>3, <1>4, <1>17
     DEF SkipGuarded, AtNode, Go, At, tables, RunState, Local, Shape, Order, Cleared, Gated, Once, PastExecution, PastLevel2, Level2, Placed, OpenSlot, Slots, OpenSlots, Over
<1>18. CASE PassGuard(r)
  BY <1>1, <1>2, <1>3, <1>4, <1>18
     DEF PassGuard, AtNode, Go, At, tables, RunState, Local, Shape, Order, Cleared, Gated, Once, PastExecution, PastLevel2, Level2, Placed, OpenSlot, Slots, OpenSlots, Over
<1>19. CASE AbortBeforeSubmit(r)
  BY <1>1, <1>2, <1>3, <1>4, <1>19
     DEF AbortBeforeSubmit, AtNode, Go, WriteFailure, At, tables, RunState, Local, Shape, Order, Cleared, Gated, Once, PastExecution, PastLevel2, Level2, Placed, OpenSlot, Slots, OpenSlots, Over
<1>20. CASE PlanRaises(r)
  <2>1. run[r].pc = "submit" /\ run[r].node = "EXECUTION"
    BY <1>20 DEF PlanRaises, At, AtNode
  <2>2. \/ /\ run[r].nested
           /\ run'[r].pc = "snapshot" /\ run'[r].node = "MONITORING" /\ ~run'[r].nested
        \/ run'[r].pc = "raised" /\ run'[r].node = "INITIAL" /\ ~run'[r].nested
    BY <1>1, <1>4, <1>5, <1>20 DEF PlanRaises, AtNode, Escape, End, Idle, RunState
  <2>3. /\ book' = book
        /\ checks' = checks
        /\ changes' = changes
    BY <1>2, <1>3, <1>4, <1>5, <1>20 DEF PlanRaises, tables, Slots
  <2>4. Shape(r)'
    BY <1>1, <2>1, <2>2 DEF Local, Shape, Level2, At, RunState, Nodes
  <2>5. Order(r)'
    BY <2>1, <2>2, <2>3 DEF Local, Shape, Order, PastExecution, PastLevel2, Placed, OpenSlot, Slots, Over, At, Level2
  <2>6. Cleared(r)'
    BY <2>1, <2>2, <2>3 DEF Local, Cleared, Shape, Level2, OpenSlot, Slots, At
  <2>7. Gated(r)' /\ Once(r)'
    BY <1>2, <2>1, <2>2, <2>3 DEF Local, Gated, Once, Order, Cleared, PastExecution, PastLevel2, Placed, OpenSlot, OpenSlots, Slots, Over, At, Shape, Level2
  <2>8. QED
    BY <2>4, <2>5, <2>6, <2>7 DEF Local
<1>21. CASE Submit(r)
  <2>1. run[r].pc = "submit" /\ run[r].node = "EXECUTION"
    BY <1>21 DEF Submit, At, AtNode
  <2>2. /\ run'[r].pc = "persist"
        /\ run'[r].node = run[r].node
        /\ run'[r].nested = run[r].nested
        /\ run'[r].decision = run[r].decision
    BY <1>1, <1>4, <1>5, <1>21 DEF Submit, AtNode, RunState
  <2>3. /\ book'[<<r, OpenSlot(r)>>] = book[<<r, OpenSlot(r)>>] + 1
        /\ \A s \in Slots : s # OpenSlot(r) => book'[<<r, s>>] = book[<<r, s>>]
        /\ checks' = checks
        /\ changes' = changes
    BY <1>2, <1>3, <1>4, <1>5, <1>21 DEF Submit, tables, Slots
  <2>4. Shape(r)'
    BY <1>1, <2>1, <2>2 DEF Local, Shape, Level2, At, RunState, Nodes
  <2>5. Order(r)'
    BY <2>1, <2>2, <2>3 DEF Local, Shape, Order, PastExecution, PastLevel2, Placed, OpenSlot, Slots, Over, At, Level2
  <2>6. Cleared(r)'
    BY <2>1, <2>2, <2>3 DEF Local, Cleared, Shape, Level2, OpenSlot, Slots, At
  <2>7. Gated(r)' /\ Once(r)'
    BY <1>2, <2>1, <2>2, <2>3 DEF Local, Gated, Once, Order, Cleared, PastExecution, PastLevel2, Placed, OpenSlot, OpenSlots, Slots, Over, At, Shape, Level2
  <2>8. QED
    BY <2>4, <2>5, <2>6, <2>7 DEF Local
<1>22. CASE SubmitUnmappable(r)
  <2>1. run[r].pc = "submit" /\ run[r].node = "EXECUTION"
    BY <1>22 DEF SubmitUnmappable, At, AtNode
  <2>2. \/ /\ run[r].nested
           /\ run'[r].pc = "snapshot" /\ run'[r].node = "MONITORING" /\ ~run'[r].nested
        \/ run'[r].pc = "raised" /\ run'[r].node = "INITIAL" /\ ~run'[r].nested
    BY <1>1, <1>4, <1>5, <1>22 DEF SubmitUnmappable, AtNode, Escape, End, Idle, RunState
  <2>3. /\ book'[<<r, OpenSlot(r)>>] = book[<<r, OpenSlot(r)>>] + 1
        /\ \A s \in Slots : s # OpenSlot(r) => book'[<<r, s>>] = book[<<r, s>>]
        /\ checks' = checks
        /\ changes' = changes
    BY <1>2, <1>3, <1>4, <1>5, <1>22 DEF SubmitUnmappable, tables, Slots
  <2>4. Shape(r)'
    BY <1>1, <2>1, <2>2 DEF Local, Shape, Level2, At, RunState, Nodes
  <2>5. Order(r)'
    BY <2>1, <2>2, <2>3 DEF Local, Shape, Order, PastExecution, PastLevel2, Placed, OpenSlot, Slots, Over, At, Level2
  <2>6. Cleared(r)'
    BY <2>1, <2>2, <2>3 DEF Local, Cleared, Shape, Level2, OpenSlot, Slots, At
  <2>7. Gated(r)' /\ Once(r)'
    BY <1>2, <2>1, <2>2, <2>3 DEF Local, Gated, Once, Order, Cleared, PastExecution, PastLevel2, Placed, OpenSlot, OpenSlots, Slots, Over, At, Shape, Level2
  <2>8. QED
    BY <2>4, <2>5, <2>6, <2>7 DEF Local
<1>23. CASE SubmitFails(r)
  <2>1. run[r].pc = "submit" /\ run[r].node = "EXECUTION"
    BY <1>23 DEF SubmitFails, At, AtNode
  <2>2. /\ run'[r].pc = "exit"
        /\ run'[r].node = run[r].node
        /\ run'[r].nested = run[r].nested
        /\ run'[r].decision = run[r].decision
    BY <1>1, <1>4, <1>5, <1>23 DEF SubmitFails, AtNode, Halt, WriteFailure, RunState
  <2>3. /\ book'[<<r, OpenSlot(r)>>] \in {book[<<r, OpenSlot(r)>>], book[<<r, OpenSlot(r)>>] + 1}
        /\ \A s \in Slots : s # OpenSlot(r) => book'[<<r, s>>] = book[<<r, s>>]
        /\ checks' = checks
        /\ changes' = changes
    BY <1>2, <1>3, <1>4, <1>5, <1>23 DEF SubmitFails, tables, Slots
  <2>4. Shape(r)'
    BY <1>1, <2>1, <2>2 DEF Local, Shape, Level2, At, RunState, Nodes
  <2>5. Order(r)'
    BY <2>1, <2>2, <2>3 DEF Local, Shape, Order, PastExecution, PastLevel2, Placed, OpenSlot, Slots, Over, At, Level2
  <2>6. Cleared(r)'
    BY <2>1, <2>2, <2>3 DEF Local, Cleared, Shape, Level2, OpenSlot, Slots, At
  <2>7. Gated(r)' /\ Once(r)'
    BY <1>2, <2>1, <2>2, <2>3 DEF Local, Gated, Once, Order, Cleared, PastExecution, PastLevel2, Placed, OpenSlot, OpenSlots, Slots, Over, At, Shape, Level2
  <2>8. QED
    BY <2>4, <2>5, <2>6, <2>7 DEF Local
<1>24. CASE PersistOrder(r)
  <2>1. run[r].node = "EXECUTION" /\ run[r].pc = "persist"
    BY <1>24 DEF PersistOrder, AtNode
  <2>2. /\ run'[r].pc = "exit" /\ run'[r].node = run[r].node
        /\ run'[r].nested = run[r].nested /\ run'[r].decision = run[r].decision
    BY <1>1, <1>24 DEF PersistOrder, RunState
  <2>3. book' = book /\ checks' = checks /\ changes' = changes
    BY <1>24 DEF PersistOrder
  <2>4. Shape(r)' /\ Order(r)'
    BY <2>1, <2>2, <2>3 DEF Local, Shape, Order, PastExecution, PastLevel2, Level2, Placed, Over, At
  <2>5. Cleared(r)' /\ Gated(r)' /\ Once(r)'
    BY <2>1, <2>2, <2>3 DEF Local, Shape, Cleared, Gated, Once, Placed, Level2, OpenSlot, Over, At
  <2>6. QED
    BY <2>4, <2>5 DEF Local
<1>25. CASE Level1(r)
  <2>1. /\ run[r].node = "MONITORING" /\ run[r].pc = "body"
        /\ run'[r].pc \in {"snapshot", "assess"} /\ (run[r].nested => run'[r].pc = "snapshot")
        /\ run'[r].node = run[r].node
        /\ run'[r].nested = run[r].nested /\ run'[r].decision = run[r].decision
        /\ book' = book /\ checks' = checks /\ changes' = changes
    BY <1>1, <1>25 DEF Level1, AtNode, Go, tables, RunState
  <2>2. Shape(r)' /\ Order(r)'
    BY <2>1 DEF Local, Shape, Order, PastExecution, PastLevel2, Level2, Placed, Over, At
  <2>3. Cleared(r)' /\ Gated(r)' /\ Once(r)'
    BY <2>1 DEF Local, Cleared, Gated, Once, Placed, OpenSlot, Over, At
  <2>4. QED
    BY <2>2, <2>3 DEF Local
<1>26. CASE Assess(r)
  <2>1. run[r].pc = "assess"
    BY <1>26 DEF Assess, At
  <2>2. \/ /\ run'[r].pc \in {"snapshot", "closegate"} /\ run'[r].node = run[r].node
           /\ run'[r].nested = run[r].nested /\ run'[r].decision = run[r].decision
        \/ /\ run'[r].pc = "enter" /\ run'[r].node = "STRATEGY_EVALUATION"
           /\ run'[r].nested /\ run'[r].decision = "none"
    BY <1>1, <1>26 DEF Assess, Go, Reopened, RunState
  <2>3. book' = book /\ checks' = checks /\ changes' = changes
    BY <1>26 DEF Assess, tables
  <2>4. Shape(r)' /\ Order(r)'
    BY <2>1, <2>2, <2>3 DEF Local, Shape, Order, PastExecution, PastLevel2, Level2, Placed, Over, At
  <2>5. Cleared(r)' /\ Gated(r)' /\ Once(r)'
    BY <2>1, <2>2, <2>3 DEF Local, Shape, Cleared, Gated, Once, Placed, Level2, OpenSlot, Over, At
  <2>6. QED
    BY <2>4, <2>5 DEF Local
<1>27. CASE CloseStops(r)
  BY <1>1, <1>2, <1>3, <1>4, <1>27
     DEF CloseStops, At, Go, tables, RunState, Local, Shape, Order, Cleared, Gated, Once, PastExecution, PastLevel2, Level2, Placed, OpenSlot, Slots, OpenSlots, Over
<1>28. CASE CloseGate(r)
  <2>1. run[r].pc = "closegate"
    BY <1>28 DEF CloseGate, At, AtNode
  <2>2. /\ run'[r].pc \in {"closesubmit", "change"}
        /\ run'[r].node = run[r].node
        /\ run'[r].nested = run[r].nested
    BY <1>1, <1>4, <1>5, <1>28 DEF CloseGate, At, Go, CloseCleared, RunState
  <2>3. /\ checks'[<<r, "close">>] \in {"clear", "unlogged"}
        /\ \A s \in Slots : s # "close" => checks'[<<r, s>>] = checks[<<r, s>>]
        /\ book' = book
        /\ changes' = changes
    BY <1>2, <1>3, <1>4, <1>5, <1>28 DEF CloseGate, tables, Slots, CloseCleared
  <2>4. Shape(r)'
    BY <1>1, <2>1, <2>2 DEF Local, Shape, Level2, At, RunState, Nodes
  <2>5. Order(r)'
    BY <2>1, <2>2, <2>3 DEF Local, Shape, Order, PastExecution, PastLevel2, Placed, OpenSlot, Slots, Over, At, Level2
  <2>6. Cleared(r)'
    BY <2>1, <2>2, <2>3 DEF Local, Cleared, Shape, Level2, OpenSlot, Slots, At
  <2>7. Gated(r)' /\ Once(r)'
    BY <1>2, <2>1, <2>2, <2>3 DEF Local, Gated, Once, Order, Cleared, PastExecution, PastLevel2, Placed, OpenSlot, OpenSlots, Slots, Over, At, Shape, Level2
  <2>8. QED
    BY <2>4, <2>5, <2>6, <2>7 DEF Local
<1>29. CASE ClosePlanFails(r)
  <2>1. run[r].pc = "closegate"
    BY <1>29 DEF ClosePlanFails, At, AtNode
  <2>2. \/ /\ run'[r].pc = "snapshot" /\ run'[r].node = run[r].node /\ run'[r].nested = run[r].nested
        \/ /\ run'[r].pc = "enter" /\ run'[r].node = "STRATEGY_EVALUATION" /\ run'[r].nested
    BY <1>1, <1>4, <1>5, <1>29 DEF ClosePlanFails, At, Go, CloseCleared, Reopened, RunState
  <2>3. /\ checks'[<<r, "close">>] \in {"clear", "unlogged"}
        /\ \A s \in Slots : s # "close" => checks'[<<r, s>>] = checks[<<r, s>>]
        /\ book' = book
        /\ changes' = changes
    BY <1>2, <1>3, <1>4, <1>5, <1>29 DEF ClosePlanFails, tables, Slots, CloseCleared
  <2>4. Shape(r)'
    BY <1>1, <2>1, <2>2 DEF Local, Shape, Level2, At, RunState, Nodes
  <2>5. Order(r)'
    BY <2>1, <2>2, <2>3 DEF Local, Shape, Order, PastExecution, PastLevel2, Placed, OpenSlot, Slots, Over, At, Level2
  <2>6. Cleared(r)'
    BY <2>1, <2>2, <2>3 DEF Local, Cleared, Shape, Level2, OpenSlot, Slots, At
  <2>7. Gated(r)' /\ Once(r)'
    BY <1>2, <2>1, <2>2, <2>3 DEF Local, Gated, Once, Order, Cleared, PastExecution, PastLevel2, Placed, OpenSlot, OpenSlots, Slots, Over, At, Shape, Level2
  <2>8. QED
    BY <2>4, <2>5, <2>6, <2>7 DEF Local
<1>30. CASE CloseSubmit(r)
  BY <1>1, <1>2, <1>3, <1>4, <1>30
     DEF CloseSubmit, At, Go, tables, RunState, Local, Shape, Order, Cleared, Gated, Once, PastExecution, PastLevel2, Level2, Placed, OpenSlot, Slots, OpenSlots, Over
<1>31. CASE CloseSubmitFails(r)
  BY <1>1, <1>2, <1>3, <1>4, <1>31
     DEF CloseSubmitFails, At, Go, tables, RunState, Local, Shape, Order, Cleared, Gated, Once, PastExecution, PastLevel2, Level2, Placed, OpenSlot, Slots, OpenSlots, Over
<1>32. CASE ClosePersist(r)
  BY <1>1, <1>2, <1>3, <1>4, <1>32
     DEF ClosePersist, At, Go, tables, RunState, Local, Shape, Order, Cleared, Gated, Once, PastExecution, PastLevel2, Level2, Placed, OpenSlot, Slots, OpenSlots, Over
<1>33. CASE RecordChange(r)
  <2>1. run[r].pc = "change"
    BY <1>33 DEF RecordChange, At
  <2>2. \/ /\ run'[r].pc = "snapshot" /\ run'[r].node = run[r].node
           /\ run'[r].nested = run[r].nested /\ run'[r].decision = run[r].decision
        \/ /\ run'[r].pc = "enter" /\ run'[r].node = "STRATEGY_EVALUATION"
           /\ run'[r].nested /\ run'[r].decision = "none"
    BY <1>1, <1>33 DEF RecordChange, Go, Reopened, RunState
  <2>3. book' = book /\ checks' = checks
    BY <1>33 DEF RecordChange
  <2>4. Shape(r)' /\ Order(r)'
    BY <2>1, <2>2, <2>3 DEF Local, Shape, Order, PastExecution, PastLevel2, Level2, Placed, Over, At
  <2>5. Cleared(r)' /\ Gated(r)' /\ Once(r)'
    BY <2>1, <2>2, <2>3 DEF Local, Shape, Cleared, Gated, Once, Placed, Level2, OpenSlot, Over, At
  <2>6. QED
    BY <2>4, <2>5 DEF Local
<1>34. CASE Snapshot(r)
  <2>1. CASE End(r, "done")
    BY <1>34, <2>1, OverIsLocal DEF Snapshot, tables, Over
  <2>2. CASE Go(r, "exit")
    BY <1>1, <1>2, <1>3, <1>4, <1>34, <2>2
     DEF Snapshot, At, Go, tables, RunState, Local, Shape, Order, Cleared, Gated, Once, PastExecution, PastLevel2, Level2, Placed, OpenSlot, Slots, OpenSlots, Over
  <2> QED
    BY <1>34, <2>1, <2>2 DEF Snapshot
<1>35. CASE Crash(r)
  BY <1>35, OverIsLocal DEF Crash, tables, Over
<1>36. CASE CrashInSubmit(r)
  <2>1. run'[r].pc = "crashed" /\ run'[r].nested = FALSE /\ run'[r].decision = "none"
    BY <1>36, EndIs DEF CrashInSubmit, Over
  <2> QED
    BY <1>1, <1>2, <1>3, <1>4, <1>36, <2>1
     DEF CrashInSubmit, At, tables, Local, Shape, Order, Cleared, Gated, Once, PastExecution, PastLevel2, Level2, Placed, OpenSlot, Slots, OpenSlots, Over
<1> QED
  BY <1>6, <1>7, <1>8, <1>9, <1>10, <1>11, <1>12, <1>13, <1>14, <1>15, <1>16, <1>17, <1>18, <1>19, <1>20, <1>21, <1>22, <1>23, <1>24, <1>25, <1>26, <1>27, <1>28, <1>29, <1>30, <1>31, <1>32, <1>33, <1>34, <1>35, <1>36
     DEF Act, Step, Graph, Execution, Monitoring

-----------------------------------------------------------------------------
(* The parts that relate the invocations                                    *)

\* Only what puts an order in somebody's hand, or on file, changes what
\* OrderOnFile and Alone speak about.  Without gaps after a step there were
\* none before it.
LEMMA NoGapsBefore ==
  ASSUME NEW r, Frame(r), gaps' = {}
  PROVE  gaps = {}
BY DEF Frame

\* An invocation that is idle or over stays out of the way: what starts it
\* while another one works leaves the gap "overlap".
LEMMA AloneStep ==
  ASSUME TypeOK, Alone, NEW r \in Runs, Act(r), gaps' = {}
  PROVE  \A p, q \in Runs : Active(p)' /\ Active(q)' => p = q
<1>1. Frame(r)
  BY ActFrame
<1>2. gaps = {}
  BY <1>1, NoGapsBefore
<1>3. \A q \in Runs \ {r} : Active(q)' <=> Active(q)
  BY <1>1, FrameOthers DEF Active
<1>4. CASE Active(r)
  BY <1>2, <1>3, <1>4 DEF Alone
<1>5. CASE ~Active(r)
  <2>1. InvokeCycle(r) \/ InvokeTick(r)
    <3>1. Graph(r) => Active(r)
      BY DEF Graph, Active, At, AtNode, Over, Enter, Exit, ExitMonitoring, ExitReopen,
             InitialBody, AnalyzingBody, StrategyBody, RiskBody, RiskBodyFails
    <3>2. Execution(r) => Active(r)
      BY DEF Execution, Active, AtNode, Over, SkipGuarded, PassGuard, AbortBeforeSubmit,
             PlanRaises, Submit, SubmitUnmappable, SubmitFails, PersistOrder
    <3>3. Monitoring(r) => Active(r)
      BY DEF Monitoring, Active, At, AtNode, Over, Level1, Assess, CloseStops, CloseGate,
             ClosePlanFails, CloseSubmit, CloseSubmitFails, ClosePersist, RecordChange, Snapshot
    <3>4. Crash(r) \/ CrashInSubmit(r) => Active(r)
      BY DEF Active, Over, Crash, CrashInSubmit
    <3>5. QED
      BY <1>5, <3>1, <3>2, <3>3, <3>4 DEF Act, Step
  <2>2. \A q \in Runs : ~Active(q)
    BY <2>1 DEF InvokeCycle, InvokeTick, Overlap
  <2>3. QED
    BY <1>3, <2>2
<1> QED
  BY <1>4, <1>5

\* What a step that leaves no gap does to the broker and to the orders table: it
\* places nothing and files nothing (and passes the guard of EXECUTION only on
\* an empty table); or it places an order and holds it; or it files the order
\* it holds.
Quiet(r) ==
  /\ book' = book /\ orders' = orders
  /\ \A s \in Slots : ~Persisting(r, s)
  /\ At(r, "submit")' => orders = {}

Places(r, s) ==
  /\ Active(r) /\ Place(r, s) /\ orders' = orders
  /\ Persisting(r, s)' /\ ~At(r, "submit")'
  /\ \A t \in Slots : ~Persisting(r, t)
  /\ s \in OpenSlots => At(r, "submit")

Files(r, s) ==
  /\ Active(r) /\ book' = book /\ orders' = orders \cup {<<r, s>>}
  /\ ~At(r, "submit")'
  /\ \A t \in Slots : Persisting(r, t) => t = s

\* Without gaps a step does one of three things: nothing that shows outside, an
\* order to the broker, or a row for the order just placed.
LEMMA Effect ==
  ASSUME TypeOK, NEW r \in Runs, Local(r), Act(r), gaps' = {}
  PROVE  Quiet(r) \/ \E s \in Slots : Places(r, s) \/ Files(r, s)
<1>1. run[r] \in RunState /\ \A st : Become(r, st) => run'[r] = st
  BY DEF TypeOK, Become
<1>2. OpenSlot(r) \in Slots /\ "close" \in Slots /\ OpenSlots = Slots \ {"close"}
  BY OpenSlotType DEF Slots, OpenSlots
<1>3. CASE InvokeCycle(r)
  <2>1. Quiet(r)
    BY <1>1, <1>2, <1>3 DEF InvokeCycle, At, Persisting, tables, RunState, Quiet
  <2>2. QED
    BY <2>1
<1>4. CASE InvokeTick(r)
  <2>1. Quiet(r)
    BY <1>1, <1>2, <1>4 DEF InvokeTick, At, Persisting, tables, RunState, Quiet
  <2>2. QED
    BY <2>1
<1>5. CASE Enter(r)
  <2>1. Quiet(r)
    BY <1>1, <1>2, <1>5 DEF Enter, At, Go, Persisting, tables, RunState, Quiet
  <2>2. QED
    BY <2>1
<1>6. CASE Exit(r)
  <2>1. Quiet(r)
    BY <1>1, <1>2, <1>6 DEF Exit, At, Persisting, tables, RunState, Quiet
  <2>2. QED
    BY <2>1
<1>7. CASE ExitMonitoring(r)
  <2>1. Quiet(r)
    BY <1>1, <1>2, <1>7 DEF ExitMonitoring, AtNode, End, Idle, At, Persisting, tables, RunState, Quiet
  <2>2. QED
    BY <2>1
<1>8. CASE ExitReopen(r)
  <2>1. Quiet(r)
    BY <1>1, <1>2, <1>8 DEF ExitReopen, AtNode, At, Persisting, tables, RunState, Quiet
  <2>2. QED
    BY <2>1
<1>9. CASE InitialBody(r)
  <2>1. Quiet(r)
    BY <1>1, <1>2, <1>9 DEF InitialBody, AtNode, Go, At, Persisting, tables, RunState, Quiet
  <2>2. QED
    BY <2>1
<1>10. CASE AnalyzingBody(r)
  <2>1. Quiet(r)
    BY <1>1, <1>2, <1>10 DEF AnalyzingBody, AtNode, Halt, At, Persisting, tables, RunState, Quiet
  <2>2. QED
    BY <2>1
<1>11. CASE StrategyBody(r)
  <2>1. Quiet(r)
    BY <1>1, <1>2, <1>11 DEF StrategyBody, AtNode, Halt, At, Persisting, tables, RunState, Quiet
  <2>2. QED
    BY <2>1
<1>12. CASE RiskBody(r)
  <2>1. Quiet(r)
    BY <1>1, <1>2, <1>12 DEF RiskBody, AtNode, At, Persisting, tables, RunState, Quiet
  <2>2. QED
    BY <2>1
<1>13. CASE RiskBodyFails(r)
  <2>1. Quiet(r)
    BY <1>1, <1>2, <1>13 DEF RiskBodyFails, AtNode, Halt, At, Persisting, tables, RunState, Quiet
  <2>2. QED
    BY <2>1
<1>14. CASE SkipGuarded(r)
  <2>1. Quiet(r)
    BY <1>1, <1>2, <1>14 DEF SkipGuarded, AtNode, Go, At, Persisting, tables, RunState, Quiet
  <2>2. QED
    BY <2>1
<1>15. CASE PassGuard(r)
  <2>1. Quiet(r)
    BY <1>1, <1>2, <1>15 DEF PassGuard, AtNode, Go, At, Persisting, tables, RunState, Quiet, OnFile
  <2>2. QED
    BY <2>1
<1>16. CASE AbortBeforeSubmit(r)
  <2>1. Quiet(r)
    BY <1>1, <1>2, <1>16 DEF AbortBeforeSubmit, AtNode, Go, WriteFailure, At, Persisting, tables, RunState, Quiet
  <2>2. QED
    BY <2>1
<1>17. CASE PlanRaises(r)
  <2>1. Quiet(r)
    BY <1>1, <1>2, <1>17 DEF PlanRaises, AtNode, Escape, End, Idle, At, Persisting, tables, RunState, Quiet
  <2>2. QED
    BY <2>1
<1>18. CASE Submit(r)
  <2>1. Places(r, OpenSlot(r))
    BY <1>1, <1>2, <1>18 DEF Submit, AtNode, At, Persisting, tables, RunState, Active, Over, OpenSlot, Places, OpenSlots
  <2>2. QED
    BY <1>2, <2>1
<1>19. CASE SubmitUnmappable(r)
  BY <1>19 DEF SubmitUnmappable
<1>20. CASE SubmitFails(r)
  <2>1. Quiet(r)
    BY <1>1, <1>2, <1>20 DEF SubmitFails, AtNode, Halt, WriteFailure, At, Persisting, tables, RunState, Quiet
  <2>2. QED
    BY <2>1
<1>21. CASE PersistOrder(r)
  <2>1. Files(r, OpenSlot(r))
    BY <1>1, <1>2, <1>21 DEF PersistOrder, AtNode, At, Persisting, tables, RunState, Active, Over, OpenSlot, Files, Writes
  <2>2. QED
    BY <1>2, <2>1
<1>22. CASE Level1(r)
  <2>1. Quiet(r)
    BY <1>1, <1>2, <1>22 DEF Level1, AtNode, Go, At, Persisting, tables, RunState, Quiet
  <2>2. QED
    BY <2>1
<1>23. CASE Assess(r)
  <2>1. Quiet(r)
    BY <1>1, <1>2, <1>23 DEF Assess, At, Go, Reopened, Persisting, tables, RunState, Quiet
  <2>2. QED
    BY <2>1
<1>24. CASE CloseStops(r)
  <2>1. Quiet(r)
    BY <1>1, <1>2, <1>24 DEF CloseStops, At, Go, Persisting, tables, RunState, Quiet
  <2>2. QED
    BY <2>1
<1>25. CASE CloseGate(r)
  <2>1. Quiet(r)
    BY <1>1, <1>2, <1>25 DEF CloseGate, At, Go, CloseCleared, Persisting, tables, RunState, Quiet
  <2>2. QED
    BY <2>1
<1>26. CASE ClosePlanFails(r)
  <2>1. Quiet(r)
    BY <1>1, <1>2, <1>26 DEF ClosePlanFails, At, Go, CloseCleared, Reopened, Persisting, tables, RunState, Quiet
  <2>2. QED
    BY <2>1
<1>27. CASE CloseSubmit(r)
  <2>1. Places(r, "close")
    BY <1>1, <1>2, <1>27 DEF CloseSubmit, At, Go, Persisting, tables, RunState, Active, Over, OpenSlot, Places, OpenSlots
  <2>2. QED
    BY <1>2, <2>1
<1>28. CASE CloseSubmitFails(r)
  <2>1. Quiet(r)
    BY <1>1, <1>2, <1>28 DEF CloseSubmitFails, At, Go, Persisting, tables, RunState, Quiet
  <2>2. QED
    BY <2>1
<1>29. CASE ClosePersist(r)
  <2>1. Files(r, "close")
    BY <1>1, <1>2, <1>29 DEF ClosePersist, At, Go, Persisting, tables, RunState, Active, Over, OpenSlot, Files, Writes
  <2>2. QED
    BY <1>2, <2>1
<1>30. CASE RecordChange(r)
  <2>1. Quiet(r)
    BY <1>1, <1>2, <1>30 DEF RecordChange, At, Go, Reopened, Persisting, tables, RunState, Quiet
  <2>2. QED
    BY <2>1
<1>31. CASE Snapshot(r)
  <2>1. Quiet(r)
    BY <1>1, <1>2, <1>31 DEF Snapshot, At, Go, End, Idle, Persisting, tables, RunState, Quiet
  <2>2. QED
    BY <2>1
<1>32. CASE Crash(r)
  <2>1. Quiet(r)
    BY <1>1, <1>2, <1>32 DEF Crash, End, Idle, At, Persisting, tables, RunState, Quiet, InHand, Active
  <2>2. QED
    BY <2>1
<1>33. CASE CrashInSubmit(r)
  BY <1>33 DEF CrashInSubmit
<1> QED
  BY <1>3, <1>4, <1>5, <1>6, <1>7, <1>8, <1>9, <1>10, <1>11, <1>12, <1>13, <1>14, <1>15, <1>16, <1>17, <1>18, <1>19, <1>20, <1>21, <1>22, <1>23, <1>24, <1>25, <1>26, <1>27, <1>28, <1>29, <1>30, <1>31, <1>32, <1>33
     DEF Act, Step, Graph, Execution, Monitoring

\* Every step keeps the orders table abreast of the broker (_persist_submitted_order).
LEMMA OrderOnFileStep ==
  ASSUME IInv, NEW r \in Runs, Act(r)
  PROVE  OrderOnFile'
<1> SUFFICES ASSUME gaps' = {}, NEW q \in Runs, NEW t \in Slots, Placed(q, t)'
             PROVE  <<q, t>> \in orders' \/ Persisting(q, t)'
  BY DEF OrderOnFile
<1>1. TypeOK /\ Local(r) /\ OrderOnFile /\ Frame(r)
  BY ActFrame DEF IInv
<1>2. /\ \A p \in Runs, s \in Slots : Placed(p, s) => <<p, s>> \in orders \/ Persisting(p, s)
      /\ orders \subseteq orders'
  BY <1>1, NoGapsBefore DEF OrderOnFile, Frame
<1>3. CASE q # r
  <2>1. run'[q] = run[q] /\ book'[<<q, t>>] = book[<<q, t>>]
    BY <1>1, <1>3, FrameOthers
  <2>2. Placed(q, t) /\ (Persisting(q, t)' <=> Persisting(q, t))
    BY <2>1 DEF Placed, Persisting, At, OpenSlot
  <2>3. QED
    BY <1>2, <2>2
<1>4. CASE q = r
  <2>1. Quiet(r) \/ \E s \in Slots : Places(r, s) \/ Files(r, s)
    BY <1>1, Effect
  <2>2. CASE Quiet(r)
    BY <1>2, <1>4, <2>2 DEF Quiet, Placed
  <2>3. ASSUME NEW s \in Slots, Places(r, s)
        PROVE  <<q, t>> \in orders' \/ Persisting(q, t)'
    <3>1. CASE t = s
      BY <1>4, <2>3, <3>1 DEF Places
    <3>2. CASE t # s
      <4>1. Placed(r, t)
        BY <1>1, <1>4, <2>3, <3>2 DEF Places, Place, Placed, TypeOK
      <4>2. QED
        BY <1>2, <1>4, <2>3, <4>1 DEF Places
    <3>3. QED
      BY <3>1, <3>2
  <2>4. ASSUME NEW s \in Slots, Files(r, s)
        PROVE  <<q, t>> \in orders' \/ Persisting(q, t)'
    BY <1>2, <1>4, <2>4 DEF Files, Placed
  <2>5. QED
    BY <2>1, <2>2, <2>3, <2>4
<1> QED
  BY <1>3, <1>4

\* Every step keeps invocations apart and the guard of EXECUTION fresh, without gaps.
LEMMA AloneInvStep ==
  ASSUME IInv, NEW r \in Runs, Act(r)
  PROVE  Alone'
<1> SUFFICES ASSUME gaps' = {}
             PROVE  /\ \A p, q \in Runs : Active(p)' /\ Active(q)' => p = q
                    /\ \A q \in Runs : At(q, "submit")' => orders' = {}
  BY DEF Alone
<1>1. TypeOK /\ Local(r) /\ Alone /\ Frame(r)
  BY ActFrame DEF IInv
<1>2. gaps = {}
  BY <1>1, NoGapsBefore
<1>3. \A p, q \in Runs : Active(p)' /\ Active(q)' => p = q
  BY <1>1, AloneStep
<1>4. ASSUME NEW q \in Runs, At(q, "submit")'
      PROVE  orders' = {}
  <2>1. Quiet(r) \/ \E s \in Slots : Places(r, s) \/ Files(r, s)
    BY <1>1, Effect
  <2>2. CASE q = r
    BY <1>4, <2>1, <2>2 DEF Quiet, Places, Files
  <2>3. CASE q # r
    <3>1. At(q, "submit") /\ Active(q)
      BY <1>1, <1>4, <2>3, FrameOthers DEF At, Active, Over
    <3>2. orders = {} /\ ~Active(r)
      BY <1>1, <1>2, <2>3, <3>1 DEF Alone
    <3>3. QED
      BY <2>1, <3>2 DEF Quiet, Places, Files
  <2>4. QED
    BY <2>2, <2>3
<1> QED
  BY <1>3, <1>4

\* Every step keeps the cycle to one order that opens protection, without gaps
\* (_order_already_on_file).
LEMMA OneOpenOrderStep ==
  ASSUME IInv, NEW r \in Runs, Act(r)
  PROVE  OneOpenOrder'
<1> SUFFICES ASSUME gaps' = {}, NEW p \in Runs, NEW q \in Runs,
                    NEW s \in OpenSlots, NEW t \in OpenSlots, Placed(p, s)', Placed(q, t)'
             PROVE  p = q /\ s = t
  BY DEF OneOpenOrder
<1>1. TypeOK /\ Local(r) /\ Alone /\ OrderOnFile /\ OneOpenOrder /\ Frame(r)
  BY ActFrame DEF IInv
<1>2. gaps = {}
  BY <1>1, NoGapsBefore
<1>3. OpenSlots \subseteq Slots /\ "close" \notin OpenSlots
  BY DEF OpenSlots, Slots
<1>4. Quiet(r) \/ \E u \in Slots : Places(r, u) \/ Files(r, u)
  BY <1>1, Effect
<1>5. CASE book' = book
  BY <1>1, <1>2, <1>5 DEF OneOpenOrder, Placed
<1>6. ASSUME NEW u \in Slots, Places(r, u)
      PROVE  p = q /\ s = t
  <2>1. \A x \in Runs, y \in Slots : <<x, y>> # <<r, u>> /\ Placed(x, y)' => Placed(x, y)
    BY <1>1, <1>6 DEF Places, Place, Placed, TypeOK
  <2>2. CASE u \notin OpenSlots
    BY <1>1, <1>2, <1>3, <2>1, <2>2 DEF OneOpenOrder
  <2>3. CASE u \in OpenSlots
    <3>1. orders = {} /\ Active(r)
      BY <1>1, <1>2, <1>6, <2>3 DEF Places, Alone
    <3>2. \A x \in Runs, y \in Slots : ~Placed(x, y)
      <4> SUFFICES ASSUME NEW x \in Runs, NEW y \in Slots, Placed(x, y)
                   PROVE  FALSE
        OBVIOUS
      <4>1. Persisting(x, y)
        BY <1>1, <1>2, <3>1 DEF OrderOnFile
      <4>2. Active(x)
        BY <4>1 DEF Persisting, At, Active, Over
      <4>3. x = r
        BY <1>1, <1>2, <3>1, <4>2 DEF Alone
      <4>4. QED
        BY <1>6, <4>1, <4>3 DEF Places
    <3>3. p = r /\ s = u /\ q = r /\ t = u
      BY <1>3, <2>1, <3>2
    <3>4. QED
      BY <3>3
  <2>4. QED
    BY <2>2, <2>3
<1> QED
  BY <1>4, <1>5, <1>6 DEF Quiet, Files

-----------------------------------------------------------------------------
(* The inductive invariant                                                  *)

\* Initially nothing is placed, on file or judged.
LEMMA IInvInit == Init => IInv
<1> SUFFICES ASSUME Init
             PROVE  IInv
  OBVIOUS
<1>1. Idle \in RunState
  BY DEF Idle, RunState, Steps, Over, Nodes, Outcomes
<1>2. TypeOK
  BY <1>1 DEF Init, TypeOK, Verdicts
<1>3. \A r \in Runs : run[r].pc = "idle" /\ run[r].node = "INITIAL" /\ ~run[r].nested
                      /\ run[r].decision = "none"
  BY DEF Init, Idle
<1>4. \A r \in Runs, s \in Slots : book[<<r, s>>] = 0
  BY DEF Init
<1>5. "primary" \in Slots /\ "close" \in Slots /\ "reopen" \in Slots /\ OpenSlots \subseteq Slots
  BY DEF Slots, OpenSlots
<1>6. ASSUME NEW r \in Runs
      PROVE  Local(r)
  <2>1. Shape(r) /\ Cleared(r)
    BY <1>3 DEF Shape, Cleared, At, Level2
  <2>2. Order(r) /\ Gated(r) /\ Once(r)
    BY <1>4, <1>5 DEF Init, Order, Gated, Once, Placed
  <2>3. QED
    BY <2>1, <2>2 DEF Local
<1>7. Alone
  BY <1>3 DEF Alone, Active, At
<1>8. OrderOnFile /\ OneOpenOrder
  BY <1>4, <1>5 DEF OrderOnFile, OneOpenOrder, Placed
<1> QED
  BY <1>2, <1>6, <1>7, <1>8 DEF IInv

\* Every step keeps the inductive invariant.
LEMMA IInvStep == IInv /\ [Next]_vars => IInv'
<1> SUFFICES ASSUME IInv, [Next]_vars
             PROVE  IInv'
  OBVIOUS
<1>1. ASSUME NEW r \in Runs, Act(r)
      PROVE  IInv'
  <2>1. TypeOK /\ (\A q \in Runs : Local(q)) /\ Frame(r)
    BY <1>1, ActFrame DEF IInv
  <2>2. TypeOK'
    BY <2>1, FrameType
  <2>3. \A q \in Runs : Local(q)'
    BY <1>1, <2>1, LocalStep, LocalOthers
  <2>4. Alone' /\ OrderOnFile' /\ OneOpenOrder'
    BY <1>1, AloneInvStep, OrderOnFileStep, OneOpenOrderStep
  <2>5. QED
    BY <2>2, <2>3, <2>4 DEF IInv
<1>2. CASE UNCHANGED vars
  <2>1. TypeOK'
    BY <1>2 DEF IInv, TypeOK, vars
  <2>2. ASSUME NEW q \in Runs
        PROVE  Local(q)'
    BY <1>2 DEF IInv, vars, Local, Shape, Order, Cleared, Gated, Once, At, Placed, OpenSlot,
                PastExecution, PastLevel2
  <2>3. Alone' /\ OrderOnFile' /\ OneOpenOrder'
    BY <1>2 DEF IInv, vars, Alone, OrderOnFile, OneOpenOrder, Active, At, Placed, Persisting,
                OpenSlot
  <2>4. QED
    BY <2>1, <2>2, <2>3 DEF IInv
<1> QED
  BY <1>1, <1>2 DEF Next

\* The inductive invariant holds in every state.
THEOREM Invariance == Spec => []IInv
BY IInvInit, IInvStep, PTL DEF Spec

-----------------------------------------------------------------------------
(* The properties                                                           *)

\* Type correctness of a hedge cycle, for any invocations.
THEOREM TypeCorrect == Spec => []TypeOK
<1>1. IInv => TypeOK
  BY DEF IInv
<1> QED
  BY <1>1, Invariance, PTL

\* No order and no hedge_changes row without the clearance of the risk gate.
THEOREM OrdersAreGated == Spec => []GatedOrders
<1>1. IInv => GatedOrders
  BY DEF IInv, Local, Gated, GatedOrders
<1> QED
  BY <1>1, Invariance, PTL

\* An invocation submits from each place at most once.
THEOREM SubmittedOnce == Spec => []SubmitOnce
<1>1. IInv => SubmitOnce
  BY DEF IInv, Local, Once, SubmitOnce
<1> QED
  BY <1>1, Invariance, PTL

\* Without a gap the orders table misses no order but the one just placed.
THEOREM OrdersOnFile == Spec => []OrderOnFile
<1>1. IInv => OrderOnFile
  BY DEF IInv
<1> QED
  BY <1>1, Invariance, PTL

\* Without a gap a cycle_id opens protection at most once, however many
\* invocations, ticks and reopen cycles work under it.
THEOREM AtMostOneOpenOrder == Spec => []OneOpenOrder
<1>1. IInv => OneOpenOrder
  BY DEF IInv
<1> QED
  BY <1>1, Invariance, PTL

-----------------------------------------------------------------------------
(* What becomes of an approved hedge                                        *)

\* An approved order is on its way through EXECUTION, ...
Underway(r, s) ==
  /\ OpenSlot(r) = s /\ run[r].decision = "clear"
  /\ \/ AtNode(r, "RISK_CHECK", "exit")
     \/ run[r].node = "EXECUTION" /\ run[r].pc \in {"enter", "body", "submit", "persist"}

\* ... and a close on its way through apply_change; ...
Closing(r) == run[r].pc \in {"closesubmit", "closepersist", "change"}

\* ... either can be cut off on the way without a row.
CutOff(r, s) ==
  run[r].pc \in {"raised", "crashed"} \/ run[r].flaky \/ s \in run[r].escaped

Recorded(r, s) == <<r, s>> \in orders \cup failures

Told(r, s) ==
  checks[<<r, s>>] = "clear" => Underway(r, s) \/ CutOff(r, s) \/ Recorded(r, s) \/ KeptBack(r, s)

ToldClose(r) ==
  checks[<<r, "close">>] = "clear" => Closing(r) \/ CutOff(r, "close") \/ r \in changes

\* The orders table has no order the broker never got, and what is about to be filed was
\* placed.
Held(r) ==
  /\ At(r, "idle") => run[r].flaky = FALSE
  /\ At(r, "submit") => run[r].decision = "clear"
  /\ At(r, "persist") => Placed(r, OpenSlot(r))
  /\ At(r, "closepersist") => Placed(r, "close")
  /\ \A s \in Slots : <<r, s>> \in orders => Placed(r, s)

Accounted(r) == Held(r) /\ (\A s \in OpenSlots : Told(r, s)) /\ ToldClose(r)

\* What a step does to the accounts: an approval it gives, carries on or places goes on, is
\* cut off, or is told of by a row.
Handled(r) ==
  /\ run[r].pc \notin {"raised", "crashed"}
  /\ run[r].escaped \subseteq run'[r].escaped
  /\ run'[r].flaky = run[r].flaky \/ At(r, "idle")
  /\ \A s \in OpenSlots :
       \/ Underway(r, s)
       \/ checks'[<<r, s>>] # checks[<<r, s>>]
       \/ Placed(r, s)' /\ ~Placed(r, s)
       => \/ Underway(r, s)' \/ CutOff(r, s)' \/ Recorded(r, s)' \/ KeptBack(r, s)'
          \/ checks'[<<r, s>>] # "clear"
  /\ Closing(r) \/ checks'[<<r, "close">>] # checks[<<r, "close">>]
       => Closing(r)' \/ CutOff(r, "close")' \/ r \in changes' \/ checks'[<<r, "close">>] # "clear"

\* A step that handles its approvals keeps account of them.
LEMMA ToldKept ==
  ASSUME TypeOK, NEW r \in Runs, Frame(r), Accounted(r), Handled(r), Held(r)'
  PROVE  Accounted(r)'
<1>1. orders \subseteq orders' /\ failures \subseteq failures' /\ changes \subseteq changes'
  BY DEF Frame
<1>2. \A s : CutOff(r, s) => CutOff(r, s)'
  BY DEF CutOff, Handled, Accounted, Held
<1>3. ASSUME NEW s \in OpenSlots
      PROVE  Told(r, s)'
  <2>1. Told(r, s)
    BY DEF Accounted
  <2>2. Recorded(r, s) => Recorded(r, s)'
    BY <1>1 DEF Recorded
  <2>3. KeptBack(r, s) => KeptBack(r, s)' \/ (Placed(r, s)' /\ ~Placed(r, s))
    BY <1>1 DEF KeptBack
  <2> QED
    BY <1>2, <2>1, <2>2, <2>3 DEF Told, Handled
<1>4. ToldClose(r)'
  BY <1>1, <1>2 DEF ToldClose, Handled, Accounted
<1> QED
  BY <1>3, <1>4 DEF Accounted

\* A step that places, files and judges nothing, and carries on or tells of what it has in
\* hand, keeps account of its approvals.
LEMMA AsideStep ==
  ASSUME TypeOK, NEW r \in Runs, Frame(r), Accounted(r), UNCHANGED <<book, orders, checks>>,
         run[r].pc \notin {"raised", "crashed"},
         run'[r].pc \notin {"idle", "submit", "persist", "closepersist"},
         run'[r].flaky = run[r].flaky \/ At(r, "idle"),
         run[r].escaped \subseteq run'[r].escaped,
         \A s \in OpenSlots :
           Underway(r, s) => Underway(r, s)' \/ CutOff(r, s)' \/ Recorded(r, s)',
         Closing(r) => Closing(r)' \/ CutOff(r, "close")' \/ r \in changes'
  PROVE  Accounted(r)'
<1>1. \A s : Placed(r, s)' <=> Placed(r, s)
  BY DEF Placed
<1>2. Held(r)'
  BY <1>1 DEF Held, Accounted, At
<1>3. Handled(r)
  BY <1>1 DEF Handled
<1> QED
  BY <1>2, <1>3, ToldKept

\* Every step handles its approvals.
LEMMA AccountedStep ==
  ASSUME TypeOK, NEW r \in Runs, Local(r), Accounted(r), Act(r)
  PROVE  Accounted(r)'
<1>1. run[r] \in RunState /\ \A st : Become(r, st) => run'[r] = st
  BY DEF TypeOK, Become
<1>2. \A s, t \in Slots : \A v :
        checks' = [checks EXCEPT ![<<r, s>>] = v] =>
          checks'[<<r, t>>] = IF t = s THEN v ELSE checks[<<r, t>>]
  BY DEF TypeOK
<1>3. /\ Frame(r) /\ OpenSlot(r) \in OpenSlots
      /\ OpenSlots = {"primary", "reopen"} /\ Slots = OpenSlots \cup {"close"}
  BY ActFrame DEF OpenSlot, OpenSlots, Slots
<1>4. Shape(r) /\ Order(r) /\ Held(r)
  BY DEF Local, Accounted
<1>5. \A s, t \in Slots :
        /\ Place(r, s) => (Placed(r, t)' <=> t = s \/ Placed(r, t))
        /\ book' = book => (Placed(r, t)' <=> Placed(r, t))
  BY DEF TypeOK, Place, Placed
<1>6. Handled(r) /\ Held(r)' => Accounted(r)'
  BY <1>3, ToldKept
<1>7. \A s \in Slots : s \in Slots /\ (s \in OpenSlots <=> s # "close")
  BY <1>3
<1>8. CASE InvokeCycle(r)
  <2>1. /\ run[r].pc = "idle" /\ run'[r].pc \in {"enter", "body"}
        /\ run'[r].escaped = run[r].escaped /\ UNCHANGED <<book, orders, checks>>
    BY <1>1, <1>8 DEF InvokeCycle, Flakiness, tables, RunState, At
  <2> QED
    BY <1>3, <2>1, AsideStep DEF Underway, Closing, At, AtNode
<1>9. CASE InvokeTick(r)
  <2>1. /\ run[r].pc = "idle" /\ run'[r].pc \in {"enter", "body"}
        /\ run'[r].escaped = run[r].escaped /\ UNCHANGED <<book, orders, checks>>
    BY <1>1, <1>9 DEF InvokeTick, Flakiness, tables, RunState, At
  <2> QED
    BY <1>3, <2>1, AsideStep DEF Underway, Closing, At, AtNode
<1>10. CASE Enter(r)
  <2>1. Handled(r) /\ Held(r)'
    BY <1>1, <1>2, <1>3, <1>4, <1>5, <1>10
       DEF Enter, Go, Handled, Held, Underway, Closing, CutOff, Recorded, OpenSlot, At, AtNode, tables, RunState, Shape, Level2, Over
  <2> QED
    BY <1>6, <2>1
<1>11. CASE Exit(r)
  <2>1. /\ run[r].pc = "exit" /\ run'[r].pc = "enter" /\ run'[r].node = NextNode(r)
        /\ run'[r].nested = run[r].nested
        /\ NextNode(r) # "MONITORING" => run'[r].decision = run[r].decision
        /\ run'[r].escaped = run[r].escaped /\ run'[r].flaky = run[r].flaky
        /\ UNCHANGED <<book, orders, checks>>
    BY <1>1, <1>11 DEF Exit, tables, RunState, At
  <2>2. run[r].node = "RISK_CHECK" /\ run[r].decision = "clear" => NextNode(r) = "EXECUTION"
    BY DEF NextNode
  <2>3. ASSUME NEW s \in OpenSlots, Underway(r, s)
        PROVE  Underway(r, s)'
    BY <2>1, <2>2, <2>3 DEF Underway, OpenSlot, AtNode
  <2> QED
    BY <1>3, <2>1, <2>3, AsideStep DEF Closing, At
<1>12. CASE ExitReopen(r)
  <2>1. /\ run[r].pc = "exit" /\ run'[r].pc = "snapshot"
        /\ run'[r].escaped = run[r].escaped /\ run'[r].flaky = run[r].flaky
        /\ UNCHANGED <<book, orders, checks>>
        /\ run[r].node = "MONITORING"
    BY <1>1, <1>12 DEF ExitReopen, tables, RunState, At, AtNode
  <2> QED
    BY <1>3, <2>1, AsideStep DEF Underway, Closing, At, AtNode
<1>13. CASE InitialBody(r)
  <2>1. Handled(r) /\ Held(r)'
    BY <1>1, <1>2, <1>3, <1>4, <1>5, <1>13
       DEF InitialBody, Go, Handled, Held, Underway, Closing, CutOff, Recorded, OpenSlot, At, AtNode, tables, RunState, Shape, Level2, Over
  <2> QED
    BY <1>6, <2>1
<1>14. CASE AnalyzingBody(r)
  <2>1. /\ run[r].pc = "body" /\ run'[r].pc = "exit"
        /\ run'[r].escaped = run[r].escaped /\ run'[r].flaky = run[r].flaky
        /\ UNCHANGED <<book, orders, checks>>
        /\ run[r].node = "ANALYZING"
    BY <1>1, <1>14 DEF AnalyzingBody, Halt, tables, RunState, At, AtNode
  <2> QED
    BY <1>3, <2>1, AsideStep DEF Underway, Closing, At, AtNode
<1>15. CASE StrategyBody(r)
  <2>1. /\ run[r].pc = "body" /\ run'[r].pc = "exit"
        /\ run'[r].escaped = run[r].escaped /\ run'[r].flaky = run[r].flaky
        /\ UNCHANGED <<book, orders, checks>>
        /\ run[r].node = "STRATEGY_EVALUATION"
    BY <1>1, <1>15 DEF StrategyBody, Halt, tables, RunState, At, AtNode
  <2> QED
    BY <1>3, <2>1, AsideStep DEF Underway, Closing, At, AtNode
<1>16. CASE RiskBody(r)
  <2>1. /\ run[r].pc = "body" /\ run[r].node = "RISK_CHECK" /\ run'[r].pc = "exit"
        /\ run'[r].node = run[r].node /\ run'[r].nested = run[r].nested
        /\ run'[r].escaped = run[r].escaped /\ run'[r].flaky = run[r].flaky
        /\ UNCHANGED <<book, orders>>
    BY <1>1, <1>16 DEF RiskBody, RunState, At, AtNode
  <2>2. /\ \A s \in Slots : s # OpenSlot(r) => checks'[<<r, s>>] = checks[<<r, s>>]
        /\ checks'[<<r, OpenSlot(r)>>] = run'[r].decision
    <3>1. PICK v \in {"clear", "reject"} :
            /\ Become(r, [run[r] EXCEPT !.pc = "exit", !.decision = v])
            /\ checks' = [checks EXCEPT ![<<r, OpenSlot(r)>>] = v]
      BY <1>16 DEF RiskBody
    <3>2. run'[r].decision = v
      BY <1>1, <3>1 DEF RunState
    <3>3. OpenSlot(r) \in Slots
      BY <1>3
    <3>4. \A s \in Slots : checks'[<<r, s>>] = IF s = OpenSlot(r) THEN v ELSE checks[<<r, s>>]
      BY <1>2, <3>1, <3>3
    <3> QED
      BY <3>2, <3>3, <3>4
  <2>3. ASSUME NEW s \in OpenSlots
        PROVE  ~Underway(r, s) /\ (Placed(r, s)' <=> Placed(r, s))
                 /\ (s = OpenSlot(r) => Underway(r, s)' \/ checks'[<<r, s>>] # "clear")
    BY <1>3, <1>5, <2>1, <2>2 DEF Underway, OpenSlot, AtNode
  <2>4. checks'[<<r, "close">>] = checks[<<r, "close">>] /\ ~Closing(r)
    BY <1>7, <1>3, <2>1, <2>2 DEF Closing
  <2>5. \A s \in OpenSlots : s # OpenSlot(r) => checks'[<<r, s>>] = checks[<<r, s>>]
    BY <1>3, <2>2
  <2>6. Handled(r)
    BY <2>1, <2>3, <2>4, <2>5 DEF Handled
  <2>7. Held(r)'
    BY <1>3, <1>4, <1>5, <2>1 DEF Held, At
  <2> QED
    BY <1>6, <2>6, <2>7
<1>17. CASE RiskBodyFails(r)
  <2>1. /\ run[r].pc = "body" /\ run'[r].pc = "exit"
        /\ run'[r].escaped = run[r].escaped /\ run'[r].flaky = run[r].flaky
        /\ UNCHANGED <<book, orders, checks>>
        /\ run[r].node = "RISK_CHECK"
    BY <1>1, <1>17 DEF RiskBodyFails, Halt, tables, RunState, At, AtNode
  <2> QED
    BY <1>3, <2>1, AsideStep DEF Underway, Closing, At, AtNode
<1>18. CASE PassGuard(r)
  <2>1. Handled(r) /\ Held(r)'
    BY <1>1, <1>2, <1>3, <1>4, <1>5, <1>18
       DEF PassGuard, Go, Handled, Held, Underway, Closing, CutOff, Recorded, OpenSlot, At, AtNode, tables, RunState, Shape, Level2, Over
  <2> QED
    BY <1>6, <2>1
<1>19. CASE AbortBeforeSubmit(r)
  <2>1. /\ run[r].pc = "submit" /\ run'[r].pc = "exit" /\ run'[r].nested = run[r].nested
        /\ run'[r].escaped = run[r].escaped /\ run'[r].flaky = run[r].flaky
        /\ UNCHANGED <<book, orders, checks>>
    BY <1>1, <1>19 DEF AbortBeforeSubmit, Go, RunState, At, AtNode
  <2>2. run'[r].flaky \/ <<r, OpenSlot(r)>> \in failures'
    BY <1>1, <2>1, <1>19 DEF AbortBeforeSubmit, WriteFailure, Writes, RunState
  <2>3. ASSUME NEW s \in OpenSlots, Underway(r, s)
        PROVE  CutOff(r, s)' \/ Recorded(r, s)'
    BY <2>2, <2>3 DEF Underway, CutOff, Recorded
  <2> QED
    BY <1>3, <2>1, <2>3, AsideStep DEF Closing, At
<1>20. CASE Submit(r)
  <2>1. /\ run[r].pc = "submit" /\ run[r].node = "EXECUTION" /\ run'[r].pc = "persist"
        /\ run'[r].node = run[r].node /\ run'[r].nested = run[r].nested
        /\ run'[r].decision = run[r].decision
        /\ run'[r].escaped = run[r].escaped /\ run'[r].flaky = run[r].flaky
        /\ Place(r, OpenSlot(r)) /\ UNCHANGED <<orders, checks>>
    BY <1>1, <1>20 DEF Submit, tables, RunState, At, AtNode
  <2>2. run[r].decision = "clear"
    BY <1>4, <2>1 DEF Held, At
  <2>3. OpenSlot(r)' = OpenSlot(r) /\ Placed(r, OpenSlot(r))'
    BY <1>3, <1>5, <2>1 DEF OpenSlot
  <2>4. \A s \in OpenSlots : (Placed(r, s)' /\ ~Placed(r, s)) \/ Underway(r, s) => Underway(r, s)'
    BY <1>3, <1>5, <2>1, <2>2, <2>3 DEF Underway
  <2>5. Handled(r)
    BY <2>1, <2>4 DEF Handled, Closing
  <2>6. Held(r)'
    BY <1>3, <1>4, <1>5, <2>1, <2>3 DEF Held, At
  <2> QED
    BY <1>6, <2>5, <2>6
<1>21. CASE SubmitFails(r)
  <2>1. /\ run[r].pc = "submit" /\ run'[r].pc = "exit" /\ run'[r].nested = run[r].nested
        /\ run'[r].escaped = run[r].escaped /\ run'[r].flaky = run[r].flaky
        /\ book' = book \/ Place(r, OpenSlot(r))
        /\ UNCHANGED <<orders, checks>>
    BY <1>1, <1>21 DEF SubmitFails, Halt, RunState, At, AtNode
  <2>2. run'[r].flaky \/ <<r, OpenSlot(r)>> \in failures'
    BY <1>1, <2>1, <1>21 DEF SubmitFails, WriteFailure, Writes, RunState
  <2>3. \A s \in OpenSlots : (Placed(r, s)' /\ ~Placed(r, s)) \/ Underway(r, s) => s = OpenSlot(r)
    BY <1>3, <1>5, <2>1 DEF Underway
  <2>4. \A s \in OpenSlots :
          (Placed(r, s)' /\ ~Placed(r, s)) \/ Underway(r, s) => CutOff(r, s)' \/ Recorded(r, s)'
    BY <2>2, <2>3 DEF CutOff, Recorded, OpenSlot
  <2>5. Handled(r)
    BY <2>1, <2>4 DEF Handled, Closing
  <2>6. Held(r)'
    BY <1>3, <1>4, <1>5, <2>1 DEF Held, At
  <2> QED
    BY <1>6, <2>5, <2>6
<1>22. CASE PersistOrder(r)
  <2>1. /\ run[r].pc = "persist" /\ run'[r].pc = "exit" /\ run'[r].nested = run[r].nested
        /\ run'[r].escaped = run[r].escaped /\ run'[r].flaky = run[r].flaky
        /\ orders' \in {orders, orders \cup {<<r, OpenSlot(r)>>}} /\ UNCHANGED <<book, checks>>
    BY <1>1, <1>22 DEF PersistOrder, RunState, At, AtNode
  <2>2. run'[r].flaky \/ <<r, OpenSlot(r)>> \in orders'
    BY <1>1, <2>1, <1>22 DEF PersistOrder, Writes, RunState
  <2>3. ASSUME NEW s \in OpenSlots, Underway(r, s)
        PROVE  CutOff(r, s)' \/ Recorded(r, s)'
    BY <2>2, <2>3 DEF CutOff, Recorded, Underway
  <2>4. Handled(r)
    BY <1>3, <1>5, <2>1, <2>3 DEF Handled, Closing
  <2>5. ASSUME NEW s \in Slots, <<r, s>> \in orders'
        PROVE  Placed(r, s)'
    BY <1>3, <1>4, <1>5, <2>1, <2>5 DEF Held, At
  <2>6. Held(r)'
    BY <2>1, <2>5 DEF Held, At
  <2> QED
    BY <1>6, <2>4, <2>6
<1>23. CASE Level1(r)
  <2>1. Handled(r) /\ Held(r)'
    BY <1>1, <1>2, <1>3, <1>4, <1>5, <1>23
       DEF Level1, Go, Handled, Held, Underway, Closing, CutOff, Recorded, OpenSlot, At, AtNode, tables, RunState, Shape, Level2, Over
  <2> QED
    BY <1>6, <2>1
<1>24. CASE Assess(r)
  <2>1. /\ run[r].pc = "assess" /\ run'[r].pc \in {"snapshot", "enter", "closegate"}
        /\ run'[r].escaped = run[r].escaped /\ run'[r].flaky = run[r].flaky
        /\ UNCHANGED <<book, orders, checks>>
    BY <1>1, <1>24 DEF Assess, Reopened, Go, tables, RunState, At, AtNode
  <2> QED
    BY <1>3, <2>1, AsideStep DEF Underway, Closing, At, AtNode
<1>25. CASE CloseStops(r)
  <2>1. Handled(r) /\ Held(r)'
    BY <1>1, <1>2, <1>3, <1>4, <1>5, <1>25
       DEF CloseStops, Go, Handled, Held, Underway, Closing, CutOff, Recorded, OpenSlot, At, AtNode, tables, RunState, Shape, Level2, Over
  <2> QED
    BY <1>6, <2>1
<1>26. CASE CloseGate(r)
  <2>1. Handled(r) /\ Held(r)'
    BY <1>1, <1>2, <1>3, <1>4, <1>5, <1>26
       DEF CloseGate, CloseCleared, Go, Handled, Held, Underway, Closing, CutOff, Recorded, OpenSlot, At, AtNode, tables, RunState, Shape, Level2, Over
  <2> QED
    BY <1>6, <2>1
<1>27. CASE ClosePlanFails(r)
  <2>1. /\ run[r].pc = "closegate" /\ run'[r].pc \in {"snapshot", "enter"}
        /\ run'[r].escaped = run[r].escaped \cup {"close"} /\ run'[r].flaky = run[r].flaky
        /\ UNCHANGED <<book, orders>>
    <3>1. run[r].escaped \cup {"close"} \in SUBSET Slots
      BY <1>1, <1>3 DEF RunState
    <3> QED
      BY <1>1, <3>1, <1>27 DEF ClosePlanFails, Reopened, RunState, At
  <2>2. \A s \in OpenSlots : checks'[<<r, s>>] = checks[<<r, s>>]
    BY <1>2, <1>3, <1>7, <1>27 DEF ClosePlanFails, CloseCleared
  <2>3. \A s \in OpenSlots : ~Underway(r, s) /\ (Placed(r, s)' <=> Placed(r, s))
    BY <1>3, <1>5, <2>1 DEF Underway, AtNode
  <2>4. CutOff(r, "close")'
    BY <2>1 DEF CutOff
  <2>5. Handled(r)
    BY <2>1, <2>2, <2>3, <2>4 DEF Handled
  <2>6. Held(r)'
    BY <1>3, <1>4, <1>5, <2>1 DEF Held, At
  <2> QED
    BY <1>6, <2>5, <2>6
<1>28. CASE CloseSubmit(r)
  <2>1. Handled(r) /\ Held(r)'
    BY <1>1, <1>2, <1>3, <1>4, <1>5, <1>28
       DEF CloseSubmit, Go, Handled, Held, Underway, Closing, CutOff, Recorded, OpenSlot, At, AtNode, tables, RunState, Shape, Level2, Over
  <2> QED
    BY <1>6, <2>1
<1>29. CASE CloseSubmitFails(r)
  <2>1. Handled(r) /\ Held(r)'
    BY <1>1, <1>2, <1>3, <1>4, <1>5, <1>29
       DEF CloseSubmitFails, Go, Handled, Held, Underway, Closing, CutOff, Recorded, OpenSlot, At, AtNode, tables, RunState, Shape, Level2, Over
  <2> QED
    BY <1>6, <2>1
<1>30. CASE ClosePersist(r)
  <2>1. Handled(r) /\ Held(r)'
    BY <1>1, <1>2, <1>3, <1>4, <1>5, <1>30
       DEF ClosePersist, Writes, Go, Handled, Held, Underway, Closing, CutOff, Recorded, OpenSlot, At, AtNode, tables, RunState, Shape, Level2, Over
  <2> QED
    BY <1>6, <2>1
<1>31. CASE RecordChange(r)
  <2>1. /\ run[r].pc = "change" /\ run'[r].pc \in {"enter", "snapshot"}
        /\ run'[r].escaped = run[r].escaped /\ run'[r].flaky = run[r].flaky
        /\ UNCHANGED <<book, orders, checks>>
    BY <1>1, <1>31 DEF RecordChange, Reopened, Go, RunState, At
  <2>2. run'[r].flaky \/ r \in changes'
    BY <2>1, <1>31 DEF RecordChange, Writes
  <2> QED
    BY <1>3, <2>1, <2>2, AsideStep DEF Underway, CutOff, At, AtNode
<1>32. CASE ExitMonitoring(r)
  <2>1. Handled(r) /\ Held(r)'
    BY <1>1, <1>2, <1>3, <1>4, <1>5, <1>32, EndIs
       DEF ExitMonitoring, Handled, Held, Underway, Closing, CutOff, Recorded, OpenSlot, At, AtNode, tables, RunState, Shape, Level2, Over
  <2> QED
    BY <1>6, <2>1
<1>33. CASE Snapshot(r)
  <2>1. /\ run[r].pc = "snapshot" /\ run'[r].pc \in {"done", "exit"}
        /\ run'[r].escaped = run[r].escaped /\ run'[r].flaky = run[r].flaky
        /\ UNCHANGED <<book, orders, checks>>
    <3>1. CASE run[r].kind = "tick" /\ ~run[r].nested
      BY <1>1, <1>33, <3>1, EndIs DEF Snapshot, Over, tables, At
    <3>2. CASE ~(run[r].kind = "tick" /\ ~run[r].nested)
      BY <1>1, <1>33, <3>2 DEF Snapshot, Go, tables, RunState, At
    <3> QED
      BY <3>1, <3>2
  <2> QED
    BY <1>3, <2>1, AsideStep DEF Underway, Closing, At, AtNode
<1>34. CASE Crash(r)
  <2>1. Handled(r) /\ Held(r)'
    BY <1>1, <1>2, <1>3, <1>4, <1>5, <1>34, EndIs
       DEF Crash, Active, Handled, Held, Underway, Closing, CutOff, Recorded, OpenSlot, At, AtNode, tables, RunState, Shape, Level2, Over
  <2> QED
    BY <1>6, <2>1
<1>35. CASE CrashInSubmit(r)
  <2>1. Handled(r) /\ Held(r)'
    BY <1>1, <1>2, <1>3, <1>4, <1>5, <1>35, EndIs
       DEF CrashInSubmit, Handled, Held, Underway, Closing, CutOff, Recorded, OpenSlot, At, AtNode, tables, RunState, Shape, Level2, Over
  <2> QED
    BY <1>6, <2>1
<1>36. CASE PlanRaises(r)
  <2>1. run[r].pc = "submit" /\ UNCHANGED <<book, orders, checks>>
    BY <1>36 DEF PlanRaises, AtNode, tables
  <2>2. /\ run'[r].pc \in {"snapshot", "raised"} /\ run'[r].flaky = run[r].flaky
        /\ run[r].escaped \subseteq run'[r].escaped
        /\ run'[r].pc = "raised" \/ OpenSlot(r) \in run'[r].escaped
    <3>1. \/ run'[r].pc = "raised"
          \/ "reopen" \in run'[r].escaped /\ run[r].nested
      BY <1>36, EscapeIs DEF PlanRaises
    <3> QED
      BY <3>1, <1>36, EscapeIs DEF PlanRaises, OpenSlot
  <2>3. ASSUME NEW s \in OpenSlots, Underway(r, s)
        PROVE  CutOff(r, s)'
    BY <2>2, <2>3 DEF Underway, CutOff
  <2> QED
    BY <1>3, <2>1, <2>2, <2>3, AsideStep DEF Closing, At
<1>37. CASE SubmitUnmappable(r)
  <2>1. /\ run[r].pc = "submit" /\ Place(r, OpenSlot(r)) /\ UNCHANGED <<orders, checks>>
    BY <1>37 DEF SubmitUnmappable, AtNode, tables
  <2>2. /\ run'[r].pc \in {"snapshot", "raised"} /\ run'[r].flaky = run[r].flaky
        /\ run[r].escaped \subseteq run'[r].escaped
        /\ run'[r].pc = "raised" \/ OpenSlot(r) \in run'[r].escaped
    <3>1. \/ run'[r].pc = "raised"
          \/ "reopen" \in run'[r].escaped /\ run[r].nested
      BY <1>37, EscapeIs DEF SubmitUnmappable
    <3> QED
      BY <3>1, <1>37, EscapeIs DEF SubmitUnmappable, OpenSlot
  <2>3. \A s \in OpenSlots : (Placed(r, s)' /\ ~Placed(r, s)) \/ Underway(r, s) => s = OpenSlot(r)
    BY <1>3, <1>5, <2>1 DEF Underway
  <2>4. \A s \in OpenSlots :
          (Placed(r, s)' /\ ~Placed(r, s)) \/ Underway(r, s) => CutOff(r, s)'
    BY <2>2, <2>3 DEF CutOff
  <2>5. Handled(r)
    BY <2>1, <2>2, <2>4 DEF Handled, Closing
  <2>6. Held(r)'
    BY <1>3, <1>4, <1>5, <2>1, <2>2 DEF Held, At
  <2> QED
    BY <1>6, <2>5, <2>6
<1>38. CASE SkipGuarded(r)
  <2>1. /\ run[r].pc = "body" /\ run[r].node = "EXECUTION" /\ run'[r].pc = "exit"
        /\ run'[r].escaped = run[r].escaped /\ run'[r].flaky = run[r].flaky
        /\ UNCHANGED <<book, orders, checks>>
    BY <1>1, <1>38 DEF SkipGuarded, AtNode, Go, tables, RunState
  <2>2. ASSUME NEW s \in OpenSlots, Underway(r, s)
        PROVE  KeptBack(r, s)'
    <3>1. PICK other \in orders : TRUE
      BY <1>38, <2>2 DEF SkipGuarded, Underway, OnFile
    <3>2. ~Placed(r, s) /\ (s = "primary" => \A t \in Slots : ~Placed(r, t))
      BY <1>3, <1>4, <2>1, <2>2 DEF Order, Underway, OpenSlot, PastExecution, PastLevel2, Over
    <3>3. other # <<r, s>> /\ (s = "primary" => other[1] # r)
      BY <1>3, <1>4, <3>1, <3>2 DEF Held, TypeOK
    <3>4. ~Placed(r, s)'
      BY <1>3, <1>5, <2>1, <3>2
    <3> QED
      BY <2>1, <3>1, <3>3, <3>4 DEF KeptBack
  <2>3. Handled(r)
    BY <1>3, <1>5, <2>1, <2>2 DEF Handled, Closing
  <2>4. Held(r)'
    BY <1>3, <1>4, <1>5, <2>1 DEF Held, At
  <2> QED
    BY <1>6, <2>3, <2>4
<1> QED
  BY <1>8, <1>9, <1>10, <1>11, <1>12, <1>13, <1>14, <1>15, <1>16, <1>17, <1>18, <1>19, <1>20, <1>21, <1>22, <1>23, <1>24, <1>25, <1>26, <1>27, <1>28, <1>29, <1>30, <1>31, <1>32, <1>33, <1>34, <1>35, <1>36, <1>37, <1>38
     DEF Act, Step, Graph, Execution, Monitoring

\* A step of one invocation is nothing to the approvals of another.
LEMMA AccountedOthers ==
  ASSUME TypeOK, NEW r \in Runs, Frame(r), NEW q \in Runs \ {r}, Accounted(q)
  PROVE  Accounted(q)'
<1>1. /\ run'[q] = run[q]
      /\ \A s \in Slots : book'[<<q, s>>] = book[<<q, s>>] /\ checks'[<<q, s>>] = checks[<<q, s>>]
      /\ q \in changes' <=> q \in changes
  BY FrameOthers
<1>2. orders \subseteq orders' /\ failures \subseteq failures'
  BY DEF Frame
<1>3. \A s \in Slots : <<q, s>> \in orders' => <<q, s>> \in orders
  BY DEF Frame
<1>4. /\ \A s \in Slots : Placed(q, s)' <=> Placed(q, s)
      /\ OpenSlot(q)' = OpenSlot(q) /\ OpenSlot(q) \in Slots
      /\ OpenSlots \subseteq Slots /\ "close" \in Slots
  BY <1>1, OpenSlotType DEF Placed, OpenSlot, OpenSlots, Slots
<1>5. Held(q)'
  BY <1>1, <1>3, <1>4 DEF Accounted, Held, At
<1>6. ASSUME NEW s \in OpenSlots
      PROVE  Told(q, s)'
  <2>1. /\ Underway(q, s) => Underway(q, s)'
        /\ CutOff(q, s) => CutOff(q, s)'
        /\ Recorded(q, s) => Recorded(q, s)'
        /\ KeptBack(q, s) => KeptBack(q, s)'
    BY <1>1, <1>2, <1>4 DEF Underway, CutOff, Recorded, KeptBack, AtNode
  <2> QED
    BY <1>1, <1>4, <2>1 DEF Accounted, Told
<1>7. ToldClose(q)'
  BY <1>1, <1>4 DEF Accounted, ToldClose, Closing, CutOff
<1> QED
  BY <1>5, <1>6, <1>7 DEF Accounted

AInv == IInv /\ \A r \in Runs : Accounted(r)

\* Accounted is inductive on top of what is known of one invocation.
LEMMA AInvStep == AInv /\ [Next]_vars => AInv'
<1> SUFFICES ASSUME AInv, [Next]_vars
             PROVE  AInv'
  OBVIOUS
<1>1. IInv'
  BY IInvStep DEF AInv
<1>2. ASSUME NEW r \in Runs, Act(r), NEW q \in Runs
      PROVE  Accounted(q)'
  <2>1. TypeOK /\ Local(r) /\ Accounted(r) /\ Accounted(q) /\ Frame(r)
    BY <1>2, ActFrame DEF AInv, IInv
  <2>2. QED
    BY <1>2, <2>1, AccountedStep, AccountedOthers
<1>3. ASSUME UNCHANGED vars, NEW q \in Runs
      PROVE  Accounted(q)'
  BY <1>3 DEF AInv, vars, Accounted, Held, Told, ToldClose, Closing, CutOff, Recorded, KeptBack,
              Underway, Placed, OpenSlot, At, AtNode
<1> QED
  BY <1>1, <1>2, <1>3 DEF AInv, Next

\* What the gate approved, in whichever of the three places, leaves its row, for any
\* invocations that overlap, crash or lose replies in any way.
THEOREM ApprovedIsAccounted == Spec => []ApprovedLeavesARow
<1>1. Init => AInv
  <2>1. ASSUME Init, NEW r \in Runs
        PROVE  Accounted(r)
    <3>1. /\ run[r].pc = "idle" /\ run[r].flaky = FALSE /\ orders = {}
          /\ \A s \in Slots : checks[<<r, s>>] = "none"
          /\ OpenSlots \subseteq Slots /\ "close" \in Slots
      BY <2>1 DEF Init, Idle, Slots, OpenSlots
    <3> QED
      BY <3>1 DEF Accounted, Held, Told, ToldClose, At
  <2>2. QED
    BY <2>1, IInvInit DEF AInv
<1>2. AInv => ApprovedLeavesARow
  BY DEF AInv, Accounted, Told, ToldClose, Closing, CutOff, Recorded, Underway,
         ApprovedLeavesARow, At, AtNode
<1> QED
  BY <1>1, <1>2, AInvStep, PTL DEF Spec

=============================================================================
