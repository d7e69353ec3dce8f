-------------------------- MODULE Dashboard_proofs --------------------------
(***************************************************************************)
(* What the page shows, for any number of cycles, rows and failures: it never   *)
(* goes back to an older answer, and a refresh that did not fail is one.        *)
(*                                                                         *)
(* Both follow from what each query keeps to itself (Sound): one request under   *)
(* way at most, and an answer to it that is not older than what is shown nor    *)
(* than the moment it was asked for.  Sound says what was on file, which only   *)
(* grows, so a step of the server leaves it true (SoundLater).                 *)
(***************************************************************************)
EXTENDS Dashboard, FiniteSetTheorems, TLAPS

\* A query whose data may be as new as now.
Sound(q, now) ==
  /\ q \in Query
  /\ q.value <= now /\ q.wanted <= now
  /\ \/ q.flights = {} /\ (q.failed \/ q.value >= q.wanted)
     \/ q.flights = {Asked}
     \/ \E answer \in Nat :
          /\ q.flights = {answer}
          /\ q.value <= answer /\ q.wanted <= answer /\ answer <= now

\* A step of a query that keeps it sound and does not go back.
Forward(q, r, now) == Sound(r, now) /\ r.value >= q.value

IInv ==
  /\ TypeOK
  /\ Len(cycles) <= MaxCycles
  /\ IsFiniteSet(rows)
  /\ Sound(workflow, Len(log))
  /\ \A cycle \in Cycles : Sound(views[cycle], OnFile(cycle))

-----------------------------------------------------------------------------
(* One query                                                                 *)

\* A new request is sound, whatever was under way.
LEMMA RequestForward ==
  ASSUME NEW q, NEW now \in Nat, Sound(q, now)
  PROVE  Forward(q, Request(q, now), now)
<1> DEFINE r == Request(q, now)
<1>1. q \in Query /\ q.value <= now
  BY DEF Sound
<1>2. r \in Query /\ r.value = q.value /\ r.flights = {Asked} /\ r.wanted = now
  <2>1. {Asked} \in SUBSET Int /\ now \in Int
    BY DEF Asked
  <2> QED
    BY <1>1, <2>1 DEF Request, Query
<1>3. q.value \in Int
  BY <1>1 DEF Query
<1> HIDE DEF r
<1>4. Sound(r, now)
  BY <1>1, <1>2 DEF Sound
<1> QED
  BY <1>2, <1>3, <1>4 DEF Forward, r

\* So are a request that joins the one under way and one that cancels it.
LEMMA FetchForward ==
  ASSUME NEW q, NEW now \in Nat, Sound(q, now)
  PROVE  Forward(q, q, now) /\ Forward(q, Fetch(q, now), now) /\ Forward(q, Refetch(q, now), now)
<1>1. Forward(q, q, now)
  BY DEF Forward, Sound, Query
<1> QED
  BY <1>1, RequestForward DEF Fetch, Refetch

\* The server's answer lists what is on file, ...
LEMMA AnswerForward ==
  ASSUME NEW q, NEW now \in Nat, Sound(q, now), Asked \in q.flights
  PROVE  Forward(q, Answer(q, now), now)
<1>1. q.flights = {Asked}
  BY DEF Sound, Asked
<1>2. (q.flights \ {Asked}) \cup {now} = {now}
  BY <1>1
<1>3. Answer(q, now) = [q EXCEPT !.flights = {now}]
  BY <1>2 DEF Answer
<1> QED
  BY <1>3 DEF Forward, Sound, Query

\* ... which is no older than what is shown when it is received.
LEMMA ReceiveForward ==
  ASSUME NEW q, NEW now \in Nat, Sound(q, now), NEW answer \in Answers(q)
  PROVE  Forward(q, Receive(q, answer), now)
<1>1. /\ q.flights = {answer}
      /\ answer \in Nat /\ q.value <= answer /\ q.wanted <= answer /\ answer <= now
  BY DEF Sound, Answers
<1>2. q.flights \ {answer} = {}
  BY <1>1
<1>3. Receive(q, answer) = [q EXCEPT !.value = answer, !.flights = {}, !.failed = FALSE]
  BY <1>2 DEF Receive
<1> QED
  BY <1>1, <1>3 DEF Forward, Sound, Query

\* A request that failed leaves what is shown.
LEMMA FailForward ==
  ASSUME NEW q, NEW now \in Nat, Sound(q, now)
  PROVE  Forward(q, Fail(q), now)
<1> DEFINE r == Fail(q)
<1>1. q \in Query /\ q.value <= now /\ q.wanted <= now
  BY DEF Sound
<1>2. /\ r \in Query /\ r.value = q.value /\ r.wanted = q.wanted
      /\ r.flights = {} /\ r.failed = TRUE
  BY <1>1 DEF Fail, Query
<1>3. q.value \in Int
  BY <1>1 DEF Query
<1> HIDE DEF r
<1>4. Sound(r, now)
  BY <1>1, <1>2 DEF Sound
<1> QED
  BY <1>2, <1>3, <1>4 DEF Forward, r

\* A sound query stays sound while more is written.
LEMMA SoundLater ==
  ASSUME NEW q, NEW now \in Nat, NEW later \in Nat, now <= later, Sound(q, now)
  PROVE  Forward(q, q, later)
BY DEF Forward, Sound, Query

-----------------------------------------------------------------------------
(* What is on file                                                           *)

\* What a panel lists is a number, ...
LEMMA OnFileType ==
  ASSUME IsFiniteSet(rows), NEW cycle
  PROVE  OnFile(cycle) \in Nat
<1>1. IsFiniteSet({row \in rows : row.cycle = cycle})
  BY FS_Subset
<1> QED
  BY <1>1, FS_CardinalityType DEF OnFile

\* ... and only grows.
LEMMA OnFileGrows ==
  ASSUME IsFiniteSet(rows'), rows \subseteq rows', NEW cycle
  PROVE  OnFile(cycle) \in Nat /\ OnFile(cycle)' \in Nat /\ OnFile(cycle) <= OnFile(cycle)'
<1> DEFINE before == {row \in rows : row.cycle = cycle}
           after == {row \in rows' : row.cycle = cycle}
<1>1. before \subseteq after
  OBVIOUS
<1>2. IsFiniteSet(after)
  BY FS_Subset
<1>3. IsFiniteSet(before) /\ Cardinality(before) <= Cardinality(after)
  BY <1>1, <1>2, FS_Subset
<1>4. Cardinality(before) \in Nat /\ Cardinality(after) \in Nat
  BY <1>2, <1>3, FS_CardinalityType
<1> QED
  BY <1>3, <1>4 DEF OnFile

-----------------------------------------------------------------------------
(* Steps                                                                     *)

\* What every step does to the queries and the files.
Progress ==
  /\ Forward(workflow, workflow', Len(log)')
  /\ \A cycle \in Cycles : Forward(views[cycle], views'[cycle], OnFile(cycle)')
  /\ views' \in [Cycles -> Query]

Written ==
  /\ cycles \in Seq({"begun", "ended"}) /\ Len(cycles) <= MaxCycles
  /\ log \in Seq([cycle : Cycles, status : Statuses])
  /\ rows \subseteq [cycle : Cycles, n : 1..MaxRows] /\ IsFiniteSet(rows)

\* A step of the page itself leaves the files.
LEMMA BrowseProgress ==
  ASSUME IInv, UNCHANGED <<log, rows>>, Forward(workflow, workflow', Len(log)),
         \A cycle \in Cycles : Forward(views[cycle], views'[cycle], OnFile(cycle)),
         views' = [cycle \in Cycles |-> views'[cycle]]
  PROVE  Progress
BY DEF Progress, OnFile, Forward, Sound

\* A step of the server leaves the queries.
LEMMA ServerProgress ==
  ASSUME IInv, UNCHANGED <<workflow, views>>, Written',
         Len(log) <= Len(log'), rows \subseteq rows'
  PROVE  Progress
<1>1. Len(log) \in Nat /\ Len(log') \in Nat
  BY DEF IInv, TypeOK, Written
<1>2. Forward(workflow, workflow', Len(log)')
  BY <1>1, SoundLater DEF IInv
<1>3. ASSUME NEW cycle \in Cycles
      PROVE  Forward(views[cycle], views'[cycle], OnFile(cycle)')
  <2>1. OnFile(cycle) \in Nat /\ OnFile(cycle)' \in Nat /\ OnFile(cycle) <= OnFile(cycle)'
    BY OnFileGrows DEF Written
  <2> QED
    BY <2>1, SoundLater DEF IInv
<1> QED
  BY <1>2, <1>3 DEF Progress, IInv, TypeOK

-----------------------------------------------------------------------------

LEMMA InitIInv == Init => IInv
<1> SUFFICES ASSUME Init PROVE IInv
  OBVIOUS
<1> USE BoundsAssumption DEF Init
<1>1. Len(cycles) = 0 /\ Len(log) = 0 /\ IsFiniteSet(rows)
  BY FS_EmptySet
<1>2. \A cycle : OnFile(cycle) = 0
  <2>1. \A cycle : {row \in rows : row.cycle = cycle} = {}
    OBVIOUS
  <2> QED
    BY <2>1, FS_EmptySet DEF OnFile
<1>3. \A now \in Nat : Sound(NoData, now)
  BY DEF NoData, Sound, Query, None
<1>4. Sound(workflow, Len(log)) /\ \A cycle \in Cycles : Sound(views[cycle], OnFile(cycle))
  BY <1>1, <1>2, <1>3, RequestForward DEF Forward
<1>5. TypeOK
  BY <1>4 DEF TypeOK, Sound
<1> QED
  BY <1>1, <1>4, <1>5 DEF IInv

\* A cycle that is started is one more on file.
LEMMA TriggerWritten ==
  ASSUME IInv, TriggerRunCycle
  PROVE  Written' /\ Len(log) <= Len(log') /\ rows \subseteq rows'
<1> USE BoundsAssumption DEF IInv, TypeOK, TriggerRunCycle, SetState, Statuses
<1>1. Len(cycles) \in Nat /\ Len(cycles) + 1 \in Cycles
  BY DEF Cycles
<1>2. cycles' \in Seq({"begun", "ended"}) /\ Len(cycles') <= MaxCycles
  BY <1>1
<1>3. log' \in Seq([cycle : Cycles, status : Statuses]) /\ Len(log') = Len(log) + 1
  BY <1>1
<1> QED
  BY <1>2, <1>3 DEF Written

LEMMA PersistWritten ==
  ASSUME IInv, NEW cycle \in DOMAIN cycles, Persist(cycle)
  PROVE  Written' /\ Len(log) <= Len(log') /\ rows \subseteq rows'
<1> USE BoundsAssumption DEF IInv, TypeOK, Persist
<1>1. cycle \in Cycles
  BY DEF Cycles
<1>2. OnFile(cycle) \in Nat
  BY OnFileType
<1>3. rows' \subseteq [cycle : Cycles, n : 1..MaxRows]
  BY <1>1, <1>2
<1>4. IsFiniteSet(rows')
  BY FS_AddElement
<1> QED
  BY <1>3, <1>4 DEF Written

LEMMA RecordWritten ==
  ASSUME IInv, NEW cycle \in DOMAIN cycles, RecordLast(cycle)
  PROVE  Written' /\ Len(log) <= Len(log') /\ rows \subseteq rows'
<1> USE BoundsAssumption DEF IInv, TypeOK, RecordLast
<1>1. cycle \in Cycles
  BY DEF Cycles
<1>2. cycles' \in Seq({"begun", "ended"}) /\ Len(cycles') = Len(cycles)
  OBVIOUS
<1>3. PICK status \in Statuses : log' = Append(log, [cycle |-> cycle, status |-> status])
  BY DEF SetState
<1>4. log' \in Seq([cycle : Cycles, status : Statuses]) /\ Len(log') = Len(log) + 1
  BY <1>1, <1>3
<1> QED
  BY <1>2, <1>4 DEF Written

\* Every step keeps the invariant and goes forward.
LEMMA StepProgress ==
  ASSUME IInv, [Next]_vars
  PROVE  Progress /\ Written' /\ button' \in {"ready", "sent", "answered"} /\ failures' \in Nat
<1> USE DEF server
<1>now. Len(log) \in Nat /\ \A cycle : OnFile(cycle) \in Nat
  BY OnFileType DEF IInv, TypeOK
<1>sound. Sound(workflow, Len(log)) /\ \A cycle \in Cycles : Sound(views[cycle], OnFile(cycle))
  BY DEF IInv
<1>same. /\ Forward(workflow, workflow, Len(log))
         /\ \A cycle \in Cycles : Forward(views[cycle], views[cycle], OnFile(cycle))
  BY <1>now, <1>sound, FetchForward
<1>views. views \in [Cycles -> Query] /\ views = [cycle \in Cycles |-> views[cycle]]
  BY DEF IInv, TypeOK
<1>kept. UNCHANGED server => Written'
  BY DEF IInv, TypeOK, Written
<1>rest. button \in {"ready", "sent", "answered"} /\ failures \in Nat
  BY DEF IInv, TypeOK
<1> DEFINE Goal == Progress /\ Written' /\ button' \in {"ready", "sent", "answered"}
                     /\ failures' \in Nat
<1>1. CASE UNCHANGED vars
  BY <1>1, <1>same, <1>views, <1>kept, <1>rest, BrowseProgress DEF vars
<1>2. CASE Elsewhere
  BY <1>2, <1>rest, TriggerWritten, ServerProgress DEF Elsewhere
<1>3. ASSUME NEW cycle \in DOMAIN cycles, Persist(cycle) PROVE Goal
  BY <1>3, <1>rest, PersistWritten, ServerProgress DEF Persist
<1>4. ASSUME NEW cycle \in DOMAIN cycles, RecordLast(cycle) PROVE Goal
  BY <1>4, <1>rest, RecordWritten, ServerProgress DEF RecordLast
<1>5. CASE PollWorkflow
  BY <1>5, <1>now, <1>sound, <1>same, <1>views, <1>kept, <1>rest, FetchForward, BrowseProgress
  DEF PollWorkflow
<1>6. CASE AnswerWorkflow
  <2>1. Forward(workflow, workflow', Len(log))
    BY <1>6, <1>now, <1>sound, AnswerForward, FailForward DEF AnswerWorkflow
  <2> QED
    BY <1>6, <2>1, <1>same, <1>views, <1>kept, <1>rest, BrowseProgress DEF AnswerWorkflow
<1>7. CASE ReceiveWorkflow
  <2>1. PICK answer \in Answers(workflow) :
          /\ workflow' = Receive(workflow, answer)
          /\ LET cycle == CycleOf(answer)
             IN \E q \in IF cycle = EffectiveCycle THEN {views[cycle]}
                         ELSE Observe(views[cycle], OnFile(cycle)) :
                  \E r \in {q, Refetch(q, OnFile(cycle))} : views' = [views EXCEPT ![cycle] = r]
    BY <1>7 DEF ReceiveWorkflow
  <2> DEFINE shown == CycleOf(answer)
  <2>2. Forward(workflow, workflow', Len(log))
    BY <2>1, <1>now, <1>sound, ReceiveForward
  <2>3. PICK q \in {views[shown], Fetch(views[shown], OnFile(shown))} :
          \E r \in {q, Refetch(q, OnFile(shown))} : views' = [views EXCEPT ![shown] = r]
    BY <2>1 DEF Observe
  <2>4. PICK r \in {q, Refetch(q, OnFile(shown))} : views' = [views EXCEPT ![shown] = r]
    BY <2>3
  <2> HIDE DEF shown
  <2>5. ASSUME shown \in Cycles PROVE Forward(views[shown], r, OnFile(shown))
    <3>1. Forward(views[shown], q, OnFile(shown))
      BY <2>3, <2>5, <1>now, <1>sound, FetchForward
    <3>2. Forward(q, r, OnFile(shown))
      BY <2>4, <3>1, <1>now, FetchForward DEF Forward
    <3> QED
      BY <3>1, <3>2, <1>sound, <2>5 DEF Forward, Sound, Query
  <2>6. \A cycle \in Cycles : Forward(views[cycle], views'[cycle], OnFile(cycle))
    BY <2>4, <2>5, <1>same, <1>views
  <2>7. views' = [cycle \in Cycles |-> views'[cycle]]
    BY <2>4, <1>views
  <2> QED
    BY <1>7, <2>2, <2>6, <2>7, <1>kept, <1>rest, BrowseProgress DEF ReceiveWorkflow
<1>8. ASSUME NEW cycle \in Cycles, AnswerView(cycle) PROVE Goal
  <2>1. Forward(views[cycle], Answer(views[cycle], OnFile(cycle)), OnFile(cycle))
    BY <1>8, <1>now, <1>sound, AnswerForward DEF AnswerView
  <2> QED
    BY <1>8, <2>1, <1>same, <1>views, <1>kept, <1>rest, BrowseProgress DEF AnswerView
<1>9. ASSUME NEW cycle \in Cycles, ReceiveView(cycle) PROVE Goal
  <2>1. PICK answer \in Answers(views[cycle]) :
          views' = [views EXCEPT ![cycle] = Receive(@, answer)]
    BY <1>9 DEF ReceiveView
  <2>2. Forward(views[cycle], Receive(views[cycle], answer), OnFile(cycle))
    BY <1>now, <1>sound, ReceiveForward
  <2> QED
    BY <1>9, <2>1, <2>2, <1>same, <1>views, <1>kept, <1>rest, BrowseProgress DEF ReceiveView
<1>10. CASE Click
  BY <1>10, <1>same, <1>views, <1>kept, <1>rest, BrowseProgress DEF Click
<1>11. CASE StartCycle
  BY <1>11, <1>rest, TriggerWritten, ServerProgress DEF StartCycle
<1>12. CASE CycleTriggered
  <2>1. Forward(workflow, workflow', Len(log))
    BY <1>12, <1>now, <1>sound, FetchForward DEF CycleTriggered
  <2>2. \A cycle \in Cycles : Forward(views[cycle], views'[cycle], OnFile(cycle))
    BY <1>12, <1>now, <1>sound, <1>same, FetchForward DEF CycleTriggered
  <2> QED
    BY <1>12, <2>1, <2>2, <1>kept, <1>rest, BrowseProgress DEF CycleTriggered
<1>13. CASE TriggerFailed
  BY <1>13, <1>same, <1>views, <1>kept, <1>rest, BrowseProgress DEF TriggerFailed
<1>14. CASE RequestFailed
  <2>1. CASE workflow' = Fail(workflow) /\ UNCHANGED views
    <3>1. Forward(workflow, workflow', Len(log))
      BY <2>1, <1>now, <1>sound, FailForward
    <3> QED
      BY <1>14, <2>1, <3>1, <1>same, <1>views, <1>kept, <1>rest, BrowseProgress DEF RequestFailed
  <2>2. ASSUME NEW cycle \in Cycles, views' = [views EXCEPT ![cycle] = Fail(@)],
               UNCHANGED workflow
        PROVE  Goal
    <3>1. Forward(views[cycle], Fail(views[cycle]), OnFile(cycle))
      BY <1>now, <1>sound, FailForward
    <3> QED
      BY <1>14, <2>2, <3>1, <1>same, <1>views, <1>kept, <1>rest, BrowseProgress DEF RequestFailed
  <2> QED
    BY <1>14, <2>1, <2>2 DEF RequestFailed
<1> QED
  BY <1>1, <1>2, <1>3, <1>4, <1>5, <1>6, <1>7, <1>8, <1>9, <1>10, <1>11, <1>12, <1>13, <1>14
  DEF Next, RunCycles, Browse

LEMMA NextIInv == IInv /\ [Next]_vars => IInv'
<1> SUFFICES ASSUME IInv, [Next]_vars PROVE IInv'
  OBVIOUS
<1>1. Progress /\ Written' /\ button' \in {"ready", "sent", "answered"} /\ failures' \in Nat
  BY StepProgress
<1>2. Sound(workflow', Len(log)') /\ \A cycle \in Cycles : Sound(views'[cycle], OnFile(cycle)')
  BY <1>1 DEF Progress, Forward
<1> QED
  BY <1>1, <1>2 DEF IInv, TypeOK, Written, Progress, Sound

LEMMA Invariance == Spec => []IInv
BY InitIInv, NextIInv, PTL DEF Spec

-----------------------------------------------------------------------------
(* Theorems                                                                  *)

\* The types.
THEOREM DashboardTypes == Spec => []TypeOK
<1>1. IInv => TypeOK
  BY DEF IInv
<1> QED
  BY <1>1, Invariance, PTL

\* A page whose requests have all been answered shows nothing older than the moment it
\* last asked, whatever was joined or cancelled on the way.
THEOREM RefreshesAreFresh == Spec => []RefreshIsFresh
<1>1. IInv => RefreshIsFresh
  <2>1. ASSUME NEW q, NEW now, Sound(q, now), q.flights = {}, ~q.failed
        PROVE  q.value >= q.wanted
    BY <2>1 DEF Sound
  <2> QED
    BY <2>1 DEF IInv, RefreshIsFresh
<1> QED
  BY <1>1, Invariance, PTL

\* No order in which requests are made, answered, received and lost makes the page show
\* less than it did.
THEOREM ViewsOnlyAdvance == Spec => ViewNeverGoesBack
<1>1. IInv /\ [Next]_vars =>
        [/\ workflow'.value >= workflow.value
         /\ \A cycle \in Cycles : views'[cycle].value >= views[cycle].value]_vars
  BY StepProgress DEF Progress, Forward
<1> QED
  BY <1>1, Invariance, PTL DEF Spec, ViewNeverGoesBack
=============================================================================
