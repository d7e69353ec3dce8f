-------------------------- MODULE CycleRunner_proofs --------------------------
(***************************************************************************)
(* Proofs about CycleRunner, for any sets of runs and cycles.               *)
(*                                                                          *)
(* RowsAreEarned speaks of rows only and is not inductive: a row is written  *)
(* from what its run believes to be done.  IInv adds where a run stands      *)
(* (Stands), that what it counts as done has been (Earned), and that the     *)
(* node it is about to checkpoint has as well.                              *)
(***************************************************************************)
EXTENDS CycleRunner, TLAPS

Place == [pc : Steps, cycle : Cycles \cup {NoCycle}, done : 0 .. Last, inTurn : BOOLEAN]

Stands(p) ==
  /\ proc[p].pc \in {"idle", "pick"} => proc[p].done = 0
  /\ proc[p].pc \in {"body", "checkpoint", "append"} => proc[p].done < Last
  /\ At(p, "final") => proc[p].done = Last
  /\ proc[p].pc \notin {"idle", "pick", "raised"} => proc[p].cycle \in Cycles

Earned(p) ==
  /\ Active(p) /\ ~At(p, "pick") => Behind(proc[p].done) \subseteq ran[proc[p].cycle]
  /\ proc[p].pc \in {"checkpoint", "append"} =>
       Behind(proc[p].done + 1) \subseteq ran[proc[p].cycle]

Standing == \A p \in Runs : Stands(p)
Earnings == \A p \in Runs : Earned(p)

IInv == TypeOK /\ Standing /\ Earnings /\ RowsAreEarned /\ InterruptedIsFound

USE DEF First, Last, Completed, Nodes, NoRow, Over, Steps, Row, Place

\* Initially nothing has run and no cycle has a row.
LEMMA InitIInv == Init => IInv
  BY CyclesAssumption DEF Init, IInv, TypeOK, Standing, Stands, Earnings, Earned,
     RowsAreEarned, InterruptedIsFound, Behind, At, Active

\* A place a run may move to without touching the tables.
Sound(s) ==
  /\ s \in Place
  /\ s.pc # "halted"
  /\ s.pc \in {"idle", "pick"} => s.done = 0
  /\ s.pc \in {"body", "checkpoint", "append"} => s.done < Last
  /\ s.pc = "final" => s.done = Last
  /\ s.pc \notin {"idle", "pick", "raised"} => s.cycle \in Cycles
  /\ s.pc \notin Over \cup {"idle", "pick"} => Behind(s.done) \subseteq ran[s.cycle]
  /\ s.pc \in {"checkpoint", "append"} => Behind(s.done + 1) \subseteq ran[s.cycle]

\* What a run that changes only its own place keeps, given that the new place is
\* a sound one (Pick, Load, Append, Return, Interrupt, Raise, Start).
LEMMA MoveKeeps ==
  ASSUME IInv, NEW p \in Runs, NEW s, Become(p, s), UNCHANGED <<tables, ran>>,
         Sound(s)
  PROVE  IInv'
<1> USE DEF IInv, Sound
<1>1. /\ proc' = [proc EXCEPT ![p] = s]
      /\ latest' = latest /\ older' = older /\ ran' = ran
  BY DEF Become, tables
<1>2. /\ proc'[p] = s
      /\ \A q \in Runs \ {p} : proc'[q] = proc[q]
  BY <1>1 DEF TypeOK
<1>3. TypeOK'
  BY <1>1 DEF TypeOK
<1>4. Standing'
  BY <1>2 DEF Standing, Stands, At
<1>5. Earnings'
  BY <1>1, <1>2 DEF Earnings, Earned, At, Active
<1>6. RowsAreEarned'
  BY <1>1 DEF RowsAreEarned, Behind
<1>7. InterruptedIsFound'
  BY <1>1, <1>2 DEF InterruptedIsFound, At
<1> QED  BY <1>3, <1>4, <1>5, <1>6, <1>7

\* What the beginning of a run keeps: the others lose their turn and nothing else.
LEMMA BeginKeeps ==
  ASSUME IInv, NEW p \in Runs, proc[p].pc = "idle", UNCHANGED <<tables, ran>>,
         NEW pc \in {"load", "pick", "body"}, NEW cycle \in Cycles \cup {NoCycle},
         NEW resume \in BOOLEAN, Begin(p, pc, cycle, resume),
         pc # "pick" => cycle \in Cycles
  PROVE  IInv'
<1>0. TypeOK /\ Standing /\ Earnings /\ RowsAreEarned /\ InterruptedIsFound
  BY DEF IInv
<1>1. latest' = latest /\ older' = older /\ ran' = ran
  BY DEF tables
<1>2. /\ proc[p] \in Place /\ proc[p].done = 0
      /\ \A q \in Runs : proc[q] \in Place
  BY <1>0 DEF TypeOK, Standing, Stands
<1>3. /\ proc'[p].pc = pc /\ proc'[p].cycle = cycle /\ proc'[p].done = 0
      /\ proc'[p] \in Place
  BY <1>2 DEF Begin
<1>4. ASSUME NEW q \in Runs \ {p}
      PROVE  /\ proc'[q].pc = proc[q].pc /\ proc'[q].cycle = proc[q].cycle
             /\ proc'[q].done = proc[q].done /\ proc'[q] \in Place
  <2>1. \/ proc'[q] = proc[q]
        \/ proc'[q] = [proc[q] EXCEPT !.inTurn = FALSE]
    BY DEF Begin
  <2> QED  BY <1>2, <2>1
<1>5. TypeOK'
  <2>1. proc' \in [Runs -> Place]
    <3>1. \A q \in Runs : proc'[q] \in Place
      BY <1>3, <1>4
    <3>2. proc' = [q \in Runs |-> proc'[q]]
      BY DEF Begin
    <3> HIDE DEF Place
    <3> QED  BY <3>1, <3>2
  <2> QED  BY <1>0, <1>1, <2>1 DEF TypeOK
<1>6. Standing'
  BY <1>0, <1>3, <1>4 DEF Standing, Stands, At
<1>7. Behind(0) = {}
  BY DEF Behind
<1>8. Earnings'
  BY <1>0, <1>1, <1>3, <1>4, <1>7 DEF Earnings, Earned, At, Active
<1>9. RowsAreEarned'
  BY <1>0, <1>1 DEF RowsAreEarned, Behind
<1>10. InterruptedIsFound'
  BY <1>0, <1>1, <1>3, <1>4 DEF InterruptedIsFound, At
<1> QED  BY <1>5, <1>6, <1>8, <1>9, <1>10 DEF IInv

\* A row written by a run at its own cycle, for a node whose work is behind it.
LEMMA RowKeeps ==
  ASSUME IInv, NEW p \in Runs, NEW s, Become(p, s), UNCHANGED ran,
         s \in Place, s.cycle \in Cycles,
         s.cycle = proc[p].cycle,
         s.pc \notin {"idle", "pick", "load", "body", "checkpoint"},
         s.pc = "append" => s.done < Last /\ Behind(s.done + 1) \subseteq ran[s.cycle],
         s.pc = "final" => s.done = Last,
         Behind(s.done) \subseteq ran[s.cycle],
         NEW node \in First .. Completed, NEW status \in {"RUNNING", "HALTED", "COMPLETED"},
         SetState(s.cycle, node, status),
         Behind(node) \subseteq ran[s.cycle]
  PROVE  IInv'
<1> USE DEF IInv
<1>1. proc' = [proc EXCEPT ![p] = s] /\ ran' = ran
  BY DEF Become
<1>2. /\ proc'[p] = s
      /\ \A q \in Runs \ {p} : proc'[q] = proc[q]
  BY <1>1 DEF TypeOK
<1>3. /\ latest'[s.cycle].node = node
      /\ \A c \in Cycles \ {s.cycle} : latest'[c] = latest[c]
  BY DEF SetState, TypeOK
<1>4. TypeOK'
  <2>1. latest' \in [Cycles -> Row] /\ older' \subseteq Cycles \X Cycles
    BY DEF SetState, TypeOK
  <2> QED  BY <1>1, <2>1 DEF TypeOK
<1>5. Standing'
  BY <1>2 DEF Standing, Stands, At
<1>6. Earnings'
  BY <1>1, <1>2 DEF Earnings, Earned, At, Active
<1>7. RowsAreEarned'
  BY <1>1, <1>3 DEF RowsAreEarned, Behind
<1>8. InterruptedIsFound'
  <2>1. latest'[s.cycle].node \in First .. Completed
    BY <1>3
  <2>2. ASSUME NEW q \in Runs \ {p}, At(q, "halted")'
        PROVE  latest'[proc'[q].cycle].node \in First .. Completed
    <3>1. proc'[q] = proc[q] /\ proc[q].cycle \in Cycles
      BY <1>2, <2>2 DEF Standing, Stands, At
    <3>2. latest[proc[q].cycle].node \in First .. Completed
      BY <1>2, <2>2 DEF InterruptedIsFound, At
    <3> QED  BY <1>3, <2>1, <3>1, <3>2
  <2> QED  BY <1>2, <2>1, <2>2 DEF InterruptedIsFound, At
<1> QED  BY <1>4, <1>5, <1>6, <1>7, <1>8

\* Every step of every run keeps IInv.
LEMMA NextIInv == IInv /\ [Next]_vars => IInv'
<1> SUFFICES ASSUME IInv, [Next]_vars PROVE IInv'
  OBVIOUS
<1>1. CASE UNCHANGED vars
  BY <1>1 DEF IInv, vars, TypeOK, Standing, Stands, Earnings, Earned, RowsAreEarned,
     InterruptedIsFound, Behind, At, Active
<1>2. ASSUME NEW p \in Runs, Act(p) PROVE IInv'
  <2>0. /\ TypeOK /\ Stands(p) /\ Earned(p) /\ RowsAreEarned
        /\ proc[p] \in Place
    BY DEF IInv, Standing, Earnings, TypeOK
  <2>1. CASE Start(p)
    <3>1. proc[p].pc = "idle" /\ UNCHANGED <<tables, ran>>
      BY <2>1 DEF Start, At
    <3>2. PICK pc \in {"load", "pick", "body"}, cycle \in Cycles \cup {NoCycle}, resume \in BOOLEAN :
             Begin(p, pc, cycle, resume) /\ (pc # "pick" => cycle \in Cycles)
      BY <2>1, Zenon DEF Start
    <3> QED  BY <3>1, <3>2, BeginKeeps
  <2>2. CASE Pick(p)
    <3>1. PICK c \in Cycles : Become(p, [proc[p] EXCEPT !.pc = "load", !.cycle = c])
      BY <2>2 DEF Pick
    <3>2. Behind(proc[p].done) = {}
      BY <2>0, <2>2 DEF Pick, At, Stands, Behind
    <3>3. Sound([proc[p] EXCEPT !.pc = "load", !.cycle = c])
      BY <2>0, <3>2 DEF Sound
    <3> QED  BY <2>2, <3>1, <3>3, MoveKeeps DEF Pick
  <2>3. CASE Load(p)
    <3> DEFINE row == latest[proc[p].cycle]
               pc == IF Terminal(row) THEN "returned"
                     ELSE IF ResumeIndex(row) = Last THEN "final" ELSE "body"
               s == [proc[p] EXCEPT !.done = ResumeIndex(row), !.pc = pc]
    <3>1. proc[p].cycle \in Cycles /\ row \in Row /\ Behind(row.node) \subseteq ran[proc[p].cycle]
      BY <2>0, <2>3 DEF Load, At, Stands, TypeOK, RowsAreEarned
    <3>2. ResumeIndex(row) \in 0 .. Last /\ (~Terminal(row) => ResumeIndex(row) = row.node)
      BY <3>1 DEF ResumeIndex, Terminal
    <3>3. Become(p, s) /\ UNCHANGED <<tables, ran>>
      BY <2>3 DEF Load
    <3>4. /\ pc \in {"returned", "final", "body"}
          /\ pc = "body" => ResumeIndex(row) # Last
          /\ pc = "final" => ResumeIndex(row) = Last
          /\ pc # "returned" => ~Terminal(row)
      OBVIOUS
    <3> HIDE DEF pc, row
    <3>5. /\ s \in Place
          /\ s.pc \in {"returned", "final", "body"}
          /\ s.pc = "body" => s.done < Last
          /\ s.pc = "final" => s.done = Last
          /\ s.cycle = proc[p].cycle
          /\ s.pc # "returned" => s.done = row.node
      <4>1. s.pc = pc /\ s.done = ResumeIndex(row) /\ s.cycle = proc[p].cycle
        BY <2>0
      <4>2. s \in Place
        BY <2>0, <3>2, <3>4
      <4> HIDE DEF s
      <4> QED  BY <3>2, <3>4, <4>1, <4>2
    <3> HIDE DEF s
    <3>6. s.cycle \in Cycles /\ (s.pc # "returned" => Behind(s.done) \subseteq ran[s.cycle])
      BY <3>1, <3>5
    <3>7. s \in Place
      BY <3>5
    <3>8. /\ s.pc \in {"returned", "final", "body"}
          /\ s.pc = "body" => s.done < Last
          /\ s.pc = "final" => s.done = Last
      BY <3>5
    <3>9. Sound(s)
      BY <3>6, <3>7, <3>8 DEF Sound
    <3> QED  BY <3>3, <3>9, MoveKeeps
  <2>4. CASE Body(p)
    <3> DEFINE c == proc[p].cycle
               done == proc[p].done
    <3>1. c \in Cycles /\ done < Last /\ done \in 0 .. Last /\ Behind(done) \subseteq ran[c]
      BY <2>0, <2>4 DEF Body, At, Stands, Earned, Active
    <3>2. /\ proc' = [proc EXCEPT ![p] = [proc[p] EXCEPT !.pc = "checkpoint"]]
          /\ ran' = [ran EXCEPT ![c] = @ \cup {done + 1}]
          /\ latest' = latest /\ older' = older
      BY <2>4 DEF Body, Go, Become, tables
    <3>3. /\ proc'[p] = [proc[p] EXCEPT !.pc = "checkpoint"]
          /\ \A q \in Runs \ {p} : proc'[q] = proc[q]
      BY <2>0, <3>2 DEF TypeOK
    <3>4. \A d \in Cycles : ran[d] \subseteq ran'[d]
      BY <2>0, <3>2 DEF TypeOK
    <3>5. Behind(done + 1) \subseteq ran'[c]
      BY <2>0, <3>1, <3>2 DEF TypeOK, Behind
    <3>6. TypeOK'
      <4>1. ran' \in [Cycles -> SUBSET Nodes]
        BY <2>0, <3>1, <3>2 DEF TypeOK
      <4>2. proc' \in [Runs -> Place]
        BY <2>0, <3>2 DEF TypeOK
      <4> QED  BY <2>0, <3>2, <4>1, <4>2 DEF TypeOK
    <3>7. Standing'
      BY <2>0, <3>1, <3>3 DEF IInv, Standing, Stands, At
    <3>8. Earnings'
      <4>1. Earned(p)'
        BY <2>0, <3>1, <3>3, <3>4, <3>5 DEF Earned, At, Active
      <4>2. ASSUME NEW q \in Runs \ {p} PROVE Earned(q)'
        <5>1. proc'[q] = proc[q] /\ Earned(q) /\ Stands(q)
          BY <3>3 DEF IInv, Earnings, Standing
        <5>2. proc[q].cycle \in Cycles => ran[proc[q].cycle] \subseteq ran'[proc[q].cycle]
          BY <3>4
        <5> QED  BY <5>1, <5>2 DEF Earned, Stands, At, Active
      <4> QED  BY <4>1, <4>2 DEF Earnings
    <3>9. RowsAreEarned'
      BY <2>0, <3>2, <3>4 DEF RowsAreEarned, Behind
    <3>10. InterruptedIsFound'
      BY <3>2, <3>3 DEF IInv, InterruptedIsFound, At
    <3> QED  BY <3>6, <3>7, <3>8, <3>9, <3>10 DEF IInv
  <2>5. CASE Checkpoint(p)
    <3> DEFINE s == [proc[p] EXCEPT !.pc = "append"]
    <3>1. /\ Become(p, s) /\ UNCHANGED ran
          /\ s.pc = "append" /\ s.cycle = proc[p].cycle /\ s.done = proc[p].done
          /\ s \in Place /\ s.cycle \in Cycles
      BY <2>0, <2>5 DEF Checkpoint, Go, At, Stands
    <3>2. /\ s.done < Last
          /\ Behind(s.done) \subseteq ran[s.cycle] /\ Behind(s.done + 1) \subseteq ran[s.cycle]
      BY <2>0, <2>5, <3>1 DEF Checkpoint, At, Stands, Earned, Active
    <3>3. SetState(s.cycle, s.done + 1, "RUNNING")
      BY <2>5, <3>1 DEF Checkpoint
    <3> HIDE DEF s
    <3>4. s.done + 1 \in Nodes
      BY <3>1, <3>2
    <3> QED  BY <3>1, <3>2, <3>3, <3>4, RowKeeps
  <2>6. CASE Append(p)
    <3> DEFINE pc == IF proc[p].done + 1 = Last THEN "final" ELSE "body"
               s == [proc[p] EXCEPT !.done = proc[p].done + 1, !.pc = pc]
    <3>1. proc[p].done < Last /\ Behind(proc[p].done + 1) \subseteq ran[proc[p].cycle]
      BY <2>0, <2>6 DEF Append, At, Stands, Earned
    <3>2. Become(p, s) /\ UNCHANGED <<tables, ran>>
      BY <2>6 DEF Append
    <3>3. /\ pc \in {"final", "body"}
          /\ pc = "final" => proc[p].done + 1 = Last
          /\ pc = "body" => proc[p].done + 1 # Last
      OBVIOUS
    <3> HIDE DEF pc
    <3>4. /\ s.cycle = proc[p].cycle /\ s.done = proc[p].done + 1 /\ s.cycle \in Cycles
          /\ s \in Place
          /\ s.pc \in {"final", "body"}
          /\ s.pc = "final" => s.done = Last
          /\ s.pc = "body" => s.done < Last
      <4>1. s.pc = pc /\ s.done = proc[p].done + 1 /\ s.cycle = proc[p].cycle
        BY <2>0
      <4>2. proc[p].pc = "append"
        BY <2>6 DEF Append, At
      <4>3. proc[p].cycle \in Cycles
        BY <2>0, <4>2 DEF Stands
      <4>4. s \in Place
        <5>1. proc[p].done + 1 \in 0 .. Last /\ pc \in Steps
          BY <2>0, <3>1, <3>3
        <5> QED  BY <2>0, <5>1
      <4> HIDE DEF s
      <4> QED  BY <2>0, <3>1, <3>3, <4>1, <4>3, <4>4
    <3> HIDE DEF s
    <3>5. Behind(s.done) \subseteq ran[s.cycle]
      BY <3>1, <3>4
    <3>6. Sound(s)
      BY <3>4, <3>5 DEF Sound
    <3> QED  BY <3>2, <3>6, MoveKeeps
  <2>7. CASE Final(p)
    <3> DEFINE s == [proc[p] EXCEPT !.pc = "return"]
    <3>1. /\ Become(p, s) /\ UNCHANGED ran
          /\ s.pc = "return" /\ s.cycle = proc[p].cycle /\ s.done = Last
          /\ s \in Place /\ s.cycle \in Cycles
      BY <2>0, <2>7 DEF Final, Go, At, Stands
    <3>2. Behind(s.done) \subseteq ran[s.cycle]
      BY <2>0, <2>7, <3>1 DEF Final, At, Earned, Active
    <3>3. SetState(s.cycle, Completed, "COMPLETED")
      BY <2>7, <3>1 DEF Final
    <3>4. Behind(Completed) = Behind(Last)
      BY DEF Behind
    <3> HIDE DEF s
    <3> QED  BY <3>1, <3>2, <3>3, <3>4, RowKeeps
  <2>8. CASE Return(p)
    <3> DEFINE s == [proc[p] EXCEPT !.pc = "returned"]
    <3>1. Become(p, s) /\ s.pc = "returned" /\ s.cycle \in Cycles
      BY <2>0, <2>8 DEF Return, Go, At, Stands
    <3>2. s \in Place
      BY <2>0
    <3> HIDE DEF s
    <3>3. Sound(s)
      BY <3>1, <3>2 DEF Sound
    <3> QED  BY <2>8, <3>1, <3>3, MoveKeeps DEF Return
  <2>9. CASE Interrupt(p)
    <3> DEFINE s == [proc[p] EXCEPT !.pc = IF proc[p].pc \in {"pick", "load"}
                                           THEN "raised" ELSE "halt"]
    <3>1. /\ Become(p, s) /\ s.pc \in {"raised", "halt"}
          /\ s.cycle = proc[p].cycle /\ s.done = proc[p].done
          /\ s.pc = "halt" => s.cycle \in Cycles /\ Behind(s.done) \subseteq ran[s.cycle]
          /\ s \in Place
      BY <2>0, <2>9 DEF Interrupt, Go, At, Stands, Earned, Active
    <3> HIDE DEF s
    <3>2. Sound(s)
      BY <3>1 DEF Sound
    <3> QED  BY <2>9, <3>1, <3>2, MoveKeeps DEF Interrupt
  <2>10. CASE Halt(p)
    <3> DEFINE s == [proc[p] EXCEPT !.pc = "halted"]
               node == IF proc[p].done = 0 THEN First ELSE proc[p].done
    <3>1. /\ Become(p, s) /\ UNCHANGED ran
          /\ s.pc = "halted" /\ s.cycle = proc[p].cycle /\ s.done = proc[p].done
          /\ s \in Place /\ s.cycle \in Cycles
      BY <2>0, <2>10 DEF Halt, Go, At, Stands
    <3>2. Behind(s.done) \subseteq ran[s.cycle]
      BY <2>0, <2>10, <3>1 DEF Halt, At, Earned, Active
    <3>3. node \in First .. Completed /\ Behind(node) \subseteq ran[s.cycle]
      BY <2>0, <3>1, <3>2 DEF Behind
    <3>4. SetState(s.cycle, node, "HALTED")
      BY <2>10, <3>1 DEF Halt
    <3> HIDE DEF s, node
    <3> QED  BY <3>1, <3>2, <3>3, <3>4, RowKeeps
  <2>11. CASE Raise(p)
    <3> DEFINE s == [proc[p] EXCEPT !.pc = "raised"]
    <3>1. Become(p, s) /\ s.pc = "raised"
      BY <2>0, <2>11 DEF Raise, Go
    <3>2. s \in Place
      BY <2>0
    <3> HIDE DEF s
    <3>3. Sound(s)
      BY <3>1, <3>2 DEF Sound
    <3> QED  BY <2>11, <3>1, <3>3, MoveKeeps DEF Raise
  <2> QED  BY <1>2, <2>1, <2>2, <2>3, <2>4, <2>5, <2>6, <2>7, <2>8, <2>9, <2>10, <2>11 DEF Act
<1> QED  BY <1>1, <1>2 DEF Next

\* The strengthened invariant holds in every state.
THEOREM Invariance == Spec => []IInv
<1> QED  BY InitIInv, NextIInv, PTL DEF Spec

\* No run ever counts a seventh node, names a cycle that is none, or writes a row
\* for a node there is not (_resume_index, CycleContext).
THEOREM TypeCorrect == Spec => []TypeOK
<1>1. IInv => TypeOK
  BY DEF IInv
<1> QED  BY <1>1, Invariance, PTL

\* A cycle's latest row names a node only when the body of every node up to it has
\* finished (CycleRunner.run and _resume_index), for any number of overlapping runs.
THEOREM EarnedRows == Spec => []RowsAreEarned
<1>1. IInv => RowsAreEarned
  BY DEF IInv
<1> QED  BY <1>1, Invariance, PTL

\* A run that was interrupted and has recorded it leaves its cycle with a row
\* (the except branch of CycleRunner.run).
THEOREM NeverOrphaned == Spec => []InterruptedIsFound
<1>1. IInv => InterruptedIsFound
  BY DEF IInv
<1> QED  BY <1>1, Invariance, PTL

(* What a resume can cost. *)

\* A run in its turn has the database to itself, ...
Alone == \A p, q \in Runs : proc[p].inTurn /\ Active(p) /\ Active(q) => p = q

\* ... and its count is its cycle's latest row, or one behind it between a
\* checkpoint and the append.
Follows(p) ==
  /\ proc[p].pc \in {"body", "checkpoint", "final"} =>
       latest[proc[p].cycle].node = proc[p].done
  /\ At(p, "append") => latest[proc[p].cycle].node = proc[p].done + 1
  /\ proc[p].pc \in {"return", "halt"} =>
       latest[proc[p].cycle].node <= proc[p].done + 1

Follow == \A p \in Runs : proc[p].inTurn => Follows(p)

\* A run that has not begun has no turn.
Waiting == \A p \in Runs : At(p, "idle") => ~proc[p].inTurn

TInv == IInv /\ Alone /\ Waiting /\ Follow

\* A row falls back by one node at most.
StepBack == \A c \in Cycles : latest[c].node <= latest'[c].node + 1

StepsBack ==
  \A p \in Runs, c \in Cycles :
    proc[p].inTurn /\ proc'[p] # proc[p] => latest[c].node <= latest'[c].node + 1

\* Initially no run is under way.
LEMMA InitTInv == Init => TInv
  BY InitIInv DEF Init, TInv, Alone, Waiting, Follow

\* A step of a run that follows its row, after which it follows it again: no row
\* falls back by two nodes.
LEMMA FollowsStep ==
  ASSUME IInv, IInv', NEW p \in Runs, Act(p), ~Start(p), Follows(p)
  PROVE  Follows(p)' /\ StepBack
<1> DEFINE c == proc[p].cycle
<1>0. TypeOK /\ TypeOK' /\ Stands(p) /\ Follows(p) /\ proc[p] \in Place
  BY DEF IInv, Standing, TypeOK
<1>1. \A d \in Cycles : latest[d].node \in 0 .. Completed
  BY <1>0 DEF TypeOK
<1>2. ASSUME UNCHANGED latest PROVE StepBack
  BY <1>1, <1>2 DEF StepBack
<1>4. CASE Pick(p)
  <2>1. proc'[p].pc = "load" /\ UNCHANGED latest
    BY <1>0, <1>4 DEF Pick, Become, tables, TypeOK
  <2> QED  BY <1>2, <2>1 DEF Follows, At
<1>5. CASE Load(p)
  <2> DEFINE row == latest[c]
             pc == IF Terminal(row) THEN "returned"
                   ELSE IF ResumeIndex(row) = Last THEN "final" ELSE "body"
  <2>1. UNCHANGED latest /\ proc'[p] = [proc[p] EXCEPT !.done = ResumeIndex(row), !.pc = pc]
    BY <1>0, <1>5 DEF Load, Become, tables, TypeOK
  <2>2. /\ pc \in {"returned", "final", "body"}
        /\ pc # "returned" => ~Terminal(row) /\ ResumeIndex(row) = row.node
    BY DEF ResumeIndex
  <2> HIDE DEF pc
  <2>3. /\ proc'[p].pc = pc /\ proc'[p].done = ResumeIndex(row)
        /\ proc'[p].cycle = c
    BY <1>0, <2>1
  <2> QED  BY <1>2, <2>1, <2>2, <2>3 DEF Follows, At
<1>6. CASE Body(p)
  <2>1. /\ UNCHANGED latest
        /\ proc'[p] = [proc[p] EXCEPT !.pc = "checkpoint"]
        /\ proc[p].pc = "body"
    BY <1>0, <1>6 DEF Body, At, Go, Become, tables, TypeOK
  <2> QED  BY <1>0, <1>2, <2>1 DEF Follows, At
<1>7. CASE Checkpoint(p)
  <2>1. /\ proc'[p] = [proc[p] EXCEPT !.pc = "append"]
        /\ proc[p].pc = "checkpoint" /\ c \in Cycles
    BY <1>0, <1>7 DEF Checkpoint, At, Go, Become, TypeOK, Stands
  <2>2. /\ latest'[c].node = proc[p].done + 1
        /\ \A d \in Cycles \ {c} : latest'[d] = latest[d]
    BY <1>0, <1>7, <2>1 DEF Checkpoint, SetState, TypeOK
  <2>3. latest[c].node = proc[p].done
    BY <1>0, <2>1 DEF Follows
  <2>4. Follows(p)'
    BY <1>0, <2>1, <2>2 DEF Follows, At
  <2>5. StepBack
    BY <1>0, <1>1, <2>2, <2>3 DEF StepBack
  <2> QED  BY <2>4, <2>5
<1>8. CASE Append(p)
  <2> DEFINE pc == IF proc[p].done + 1 = Last THEN "final" ELSE "body"
  <2>1. /\ UNCHANGED latest
        /\ proc'[p] = [proc[p] EXCEPT !.done = proc[p].done + 1, !.pc = pc]
        /\ proc[p].pc = "append"
    BY <1>0, <1>8 DEF Append, At, Become, tables, TypeOK
  <2>2. pc \in {"final", "body"}
    OBVIOUS
  <2> HIDE DEF pc
  <2>3. proc'[p].pc = pc /\ proc'[p].done = proc[p].done + 1 /\ proc'[p].cycle = c
    BY <1>0, <2>1
  <2>4. latest[c].node = proc[p].done + 1
    BY <1>0, <2>1 DEF Follows, At
  <2> QED  BY <1>2, <2>1, <2>2, <2>3, <2>4 DEF Follows, At
<1>9. CASE Final(p)
  <2>1. /\ proc'[p] = [proc[p] EXCEPT !.pc = "return"]
        /\ proc[p].pc = "final" /\ c \in Cycles
    BY <1>0, <1>9 DEF Final, At, Go, Become, TypeOK, Stands
  <2>2. /\ latest'[c].node = Completed
        /\ \A d \in Cycles \ {c} : latest'[d] = latest[d]
    BY <1>0, <1>9, <2>1 DEF Final, SetState, TypeOK
  <2>3. proc[p].done = Last
    BY <1>0, <2>1 DEF Stands, At
  <2>4. Follows(p)'
    BY <1>0, <2>1, <2>2, <2>3 DEF Follows, At
  <2>5. StepBack
    BY <1>1, <2>2 DEF StepBack
  <2> QED  BY <2>4, <2>5
<1>10. CASE Return(p)
  <2>1. UNCHANGED latest /\ proc'[p].pc = "returned"
    BY <1>0, <1>10 DEF Return, Go, Become, tables, TypeOK
  <2> QED  BY <1>2, <2>1 DEF Follows, At
<1>11. CASE Interrupt(p)
  <2> DEFINE pc == IF proc[p].pc \in {"pick", "load"} THEN "raised" ELSE "halt"
  <2>1. /\ UNCHANGED latest
        /\ proc'[p] = [proc[p] EXCEPT !.pc = pc]
        /\ Active(p) /\ proc[p].pc # "halt"
    BY <1>0, <1>11 DEF Interrupt, At, Go, Become, tables, TypeOK
  <2>2. CASE pc = "raised"
    <3>1. proc'[p].pc = "raised"
      BY <1>0, <2>1, <2>2
    <3> QED  BY <1>2, <2>1, <3>1 DEF Follows, At
  <2>3. CASE pc = "halt" /\ proc[p].pc \notin {"pick", "load"}
    <3>1. proc'[p].pc = "halt" /\ proc'[p].done = proc[p].done /\ proc'[p].cycle = c
      BY <1>0, <2>1, <2>3
    <3>2. proc[p].pc \in {"body", "checkpoint", "final", "append", "return"}
      BY <1>0, <2>1, <2>3 DEF Active
    <3>3. latest[c].node <= proc[p].done + 1
      <4>1. proc[p].done \in Nat /\ latest[c].node \in Nat
        <5>1. c \in Cycles
          BY <1>0, <3>2 DEF Stands
        <5> QED  BY <1>0, <1>1, <5>1
      <4> QED  BY <1>0, <3>2, <4>1 DEF Follows, At
    <3> QED  BY <1>2, <2>1, <3>1, <3>3 DEF Follows, At
  <2> QED  BY <2>2, <2>3
<1>12. CASE Halt(p)
  <2> DEFINE node == IF proc[p].done = 0 THEN First ELSE proc[p].done
  <2>1. /\ proc'[p].pc = "halted" /\ proc[p].pc = "halt" /\ c \in Cycles
    BY <1>0, <1>12 DEF Halt, At, Go, Become, TypeOK, Stands
  <2>2. /\ latest'[c].node = node
        /\ \A d \in Cycles \ {c} : latest'[d] = latest[d]
    BY <1>0, <1>12, <2>1 DEF Halt, SetState, TypeOK
  <2>3. latest[c].node <= proc[p].done + 1 /\ proc[p].done <= node /\ node \in 0 .. Last
    BY <1>0, <2>1 DEF Follows
  <2> HIDE DEF node
  <2>4. StepBack
    BY <1>0, <1>1, <2>1, <2>2, <2>3 DEF StepBack
  <2> QED  BY <2>1, <2>4 DEF Follows, At
<1>13. CASE Raise(p)
  <2>1. UNCHANGED latest /\ proc'[p].pc = "raised"
    BY <1>0, <1>13 DEF Raise, Go, Become, tables, TypeOK
  <2> QED  BY <1>2, <2>1 DEF Follows, At
<1> QED  BY <1>0, <1>4, <1>5, <1>6, <1>7, <1>8, <1>9, <1>10, <1>11, <1>12, <1>13 DEF Act

\* Every step keeps TInv, and a run in its turn takes no row back by two nodes.
LEMMA NextTInv == TInv /\ [Next]_vars => TInv' /\ StepsBack
<1> SUFFICES ASSUME TInv, [Next]_vars PROVE TInv' /\ StepsBack
  OBVIOUS
<1>0. IInv /\ IInv' /\ TypeOK /\ TypeOK' /\ Alone /\ Waiting /\ Follow
  BY NextIInv DEF TInv, IInv
<1>1. CASE UNCHANGED vars
  BY <1>0, <1>1 DEF TInv, Alone, Waiting, Follow, Follows, Active, At, vars, StepsBack
<1>2. ASSUME NEW p \in Runs, Act(p), ~Start(p) PROVE TInv' /\ StepsBack
  <2>1. PICK s : proc' = [proc EXCEPT ![p] = s] /\ s.inTurn = proc[p].inTurn /\ s.pc # "idle"
    <3>0. proc[p] \in Place
      BY <1>0 DEF TypeOK
    <3>1. ASSUME NEW pc \in Steps \ {"idle"}, Go(p, pc)
          PROVE  \E s : /\ proc' = [proc EXCEPT ![p] = s] /\ s.inTurn = proc[p].inTurn
                       /\ s.pc # "idle"
      <4> DEFINE s == [proc[p] EXCEPT !.pc = pc]
      <4>1. proc' = [proc EXCEPT ![p] = s] /\ s.inTurn = proc[p].inTurn /\ s.pc = pc
        BY <3>0, <3>1 DEF Go, Become
      <4> HIDE DEF s
      <4> QED  BY <4>1
    <3>2. CASE Pick(p)
      <4>1. PICK d \in Cycles : Become(p, [proc[p] EXCEPT !.pc = "load", !.cycle = d])
        BY <3>2 DEF Pick
      <4> DEFINE s == [proc[p] EXCEPT !.pc = "load", !.cycle = d]
      <4>2. proc' = [proc EXCEPT ![p] = s] /\ s.inTurn = proc[p].inTurn /\ s.pc = "load"
        BY <3>0, <4>1 DEF Become
      <4> HIDE DEF s
      <4> QED  BY <4>2
    <3>3. CASE Load(p)
      <4> DEFINE row == latest[proc[p].cycle]
                 pc == IF Terminal(row) THEN "returned"
                       ELSE IF ResumeIndex(row) = Last THEN "final" ELSE "body"
                 s == [proc[p] EXCEPT !.done = ResumeIndex(row), !.pc = pc]
      <4>1. proc' = [proc EXCEPT ![p] = s]
        BY <3>3 DEF Load, Become
      <4>2. pc # "idle"
        OBVIOUS
      <4> HIDE DEF pc, row
      <4>3. s.inTurn = proc[p].inTurn /\ s.pc = pc
        BY <3>0
      <4> HIDE DEF s
      <4> QED  BY <4>1, <4>2, <4>3
    <3>4. CASE Append(p)
      <4> DEFINE pc == IF proc[p].done + 1 = Last THEN "final" ELSE "body"
                 s == [proc[p] EXCEPT !.done = proc[p].done + 1, !.pc = pc]
      <4>1. proc' = [proc EXCEPT ![p] = s]
        BY <3>4 DEF Append, Become
      <4>2. pc # "idle"
        OBVIOUS
      <4> HIDE DEF pc
      <4>3. s.inTurn = proc[p].inTurn /\ s.pc = pc
        BY <3>0
      <4> HIDE DEF s
      <4> QED  BY <4>1, <4>2, <4>3
    <3>5. CASE \/ Body(p) \/ Checkpoint(p) \/ Final(p) \/ Return(p) \/ Interrupt(p)
               \/ Halt(p) \/ Raise(p)
      <4>1. \E pc \in Steps \ {"idle"} : Go(p, pc)
        BY <3>5 DEF Body, Checkpoint, Final, Return, Interrupt, Halt, Raise
      <4> QED  BY <3>1, <4>1
    <3> QED  BY <1>2, <3>2, <3>3, <3>4, <3>5 DEF Act
  <2>2. proc'[p] = s /\ \A q \in Runs \ {p} : proc'[q] = proc[q]
    BY <1>0, <2>1 DEF TypeOK
  <2>3. Active(p)
    BY <1>2 DEF Act, Pick, Load, Body, Checkpoint, Append, Final, Return,
       Interrupt, Halt, Raise, At, Active
  <2>4. Alone'
    BY <1>0, <2>1, <2>2, <2>3 DEF Alone, Active
  <2>5. Waiting'
    BY <1>0, <2>1, <2>2 DEF Waiting, At
  <2>6. proc[p].inTurn => Follows(p)' /\ StepBack
    BY <1>0, <1>2, FollowsStep DEF Follow
  <2>7. Follow'
    <3>1. ASSUME NEW q \in Runs \ {p}, proc'[q].inTurn PROVE Follows(q)'
      <4>1. proc'[q] = proc[q] /\ ~Active(q)
        BY <1>0, <2>2, <2>3, <3>1 DEF Alone
      <4> QED  BY <4>1 DEF Follows, Active, At
    <3> QED  BY <2>1, <2>2, <2>6, <3>1 DEF Follow
  <2>8. StepsBack
    BY <2>2, <2>6 DEF StepsBack, StepBack
  <2> QED  BY <1>0, <2>4, <2>5, <2>7, <2>8 DEF TInv
<1>3. ASSUME NEW p \in Runs, Start(p) PROVE TInv' /\ StepsBack
  <2>1. PICK pc \in {"load", "pick", "body"}, cycle \in Cycles \cup {NoCycle}, resume \in BOOLEAN :
           Begin(p, pc, cycle, resume) /\ (pc = "body" => ~resume)
    BY <1>3, Zenon DEF Start
  <2>2. UNCHANGED latest /\ ~Active(p)
    BY <1>3 DEF Start, tables, At, Active
  <2>3. /\ proc'[p].pc = pc
        /\ proc'[p].inTurn = (resume /\ \A r \in Runs : ~Active(r))
    <3>1. proc[p] \in Place
      BY <1>0 DEF TypeOK
    <3> QED  BY <2>1, <3>1 DEF Begin
  <2>4. ASSUME NEW q \in Runs \ {p}
        PROVE  /\ Active(q) => ~proc'[q].inTurn
               /\ ~Active(q) => proc'[q] = proc[q]
    <3>1. proc[q] \in Place
      BY <1>0 DEF TypeOK
    <3> QED  BY <2>1, <3>1 DEF Begin
  <2>5. Alone'
    <3>1. ASSUME NEW q \in Runs \ {p} PROVE Active(q)' => Active(q) /\ ~proc'[q].inTurn
      BY <2>4 DEF Active
    <3> QED  BY <2>3, <3>1 DEF Alone
  <2>6. Waiting'
    <3>1. ASSUME NEW q \in Runs \ {p}, At(q, "idle")' PROVE ~proc'[q].inTurn
      BY <1>0, <2>4, <3>1 DEF Waiting, At
    <3> QED  BY <2>3, <3>1 DEF Waiting, At
  <2>7. Follow'
    <3>1. ASSUME NEW q \in Runs \ {p}, proc'[q].inTurn PROVE Follows(q)'
      <4>1. proc'[q] = proc[q] /\ ~Active(q)
        BY <2>4, <3>1
      <4> QED  BY <4>1 DEF Follows, Active, At
    <3>2. proc'[p].inTurn => Follows(p)'
      BY <2>1, <2>3 DEF Follows, At
    <3> QED  BY <3>1, <3>2 DEF Follow
  <2>8. StepsBack
    <3>1. \A c \in Cycles : latest[c].node \in Nat
      BY <1>0 DEF TypeOK
    <3> QED  BY <2>2, <3>1 DEF StepsBack
  <2> QED  BY <1>0, <2>5, <2>6, <2>7, <2>8 DEF TInv
<1> QED  BY <1>1, <1>2, <1>3 DEF Next

\* Stopping and resuming loses one node at most, for a run that resumed and had the
\* database to itself (CycleRunner.run: checkpoint, append, HALTED row).
THEOREM FallsBack == Spec => FallsBackByOneNode
<1>1. TInv /\ [Next]_vars => TInv' /\ [StepsBack]_vars
  BY NextTInv
<1> QED  BY <1>1, InitTInv, PTL DEF Spec, FallsBackByOneNode, StepsBack

=============================================================================
