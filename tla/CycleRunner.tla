------------------------------ MODULE CycleRunner ------------------------------
(***************************************************************************)
(* The resumable cycle runner (backend/agents/orchestrator/runner.py) over   *)
(* the workflow tables (backend/db/workflow_repo.py).                       *)
(*                                                                          *)
(* A run walks the six nodes in order and checkpoints each one after its     *)
(* body; the next run reads the latest row and continues behind it.  Runs    *)
(* are separate processes on one database: each database call is one step,   *)
(* so other runs come between them.  A run can be interrupted (Ctrl-C),      *)
(* where the code then writes a HALTED row, raise, or die.                   *)
(*                                                                          *)
(* Nodes are numbered 1 (INITIAL) .. 6 (MONITORING); 7 is COMPLETED.         *)
(***************************************************************************)
EXTENDS Naturals

CONSTANTS
  Runs,       \* the calls of CycleRunner.run (a bound: each happens once)
  Cycles,     \* the cycle ids
  NoCycle     \* cycle_id=None

ASSUME CyclesAssumption == NoCycle \notin Cycles

First == 1
Last == 6
Completed == 7
Nodes == First .. Last

VARIABLES
  proc,      \* per run: pc, its cycle and len(ctx.completed_nodes); inTurn is
             \* history: it resumes, and no other run has been under way with it
  latest,    \* workflow_state: the latest row of each cycle
  older,     \* workflow_state, by row id: the <<d, c>> whose latest row of d is
             \* older than the one of c (or missing)
  ran        \* history: the nodes whose body has finished, per cycle

vars == <<proc, latest, older, ran>>

NoRow == [node |-> 0, status |-> "none"]

Over == {"returned", "halted", "raised"}
Steps == {"idle", "pick", "load", "body", "checkpoint", "append", "final", "return", "halt"}
           \cup Over

Init ==
  /\ proc = [p \in Runs |-> [pc |-> "idle", cycle |-> NoCycle, done |-> 0, inTurn |-> FALSE]]
  /\ latest = [c \in Cycles |-> NoRow]
  /\ older = {}
  /\ ran = [c \in Cycles |-> {}]

-----------------------------------------------------------------------------

At(p, pc) == proc[p].pc = pc
Active(p) == proc[p].pc \notin Over \cup {"idle"}
Become(p, state) == proc' = [proc EXCEPT ![p] = state]
Go(p, pc) == Become(p, [proc[p] EXCEPT !.pc = pc])

\* WorkflowRepository.set_state: one transaction, the newest row.
SetState(c, node, status) ==
  /\ latest' = [latest EXCEPT ![c] = [node |-> node, status |-> status]]
  /\ older' = {pair \in older : pair[1] # c} \cup ((Cycles \ {c}) \X {c})

tables == <<latest, older>>

\* FAILED is terminal too; no run writes it.
Terminal(row) == row.node = Completed \/ row.status = "COMPLETED"
Unfinished == {c \in Cycles : latest[c] # NoRow /\ ~Terminal(latest[c])}

\* Mutant: resume at the node that comes after the next.
ResumeIndexOffByOne(row) == IF Terminal(row) \/ row.node = Last THEN Last ELSE row.node + 1

\* How many nodes are behind a run that starts from this row.
ResumeIndex(row) == IF Terminal(row) THEN Last ELSE row.node

\* A cycle id no run has been given: what _mint_cycle_id returns.
Unused(c) == latest[c] = NoRow /\ \A p \in Runs : proc[p].cycle # c

\* A run begins, in its turn or while others are under way.
Begin(p, pc, cycle, resume) ==
  proc' = [q \in Runs |->
             IF q = p
             THEN [proc[p] EXCEPT !.pc = pc, !.cycle = cycle,
                                  !.inTurn = resume /\ \A r \in Runs : ~Active(r)]
             ELSE IF Active(q) THEN [proc[q] EXCEPT !.inTurn = FALSE] ELSE proc[q]]

Start(p) ==
  /\ At(p, "idle")
  /\ \/ \E c \in Cycles : Begin(p, "load", c, TRUE)
     \/ Begin(p, "pick", NoCycle, TRUE)
     \/ \E c \in Cycles : Begin(p, "body", c, FALSE)
  /\ UNCHANGED <<tables, ran>>

\* cycle_id=None: latest_unfinished_cycle, or a new id.
Pick(p) ==
  /\ At(p, "pick")
  /\ \E c \in Cycles :
       /\ IF Unfinished = {} THEN Unused(c)
          ELSE c \in Unfinished /\ (Unfinished \ {c}) \X {c} \subseteq older
       /\ Become(p, [proc[p] EXCEPT !.pc = "load", !.cycle = c])
  /\ UNCHANGED <<tables, ran>>

\* get_state: a terminal cycle is returned untouched.
Load(p) ==
  /\ At(p, "load")
  /\ LET row == latest[proc[p].cycle] IN
       Become(p, [proc[p] EXCEPT !.done = ResumeIndex(row),
                                 !.pc = IF Terminal(row) THEN "returned"
                                        ELSE IF ResumeIndex(row) = Last THEN "final" ELSE "body"])
  /\ UNCHANGED <<tables, ran>>

Body(p) ==
  /\ At(p, "body")
  /\ ran' = [ran EXCEPT ![proc[p].cycle] = @ \cup {proc[p].done + 1}]
  /\ Go(p, "checkpoint")
  /\ UNCHANGED tables

Checkpoint(p) ==
  /\ At(p, "checkpoint")
  /\ SetState(proc[p].cycle, proc[p].done + 1, "RUNNING")
  /\ Go(p, "append")
  /\ UNCHANGED ran

\* ctx.completed_nodes.append(node)
Append(p) ==
  /\ At(p, "append")
  /\ Become(p, [proc[p] EXCEPT !.done = proc[p].done + 1,
                               !.pc = IF proc[p].done + 1 = Last THEN "final" ELSE "body"])
  /\ UNCHANGED <<tables, ran>>

Final(p) ==
  /\ At(p, "final")
  /\ SetState(proc[p].cycle, Completed, "COMPLETED")
  /\ Go(p, "return")
  /\ UNCHANGED ran

Return(p) ==
  /\ At(p, "return")
  /\ Go(p, "returned")
  /\ UNCHANGED <<tables, ran>>

\* KeyboardInterrupt / SystemExit.  Inside the try block a HALTED row follows;
\* it may strike after the transaction of a checkpoint and before the append.
Interrupt(p) ==
  /\ Active(p) /\ ~At(p, "halt")
  /\ Go(p, IF proc[p].pc \in {"pick", "load"} THEN "raised" ELSE "halt")
  /\ UNCHANGED <<tables, ran>>

\* Mutant: the halt is recorded at INITIAL whatever was done.
HaltAtInitial(p) ==
  /\ At(p, "halt")
  /\ SetState(proc[p].cycle, First, "HALTED")
  /\ Go(p, "halted")
  /\ UNCHANGED ran

\* Mutant: a run halted before its first node finished records nothing.
HaltOnlyWithProgress(p) ==
  /\ At(p, "halt")
  /\ IF proc[p].done = 0 THEN UNCHANGED tables
     ELSE SetState(proc[p].cycle, proc[p].done, "HALTED")
  /\ Go(p, "halted")
  /\ UNCHANGED ran

\* The last completed node, or INITIAL when there is none yet.
Halt(p) ==
  /\ At(p, "halt")
  /\ SetState(proc[p].cycle, IF proc[p].done = 0 THEN First ELSE proc[p].done, "HALTED")
  /\ Go(p, "halted")
  /\ UNCHANGED ran

\* A body or a database call raises, or the process is killed: no row.
Raise(p) ==
  /\ Active(p)
  /\ Go(p, "raised")
  /\ UNCHANGED <<tables, ran>>

Act(p) ==
  \/ Start(p) \/ Pick(p) \/ Load(p) \/ Body(p) \/ Checkpoint(p) \/ Append(p)
  \/ Final(p) \/ Return(p) \/ Interrupt(p) \/ Halt(p) \/ Raise(p)

Next == \E p \in Runs : Act(p)

Spec == Init /\ [][Next]_vars

-----------------------------------------------------------------------------
(* Properties                                                               *)

Row == [node : 0 .. Completed, status : {"none", "RUNNING", "HALTED", "COMPLETED"}]

TypeOK ==
  /\ proc \in [Runs -> [pc : Steps, cycle : Cycles \cup {NoCycle}, done : 0 .. Last,
                     inTurn : BOOLEAN]]
  /\ latest \in [Cycles -> Row]
  /\ older \subseteq Cycles \X Cycles
  /\ ran \in [Cycles -> SUBSET Nodes]

\* Everything a row with this node vouches for.  INITIAL is only a marker: a run
\* interrupted before it finished is recorded there all the same.
Behind(node) == {n \in Nodes : First < n /\ n <= node}

\* A resume "resumes from the node after the last one that finished" (runner.py):
\* whatever runs overlap, are interrupted or die, a cycle's latest row names a
\* node only when the body of every node up to it has finished, so a resume skips
\* no work, and a COMPLETED row means that all of them have.
RowsAreEarned == \A c \in Cycles : Behind(latest[c].node) \subseteq ran[c]

\* "Record where we stopped so the cycle is never orphaned" (runner.py): a run
\* that was interrupted and has recorded it leaves its cycle with a row from
\* which a later run goes on, or that tells it is finished.
InterruptedIsFound ==
  \A p \in Runs : At(p, "halted") => latest[proc[p].cycle].node \in First .. Completed

\* What stopping and starting again costs: a row written by a run that resumed and
\* had the database to itself takes its cycle back by one node at most.  (A run that
\* starts afresh, or goes on beside another, may take it back further.)
FallsBackByOneNode ==
  [][\A p \in Runs, c \in Cycles :
       proc[p].inTurn /\ proc'[p] # proc[p] => latest[c].node <= latest'[c].node + 1]_vars

=============================================================================
