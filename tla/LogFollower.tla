----------------------------- MODULE LogFollower -----------------------------
(***************************************************************************)
(* What GET /workflow-state/stream promises (the docstring of                *)
(* stream_workflow_state, backend/api/workflow.py): one event per new row of  *)
(* the followed cycle's log, in the order of the log, none twice, none left   *)
(* out; and the stream ends by itself only behind a row that ends a cycle, or *)
(* when there was nothing to follow.                                         *)
(***************************************************************************)
EXTENDS Naturals, Sequences, SequencesExt

CONSTANT IsEnd(_)   \* the rows that end a cycle

VARIABLES
  log,        \* the followed cycle's rows, oldest first
  delivered,  \* the events sent so far
  open        \* whether the stream may still send one

Init ==
  /\ delivered = <<>>
  /\ open = TRUE

\* A row is added; rows are never changed or taken away.
Grow ==
  /\ log # log'
  /\ IsPrefix(log, log')
  /\ UNCHANGED <<delivered, open>>

\* The rows after the last event are sent, and the stream may end.
Deliver ==
  /\ open
  /\ delivered # delivered'
  /\ IsPrefix(delivered, delivered')
  /\ IsPrefix(delivered', log)
  /\ open' = ~\E i \in DOMAIN delivered' : IsEnd(delivered'[i])
  /\ UNCHANGED log

\* Nothing to follow turned up.
GiveUp ==
  /\ open
  /\ delivered = <<>>
  /\ open' = FALSE
  /\ UNCHANGED <<log, delivered>>

Next == Grow \/ Deliver \/ GiveUp

Spec == Init /\ [][Next]_<<log, delivered, open>>
=============================================================================
