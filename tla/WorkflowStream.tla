--------------------------- MODULE WorkflowStream ---------------------------
(***************************************************************************)
(* GET /workflow-state/stream: the generator behind one connection            *)
(* (_event_generator of backend/api/workflow.py).  The transitions table is    *)
(* polled for rows of one cycle with an id above the last one sent; a failing  *)
(* query is an empty poll.  Without a cycle_id the most recently touched cycle *)
(* is followed, looked up until one is found or 30 seconds have passed.        *)
(* earlier is the log of a cycle that ended before this one began.            *)
(***************************************************************************)
EXTENDS CycleRecords

CONSTANT EarlierLogs   \* the logs an earlier cycle can have left ({<<>>} for none)

ASSUME EarlierLogsAssumption == EarlierLogs \subseteq Seq(Rows)

VARIABLES
  earlier,    \* the earlier cycle's rows
  stream,     \* the connection: its cycle, the last id sent, and where it is
  delivered   \* the events sent

streaming == <<earlier, stream, delivered>>

TerminalNodes == {"COMPLETED", "FAILED"}
LastPipelineNode == "MONITORING"

\* The rows of a cycle have ascending ids; those of the earlier cycle came first.
LogOf(cycle) == IF cycle = "this" THEN log ELSE IF cycle = "earlier" THEN earlier ELSE <<>>

StreamInit ==
  /\ earlier = <<>>
  /\ stream = [at |-> "none", cycle |-> "none", lastId |-> 0]
  /\ delivered = <<>>

\* A cycle_id is given once POST /run-cycle returned it, or left out; what an earlier
\* cycle left is chosen here, where it is first looked at.
Connect ==
  /\ stream.at = "none"
  /\ \/ /\ thread.at # "stamp"
        /\ stream' = [stream EXCEPT !.at = "open", !.cycle = "this"]
        /\ UNCHANGED earlier
     \/ /\ stream' = [stream EXCEPT !.at = "open"]
        /\ earlier' \in EarlierLogs
  /\ UNCHANGED <<records, delivered>>

\* The transitions table cannot be looked at (WorkflowRepository reflects it before the
\* first poll): the stream ends at once.
ConnectFails ==
  /\ stream.at = "none"
  /\ stream' = [stream EXCEPT !.at = "closed"]
  /\ UNCHANGED <<records, earlier, delivered>>

\* Both cycles' rows in workflow_state, newest first.
LatestCycle == IF log # <<>> THEN "this" ELSE IF earlier # <<>> THEN "earlier" ELSE "none"

Resolve ==
  /\ stream.at = "open"
  /\ stream.cycle = "none"
  /\ LatestCycle # "none"
  /\ stream' = [stream EXCEPT !.cycle = LatestCycle]
  /\ UNCHANGED <<records, earlier, delivered>>

\* The deadline is looked at only while there is no cycle.
GiveUp ==
  /\ stream.at = "open"
  /\ stream.cycle = "none"
  /\ stream' = [stream EXCEPT !.at = "closed"]
  /\ UNCHANGED <<records, earlier, delivered>>

\* Mutant: the ENTER row of the last node is taken for its end.
EndsStreamAtEnter(row) == row.node \in TerminalNodes \cup {LastPipelineNode}

EndsStream(row) ==
  \/ row.node \in TerminalNodes
  \/ row.node = LastPipelineNode /\ row.phase = "EXIT"

\* Mutant: a row whose id equals the last one sent is new.
NewRowsFromLast(rows, lastId) == SubSeq(rows, IF lastId = 0 THEN 1 ELSE lastId, Len(rows))

\* id > last_id, in id order.
NewRows(rows, lastId) == SubSeq(rows, lastId + 1, Len(rows))

\* One poll that found something: every new row is sent before the stream ends.
Poll ==
  /\ stream.at = "open"
  /\ LET new == NewRows(LogOf(stream.cycle), stream.lastId) IN
       /\ new # <<>>
       /\ delivered' = delivered \o new
       /\ stream' = [stream EXCEPT
            !.lastId = Len(LogOf(stream.cycle)),
            !.at = IF \E i \in DOMAIN new : EndsStream(new[i]) THEN "closed" ELSE @]
  /\ UNCHANGED <<records, earlier>>

Follow == Connect \/ ConnectFails \/ Resolve \/ GiveUp \/ Poll

-----------------------------------------------------------------------------

\* The log the connection is bound to once it has resolved one.
Follower == INSTANCE LogFollower WITH
  log <- LogOf(stream.cycle),
  open <- stream.at # "closed",
  IsEnd <- EndsStream
=============================================================================
