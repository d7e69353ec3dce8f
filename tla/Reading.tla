------------------------------- MODULE Reading -------------------------------
(***************************************************************************)
(* A cycle that writes its records, and one client of the API beside it: it    *)
(* follows the event stream, or asks for a decision trail or an execution.     *)
(* Reading changes no row, so one request at a time is enough.                *)
(***************************************************************************)
EXTENDS WorkflowStream, ReadBack

vars == <<records, streaming, reader>>

Init == RecordsInit /\ StreamInit /\ ReaderInit

\* Bounds: one connection, query or evaluation at a time, and nothing after the answer
\* to a query (reading changes no row).  An evaluation writes no table a connection or a
\* cycle state reads, so only the other queries run beside it.
Quiet == reader.at = "none" /\ stream.at = "none"
Answered == reader.at \in {"trail", "execution", "404", "cycle state"}

Write ==
  /\ ~Answered
  /\ \/ RunCycle
     \/ Quiet /\ EvaluateHypotheses
     \/ EvaluateDecision
  /\ UNCHANGED <<streaming, reader>>

Ask ==
  \/ reader.at = "none" /\ request.at = "idle" /\ Follow /\ UNCHANGED reader
  \/ stream.at = "none" /\ request.at = "idle" /\ ReadCycle /\ UNCHANGED streaming
  \/ stream.at = "none" /\ ReadRecords /\ UNCHANGED streaming

Next == Write \/ Ask

\* The cycle's thread runs on until it is done or dies, and so does an open connection;
\* a query that keeps failing is not modelled.
Fairness ==
  /\ WF_vars(~Answered /\ RunCycle /\ UNCHANGED <<streaming, reader>>)
  /\ WF_vars(Resolve /\ UNCHANGED reader)
  /\ WF_vars(Poll /\ UNCHANGED reader)

Spec == Init /\ [][Next]_vars /\ Fairness

-----------------------------------------------------------------------------

\* The stream is a follower of its cycle's log: every row once, in order, nothing
\* skipped between two polls, closed exactly behind a row that ends the cycle.
FollowsTheLog == Follower!Spec

\* Whoever stays connected to the cycle's stream sees the end of the cycle: the connection
\* closes, and the last row it delivered is that end.  It does not when a transition row
\* was lost, nor when the thread died in EXECUTION: nobody writes an end then, and the
\* stream has no deadline once it has a cycle.
NeverLogged == thread.at = "dead" \/ \E s \in Slots : <<s, "log">> \in lost

SeesTheEnd ==
  stream.at = "open" /\ stream.cycle = "this" ~>
    \/ stream.at = "closed" /\ delivered # <<>> /\ Last(delivered) = RowOf(LastPipelineNode, "EXIT")
    \/ NeverLogged

Announced(node) == \E i \in DOMAIN delivered : delivered[i] = RowOf(node, "EXIT")

\* What a node writes is written when the stream announces its end: a client that
\* refetches on the event need not ask again for what that node decided.  The end of
\* MONITORING closes everything, the nested reopen cycle included.
Own(table) == {<<i, table[i]>> : i \in {j \in DOMAIN table : table[j].slot = "primary"}}

AnnouncedIsFinal ==
  [][stream.cycle = "this" =>
       /\ Announced("ANALYZING") => UNCHANGED snapshots
       /\ Announced("STRATEGY_EVALUATION") =>
            UNCHANGED <<Own(hypotheses), Own(decisions)>>
       /\ Announced("RISK_CHECK") => UNCHANGED Own(riskChecks)
       /\ Announced("EXECUTION") => UNCHANGED Own(orders)
       /\ Announced("MONITORING") => UNCHANGED tables]_vars

\* An answer put together from several queries lists what it points at, however the
\* writers come in between: the decision of a trail a hypothesis of its own evaluation,
\* the current state of a cycle its row of the history.
PointsAtWhatItLists ==
  /\ reader.at = "trail" /\ reader.decision # 0 =>
       LET d == decisions[reader.decision] IN
       d.selected # 0 =>
         /\ d.selected \in reader.listed
         /\ hypotheses[d.selected].slot = d.slot
         /\ hypotheses[d.selected].family = d.family
  /\ reader.at = "cycle state" => reader.state \in reader.listed

\* A trail misses the approval of its order only if that order is a close, and the
\* repository of its check could not be built; what else it misses of a trade the cycle
\* selected was lost to a failing write.
TradeHasItsReasons ==
  reader.at = "trail" =>
    /\ "risk_approval" \in reader.missing =>
         orders[reader.order].slot = "close" /\ <<"close", "check">> \in lost
    /\ orders[reader.order].slot # "close" =>
         /\ reader.missing \cap {"strategy_decision", "hypotheses"} # {} =>
              \E s \in Slots : <<s, "strategy">> \in lost
         /\ "analysis_context" \in reader.missing => <<"primary", "snapshot">> \in lost

\* GET /execution answers for every order this code persists (404 only before there
\* is one), in a shape the contract's validator accepts: with the status and the filled
\* legs of the live result, or, where none could be made of the broker's answer, as
\* FAILED with nothing filled.
ExecutionIsReported ==
  /\ reader.at # "404"
  /\ reader.at = "execution" =>
       LET live == orders[reader.order].live IN
       /\ IF Mappable(live)
          THEN reader.answer = Result(live) /\ reader.filled = FilledLegs(live.fills)
          ELSE reader.answer = "FAILED" /\ reader.filled = {}
       /\ (reader.answer = "FILLED" => reader.unfilled = {})
       /\ (reader.answer = "PARTIALLY_FILLED" => reader.unfilled # {})

\* "the endpoint 404s instead of fabricating a terminal result for an order that hasn't
\* finished yet" (exec_readback.py).  Violated: the row of such an order is REJECTED, and
\* the answer FAILED.
UnfinishedIsNotReported ==
  reader.at = "execution" => orders[reader.order].live.state # "working"
=============================================================================
