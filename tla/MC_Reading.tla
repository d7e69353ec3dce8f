----------------------------- MODULE MC_Reading -----------------------------
(* Reading for one family and one broker answer of each kind: done, a leg  *)
(* unfilled, still working, and filled short, which no result fits; with an   *)
(* earlier cycle in the log and without one.                                 *)
EXTENDS Reading

MCFamilies == <<"PROTECTIVE_PUT">>

MCBrokerCases ==
  { Answer(<<"BUY">>, "filled", <<"full">>),
    Answer(<<"BUY", "SELL">>, "canceled", <<"full", "none">>),
    Answer(<<"BUY">>, "working", <<"none">>),
    Answer(<<"BUY">>, "partially_filled", <<"short">>) }

MCEarlierLogs ==
  { <<>>,
    <<RowOf("INITIAL", "none"), RowOf("MONITORING", "ENTER"), RowOf("MONITORING", "EXIT")>> }
=============================================================================
