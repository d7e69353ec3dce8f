--------------------------- MODULE MC_AdaptiveLoop ---------------------------
(* AdaptiveLoop for readings on both sides of every threshold that decides an   *)
(* outcome.                                                                 *)
EXTENDS AdaptiveLoop

Market(drawdown, volatility, vix, event, days) ==
  [drawdown |-> drawdown, volatility |-> volatility, vix |-> vix, gross |-> 90,
   beta |-> 100, event |-> event, sentiment |-> None, days |-> days]

MCMarkets ==
  { Market(0, 12, 13, FALSE, 30),         \* calm, nothing fires
    Market(0, 12, 13, FALSE, 3),          \* calm, the hedge expires
    Market(-9, 22, 24, FALSE, 30),        \* a drawdown
    Market(-16, 22, 24, FALSE, 30),       \* an emergency, just past the limit
    Market(-1, 12, 46, FALSE, 30),        \* a VIX emergency over calm volatility
    [Market(0, 13, 14, FALSE, 30) EXCEPT !.gross = 105],   \* calm and over-exposed
    [Market(None, 16, None, FALSE, None) EXCEPT !.beta = 250],
    Market(None, None, 61, TRUE, 3) }     \* an event, most of the data missing

=============================================================================
