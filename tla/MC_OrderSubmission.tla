------------------------- MODULE MC_OrderSubmission -------------------------
(* OrderSubmission for plans of one and two legs, the widest the strategy     *)
(* agents build (protective put, put spread, collar).                         *)
EXTENDS OrderSubmission

=============================================================================
