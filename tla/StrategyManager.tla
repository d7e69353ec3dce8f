---------------------------- MODULE StrategyManager ---------------------------
(***************************************************************************)
(* StrategyManager.run: from the hypotheses the pre-filter kept to one     *)
(* decision, with an answer of the language model or without.  Of a reply  *)
(* "down" means that the call failed and "garbled" that it was not the     *)
(* JSON object asked for; an answer that names no confidence counts as     *)
(* sure, and a confidence that is no number is "bad".                      *)
(***************************************************************************)
EXTENDS StrategyAgents

Decisions == {"SELECT_STRATEGY", "NO_TRADE", "REASSESS"}

Unanswered(kind) == [kind |-> kind, decision |-> None, strategy |-> None, confidence |-> None]

(* _call_llm raises without a key, on any error of the provider and on a   *)
(* completion without choices: to select() they are all one.               *)
CallFails == Unanswered("down")

StrategyReplies ==
  {CallFails, Unanswered("garbled")} \cup
  [kind : {"answer"}, decision : Decisions,
   strategy : Range(Families) \cup {"unknown", None}, confidence : {"sure", "low", "bad"}]

Decide(decision, hypothesis) == [decision |-> decision, selected |-> hypothesis]
Select(h) == Decide("SELECT_STRATEGY", h)

(* kept and viable are places in the hypotheses.                           *)
Cheapest(hypotheses, hedges) == FirstBest(hypotheses, hedges, LAMBDA g, h : g.cost < h.cost)

(* The cheapest hedge that is viable, and no trade when there is none.     *)
FallbackDecision(hypotheses, viable) ==
  LET hedges == {i \in viable : hypotheses[i].strategy # "NO_HEDGE"}
  IN  IF hedges = {} THEN Decide("NO_TRADE", None)
      ELSE Select(Cheapest(hypotheses, hedges))

NamedHypothesis(hypotheses, viable, strategy) ==
  {i \in viable : hypotheses[i].strategy = strategy}

(* The hypothesis an answer names; a name unknown, dropped or missing is   *)
(* answered by the fallback.                                               *)
Chosen(hypotheses, viable, strategy) ==
  LET named == NamedHypothesis(hypotheses, viable, strategy)
  IN  IF named = {} THEN FallbackDecision(hypotheses, viable)
      ELSE Select(hypotheses[Min(named)])

(* select(): "raises" is the exception that float(confidence) lets out.    *)
SelectWith(hypotheses, viable, ctx, reply) ==
  IF reply.kind # "answer" THEN FallbackDecision(hypotheses, viable)
  ELSE IF reply.confidence = "bad" THEN Decide("raises", None)
  ELSE IF ctx.degraded \/ reply.confidence = "low" THEN Decide("REASSESS", None)
  ELSE IF reply.decision # "SELECT_STRATEGY" THEN Decide(reply.decision, None)
  ELSE Chosen(hypotheses, viable, reply.strategy)

(* validate(): a decision when nothing viable is left, else None.  Every   *)
(* hypothesis is of the cycle of its context: propose() stamps them so.    *)
Validate(hypotheses, kept) ==
  IF \E i \in kept : hypotheses[i].viable THEN None ELSE Decide("NO_TRADE", None)

(* run(): with nothing viable left the model is not asked.                 *)
Run(hypotheses, kept, ctx, reply) ==
  IF Validate(hypotheses, kept) # None THEN Validate(hypotheses, kept)
  ELSE SelectWith(hypotheses, {i \in kept : hypotheses[i].viable}, ctx, reply)
=============================================================================
