---------------------------- MODULE MC_HedgeCycle ----------------------------
(* HedgeCycle for two invocations under one cycle_id: a cycle and a tick, a    *)
(* cycle and its re-invocation, two ticks.                                     *)
EXTENDS HedgeCycle, TLC

Symmetry == Permutations(Runs)

=============================================================================
