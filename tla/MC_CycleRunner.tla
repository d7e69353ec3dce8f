---------------------------- MODULE MC_CycleRunner ----------------------------
(* Instances of CycleRunner for TLC. *)
EXTENDS CycleRunner, TLC

Symmetry == Permutations(Runs) \cup Permutations(Cycles)

=============================================================================
