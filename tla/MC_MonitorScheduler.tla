-------------------------- MODULE MC_MonitorScheduler --------------------------
(* Instances of MonitorScheduler for TLC. *)
EXTENDS MonitorScheduler, TLC

Symmetry == Permutations(Timers) \cup Permutations(Jobs)

=============================================================================
