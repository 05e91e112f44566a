---------------------------- MODULE MC_Scheduler ----------------------------
(* Instances of Scheduler for TLC. *)
EXTENDS Scheduler, TLC

(* Processes run the same code and are compared only for equality. *)
ProcessSymmetry == Permutations(Process)
=============================================================================
