---------------------------- MODULE MCScheduler ----------------------------
(* Instances of Scheduler for TLC. *)
EXTENDS Scheduler, TLC

\* The tasks that call the API are interchangeable, and so are the firings
Symmetry == Permutations(Callers) \cup Permutations(Firings)
=============================================================================
