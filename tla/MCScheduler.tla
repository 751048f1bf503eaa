---------------------------- MODULE MCScheduler ----------------------------
(* Scheduler on small sets. *)
EXTENDS Scheduler, TLC

Symmetry ==
  Permutations(Jobs) \cup Permutations(Requesters) \cup Permutations(Sessions)
=============================================================================
