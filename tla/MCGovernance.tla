---------------------------- MODULE MCGovernance ----------------------------
(* Governance over some of the built-in profiles. *)
EXTENDS GovernanceGate, DefaultProfiles

\* Some of DEFAULT_PROFILES, the ones a configuration names.
MCRegistry == [n \in ProfileNames |-> DEFAULT_PROFILES[n]]

Symmetry ==
  Permutations(Sessions) \cup Permutations(Labs) \cup Permutations(Exports)
=============================================================================
