---------------------------- MODULE MCSnapshots ----------------------------
(* Snapshots with a lab whose guest runs and one whose guest does not. *)
EXTENDS Snapshots, TLC

\* One snapshot of each of some labs.
CONSTANT SnapshotLabs
MCSnapshotSet == SnapshotLabs \X {1}

Symmetry == Permutations(Sessions)
=============================================================================
