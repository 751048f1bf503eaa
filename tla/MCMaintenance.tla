--------------------------- MODULE MCMaintenance ---------------------------
(* Maintenance on small sets, without symmetry: its runs check liveness. *)
EXTENDS Maintenance
=============================================================================
