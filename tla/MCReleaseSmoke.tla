-------------------------- MODULE MCReleaseSmoke --------------------------
(* ReleaseSmoke with commands and ports as model values, without symmetry: *)
(* its run checks liveness.                                                *)
EXTENDS ReleaseSmoke
=============================================================================
