-------------------------- MODULE MCDockerRuntime --------------------------
(* A networked lab and one without a network that mount the same volume.    *)
(* Only the first has a lease, and a row in the control plane.              *)
EXTENDS DockerRuntime

CONSTANTS l1, l2, v1

MCLabs == {l1, l2}
MCGoverned == {l1}
MCNetworked == {l1}
MCVolumes == {v1}
MCMounts == [l \in MCLabs |-> {v1}]
MCLeases == {<<l1, 1>>}
=============================================================================
