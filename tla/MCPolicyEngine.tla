--------------------------- MODULE MCPolicyEngine ---------------------------
(* PolicyEngine over every valid profile; a profile is its own name.  The     *)
(* file system and persistence modes are only compared and copied: one value  *)
(* of each in the profiles, both in the requests.                             *)
EXTENDS PolicyEngine

MCProfiles ==
  {p \in Profile : /\ ValidCombination(p)
                   /\ p.filesystem_mode = "managed"
                   /\ p.persistence_mode = "ephemeral"}

MCRegistry == [p \in MCProfiles |-> p]
=============================================================================
