CONSTANTS
  l1 = l1
  l2 = l2
  v1 = v1
  Labs <- MCLabs
  Governed <- MCGoverned
  Networked <- MCNetworked
  Volumes <- MCVolumes
  Mounts <- MCMounts
  Leases <- MCLeases
  Drivers = {d1, d2}
SPECIFICATION FairSpec
INVARIANTS
  LabsKeepTheirResources
  NetworksHaveAnOwner
PROPERTIES
  ExpiredSecretsStayOut
  WrittenDataIsKept
  LingeringContainersAreFlagged
