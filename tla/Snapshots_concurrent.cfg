CONSTANTS
  Labs = {l1, l2}
  Snapshots <- MCSnapshotSet
  SnapshotLabs = {l1}
  Files = {f1, f2}
  RefusedFiles = {f2}
  RunningLabs = {l1}
  Sessions = {s1, s2}
SYMMETRY Symmetry
SPECIFICATION Spec
INVARIANTS
  TypeOK
  RecordedSnapshotsAreKept
  ClearedOnlyForAnArchive
  RestoresAreExact
  OnlyRestoresRefillDestroyedLabs
  TornManifestsHaveACause
CHECK_DEADLOCK FALSE
