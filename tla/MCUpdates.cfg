SPECIFICATION MCSpec
CONSTANTS
  Replicas = {r1, r2}
  Slots = {t1, t2}
  MaxVersion = 2
  Blocks = 2
  MaxRetries = 1
  MaxInbox = 1
  MaxFaults = 1
  MaxActs = 1
  Services = {s1, s2}
  MaxTag = 3
  DeployFaults = 2
  DeployActs = 1
SYMMETRY Symmetry
INVARIANTS
  GenuineArtifacts
  PowerCutIsRepaired
  FileTellsWhatRuns
  NoReleaseIsMissed
PROPERTIES
  LatestNeverDowngrades
CHECK_DEADLOCK FALSE
