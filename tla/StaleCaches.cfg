\* Caches lag without bound; one scale, one crash onto a lagging API server, one fault.
SPECIFICATION Spec
CONSTANTS
  t1 = t1
  t2 = t2
  Tag = {t1, t2}
  NoTag = NoTag
  Deadline = 1
  Size = {1, 2}
  InitialSize = 1
  InitialTag = t1
  BadTag = {}
  MaxSizeEdits = 1
  MaxTagEdits = 0
  MaxRestartEdits = 0
  MaxCrashes = 1
  MaxFaults = 1
  MaxPodFailures = 0
  MaxTime = 1
  PatientUser = FALSE
  PromptCache = FALSE
  LostWrites = TRUE
  StaleRestarts = TRUE
INVARIANTS
  TypeOK
  MetaRootExists
  LatestSpecApplied
  FollowerInv
PROPERTIES
  NeverRollsBack
  FollowsSpec
