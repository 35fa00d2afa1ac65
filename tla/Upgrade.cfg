\* One upgrade of two members with a deadline that may expire and a pod that fails.
SPECIFICATION Spec
CONSTANTS
  t1 = t1
  t2 = t2
  Tag = {t1, t2}
  NoTag = NoTag
  Deadline = 0
  Size = {1, 2}
  InitialSize = 2
  InitialTag = t1
  BadTag = {}
  MaxSizeEdits = 0
  MaxTagEdits = 1
  MaxRestartEdits = 0
  MaxCrashes = 0
  MaxFaults = 0
  MaxPodFailures = 1
  MaxTime = 2
  PatientUser = TRUE
  PromptCache = TRUE
  LostWrites = TRUE
  StaleRestarts = TRUE
INVARIANTS
  UpgradeStateCoherent
  RolloutInv
  UpgradeInv
PROPERTIES
  VersionChangesByUpgrade
  CompletedUpgradeRuns
  NoPrematureFailure
