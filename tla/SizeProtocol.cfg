\* A patient user scales twice and restarts once; caches lag without bound, a
\* call fails and the operator crashes, short of the two failures that the
\* sizes do not survive.
SPECIFICATION Spec
CONSTANTS
  t1 = t1
  t2 = t2
  Tag = {t1, t2}
  NoTag = NoTag
  Deadline = 0
  Size = {1, 2}
  InitialSize = 2
  InitialTag = t1
  BadTag = {}
  MaxSizeEdits = 2
  MaxTagEdits = 0
  MaxRestartEdits = 1
  MaxCrashes = 1
  MaxFaults = 1
  MaxPodFailures = 0
  MaxTime = 1
  PatientUser = TRUE
  PromptCache = FALSE
  LostWrites = FALSE
  StaleRestarts = FALSE
INVARIANTS
  SizesInOrder
PROPERTIES
  AnnouncesSizes
  RemovalIsPermanent
  RestartKeepsEdits
