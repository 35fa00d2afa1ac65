\* The operator crashes once, between CreateNode and the status update for one.
SPECIFICATION FairSpec
CONSTANTS
  t1 = t1
  t2 = t2
  Tag = {t1, t2}
  NoTag = NoTag
  Deadline = 1
  Size = {1, 2}
  InitialSize = 1
  InitialTag = t1
  BadTag = {}
  MaxSizeEdits = 0
  MaxTagEdits = 0
  MaxRestartEdits = 0
  MaxCrashes = 1
  MaxFaults = 0
  MaxPodFailures = 0
  MaxTime = 1
  PatientUser = TRUE
  PromptCache = TRUE
  LostWrites = TRUE
  StaleRestarts = TRUE
PROPERTIES
  EventuallyReady
