\* A patient user scales, upgrades and restarts once each.
SPECIFICATION FairSpec
CONSTANTS
  t1 = t1
  t2 = t2
  Tag = {t1, t2}
  NoTag = NoTag
  Deadline = 1
  Size = {1, 2}
  InitialSize = 2
  InitialTag = t1
  BadTag = {}
  MaxSizeEdits = 1
  MaxTagEdits = 1
  MaxRestartEdits = 1
  MaxCrashes = 0
  MaxFaults = 0
  MaxPodFailures = 0
  MaxTime = 1
  PatientUser = TRUE
  PromptCache = TRUE
  LostWrites = FALSE
  StaleRestarts = TRUE
PROPERTIES
  EventuallySettled
  UpgradeEnds
  SizeAnnouncedFirst
