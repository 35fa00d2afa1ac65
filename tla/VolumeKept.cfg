\* Scaled down and up again with volumes that stay; nothing fails.
SPECIFICATION FairSpec
CONSTANTS
  MaxMembers = 3
  InitialReplicas = 2
  KeepVolumes = TRUE
  PatientUser = TRUE
  MaxSizeEdits = 2
  MaxRestarts = 0
  MaxKills = 0
  MaxFaults = 0
PROPERTIES
  EventuallyAllVote
CHECK_DEADLOCK FALSE
