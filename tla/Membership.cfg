\* Two members, two scalings by a user who waits, a restart, a kill and a fault.
SPECIFICATION FairSpec
CONSTANTS
  MaxMembers = 3
  InitialReplicas = 2
  KeepVolumes = FALSE
  PatientUser = TRUE
  MaxSizeEdits = 2
  MaxRestarts = 1
  MaxKills = 1
  MaxFaults = 1
INVARIANTS
  TypeOK
  VotersCanReturn
  NoGhostVoters
PROPERTIES
  StayingMembersStay
  FilesFollowEnsemble
  SizesAsPromised
  EventuallyMembersVote
CHECK_DEADLOCK FALSE
