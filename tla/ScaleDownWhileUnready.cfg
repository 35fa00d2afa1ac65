\* A scale-down while a member that stays is not ready.
SPECIFICATION Spec
CONSTANTS
  MaxReplicas = 2
  InitialReplicas = 2
  InitialPolicy = "Delete"
  DisableFinalizer = FALSE
  MaxEdits = 1
  MaxPolicyEdits = 0
  MaxFaults = 1
  MaxDeletions = 0
  MaxStaleRestarts = 0
  PatientUser = FALSE
PROPERTIES
  OrphansAfterScaleDown
CHECK_DEADLOCK FALSE
