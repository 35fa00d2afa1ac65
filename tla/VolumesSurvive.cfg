\* A settled cluster is deleted and one call fails.
\* Nothing happens after the cluster and its pods are gone.
SPECIFICATION FairSpec
CONSTANTS
  MaxReplicas = 2
  InitialReplicas = 2
  InitialPolicy = "Delete"
  DisableFinalizer = FALSE
  MaxEdits = 0
  MaxPolicyEdits = 0
  MaxFaults = 1
  MaxDeletions = 1
  MaxStaleRestarts = 0
  PatientUser = TRUE
PROPERTIES
  VolumesGoWithCluster
CHECK_DEADLOCK FALSE
