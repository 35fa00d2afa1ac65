\* Two edits, one of them may change the policy, a deletion of the cluster, and
\* one fault: a failed call, a failed pod or a restart of the operator.
\* Nothing happens after the cluster and its pods are gone.
SPECIFICATION FairSpec
CONSTANTS
  MaxReplicas = 2
  InitialReplicas = 1
  InitialPolicy = "Delete"
  DisableFinalizer = FALSE
  MaxEdits = 2
  MaxPolicyEdits = 1
  MaxFaults = 1
  MaxDeletions = 1
  MaxStaleRestarts = 1
  PatientUser = TRUE
INVARIANTS
  TypeOK
  ClaimsGuarded
PROPERTIES
  CurrentPassesWait
  EventuallyReclaimed
  DeletionCompletes
CHECK_DEADLOCK FALSE
