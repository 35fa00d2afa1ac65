SPECIFICATION FairSpec
CONSTANTS
  MaxPods = 5
  MaxNodeFailures = 2
  MaxEvictions = 1
  MaxRollouts = 1
  MaxRestarts = 1
  MaxFaults = 1
  CalmRollouts = TRUE
INVARIANTS AtMostOneLeader LockInv
PROPERTIES EventuallyLed
CHECK_DEADLOCK FALSE
