SPECIFICATION FairSpec
CONSTANTS
  MaxPods = 2
  MaxDisturbances = 1
CHECK_DEADLOCK FALSE
INVARIANTS OnePodUndisturbed VerdictHasCause
PROPERTIES Settles DeletionEnds
