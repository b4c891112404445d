SPECIFICATION Spec
CONSTANTS
  Node = {1, 2}
  Semantics = "lease_required"
  Period = 2
  MaxFires = 0
  TTL = 2
  RenewEvery = 1
  Grace = 1
  RetryEvery = 1
  Visibility = 1
  MaxTime = 6
  MaxEpoch = 3
  MaxCrashes = 1
  MaxCuts = 0
  MaxReleases = 0
  FalseDown = FALSE
  Timely = FALSE
CHECK_DEADLOCK FALSE
INVARIANT SurvivorUnfenced
