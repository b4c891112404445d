SPECIFICATION Spec
CONSTANTS
  Node = {1, 2}
  PeerList <- FullMesh
  Row = {r1}
  MaxMs = 2
  MaxWrites = 2
  MaxCrashes = 0
  MaxLosses = 0
  MaxFaults = 0
  MaxApplyFails = 0
  Digests = {}
  Clocks = "synchronised"
  Races = {"context"}
  MaxOutbox = 6
  BatchLimit = 2
  MaxBatches = 2
  FailuresBeforeDown = 2
INVARIANT Converged
