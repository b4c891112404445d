SPECIFICATION FairSpec
CONSTANTS
  Node = {1, 2}
  PeerList <- FullMesh
  Row = {r1}
  MaxMs = 1
  MaxWrites = 1
  MaxCrashes = 1
  MaxLosses = 1
  MaxFaults = 1
  MaxApplyFails = 1
  Digests = {1, 2}
  Clocks = "monotone"
  Races = {}
  MaxOutbox = 6
  BatchLimit = 1
  MaxBatches = 2
  FailuresBeforeDown = 2
PROPERTIES Recovers
