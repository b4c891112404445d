SPECIFICATION Spec
CONSTANTS
  Node = {1, 2, 3}
  PeerList <- Ring
  Row = {r1}
  MaxMs = 2
  MaxWrites = 2
  MaxCrashes = 1
  MaxLosses = 0
  MaxFaults = 0
  MaxApplyFails = 0
  Digests = {}
  Clocks = "synchronised"
  Races = {}
  MaxOutbox = 6
  BatchLimit = 2
  MaxBatches = 2
  FailuresBeforeDown = 2
INVARIANTS HistoryOrdered CursorsSound Delivered
