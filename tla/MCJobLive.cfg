CONSTANTS
  a = a
  b = b
  c = c
  NoTask = NoTask
  NumWorkers = 2
  NumClients = 1
  Tasks <- PairTasks
  ByJobs = {}
  Deps <- PairChainDeps
  Prio <- PairPrio
  MaxQueued = 0
  MayDrop = {}
  StopModes = {"drain", "cancel"}
SPECIFICATION FairSpec
PROPERTIES
  JobsFinish
