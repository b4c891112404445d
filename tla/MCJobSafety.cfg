CONSTANTS
  a = a
  b = b
  c = c
  NoTask = NoTask
  NumWorkers = 2
  NumClients = 1
  Tasks <- ChainTasks
  ByJobs = {c}
  Deps <- ChainDeps
  Prio <- NormalPrio
  MaxQueued = 1
  MayDrop = {b}
  StopModes = {"drain", "cancel"}
SPECIFICATION Spec
INVARIANTS
  RunsOnceInOrder
  NoTaskAbandoned
  CountersExact
  
PROPERTIES
  SubmissionsBounded
