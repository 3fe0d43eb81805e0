SPECIFICATION FairSpec
CONSTANTS
  w1 = w1
  w2 = w2
  p1 = p1
  p2 = p2
  Owner = p1
  MaxNaps = 2
  Workers <- MCWorkers
  Producers <- MCProducers
  Tasks <- MCTasks
  NoTask = NoTask
  Nobody = Nobody
INVARIANTS PoolsInv NoTaskStranded TokenMeansTask
PROPERTIES ImplementsWorkQueue TaskIsRun ShutdownReturns SleepDrains
