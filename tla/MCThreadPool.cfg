SPECIFICATION FairSpec
CONSTANTS
  w1 = w1 w2 = w2 w3 = w3
  t1 = t1 t2 = t2 t3 = t3
  Workers <- ThreeWorkers
  Tasks <- ThreeTasks
  Client = client
  NoThread = nobody
  NoTask = none
INVARIANTS TypeOK OnePlacePerTask
PROPERTIES Termination ImplementsBatch
