CONSTANTS
  j1 = j1
  bad = bad
  w1 = w1
  w2 = w2
  Jobs <- MCJobs
  BadJobs <- MCBadJobs
  Workers <- MCWorkers
  NoJob = NoJob
  NoWorker = NoWorker
  MaxFailures = 3
SPECIFICATION FairSpec
CHECK_DEADLOCK FALSE
INVARIANTS
  NeverReplayed
PROPERTIES
  UncertaintyMarkedFirst
  EveryJobSettles
