CONSTANTS
  t1 = t1
  t2 = t2
  entry = entry
  Tasks <- MCTasks
  Keys <- MCKeys
  EntryKeys <- MCKeys
  NoKey = NoKey
  MaxTokens = 3
SPECIFICATION FairSpec
CHECK_DEADLOCK TRUE
INVARIANTS
  OneLiveSubmitter
PROPERTIES
  NoStaleSubmission
  LapsedOwnerStops
  AbandonedKeyFreed
