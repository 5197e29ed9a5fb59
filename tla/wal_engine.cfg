\* The engine's use of the log: appends run one at a time under the graph lock.
SPECIFICATION FairSpec
CONSTANTS
  w1 = w1
  w2 = w2
  Writers = {w1, w2}
  FlushModes = {TRUE, FALSE}
  GraphLock = TRUE
  SyncCommitsRename = TRUE
  Faults = {"write", "rollback", "sync", "copy", "reopen", "parent"}
  Stops = {"kill", "power"}
  MaxEntries = 3
INVARIANTS
  AckedDurable
  RemovedWritesStayGone
PROPERTIES
  ImplementsStore
  EveryAppendReturns
