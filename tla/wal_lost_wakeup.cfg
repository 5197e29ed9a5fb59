\* A checkpoint whose sync fails while an append waits: the append is not woken.
SPECIFICATION FairSpec
CONSTANTS
  w1 = w1
  w2 = w2
  Writers = {w1, w2}
  FlushModes = {TRUE, FALSE}
  GraphLock = TRUE
  SyncCommitsRename = TRUE
  Faults = {"write", "rollback", "sync", "presync", "copy", "reopen", "parent"}
  Stops = {"kill", "power"}
  MaxEntries = 3
PROPERTIES
  EveryAppendReturns
