\* Two threads append at once, as the crate's own tests do, and every
\* operation on the file may fail.
SPECIFICATION Spec
CONSTANTS
  w1 = w1
  w2 = w2
  Writers = {w1, w2}
  FlushModes = {TRUE, FALSE}
  GraphLock = FALSE
  SyncCommitsRename = TRUE
  Faults = {"write", "rollback", "sync", "presync", "copy", "reopen", "parent", "mark"}
  Stops = {"kill", "power"}
  MaxEntries = 3
SYMMETRY WriterSymmetry
INVARIANTS
  TypeOK
  PendingMatchesFile
  NothingAfterTornTail
  MemoryIsLog
PROPERTIES
  RotationKeepsHistory
