\* Two threads import and checkpoint, a client writes; kills and power cuts.
SPECIFICATION Spec
CONSTANTS
  t1 = t1
  t2 = t2
  Threads = {t1, t2}
  Writes = {w1, w2}
  Graphs = {g1}
  Legacy = legacy
  FoundIsDurable = TRUE
  Stops = {"kill", "power"}
  MaxLog = 3
  MaxFiles = 3
SYMMETRY ThreadSymmetry
INVARIANTS
  LosesNothing
  MemoryIsFiles
  DeletesWhatIsReplaced
