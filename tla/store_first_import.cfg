\* The first import or checkpoint of a database stops before its log entry.
SPECIFICATION Spec
CONSTANTS
  t1 = t1
  t2 = t2
  Threads = {t1, t2}
  Writes = {w1}
  Graphs = {g1}
  Legacy = legacy
  FoundIsDurable = TRUE
  Stops = {"kill", "power"}
  MaxLog = 2
  MaxFiles = 3
INVARIANTS
  Recoverable
