SPECIFICATION WakesSpec
CONSTANTS
  Nodes = {n1}
  n1 = n1
  n2 = n2
  Fields = {f}
  Compound = {}
  Handlers = {h1}
  Wakers = {w1, w2}
  Daily = w1
  MaxCommits = 3
  MaxWrites = 1
  Reloads = FALSE
  None = None
PROPERTIES
  ImplementsReplica
  Converges
