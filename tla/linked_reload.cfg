SPECIFICATION Spec
CONSTANTS
  Nodes = {n1}
  n1 = n1
  n2 = n2
  Fields = {f, c}
  Compound = {c}
  Handlers = {h1}
  Wakers = {w1}
  Daily = w1
  MaxCommits = 3
  MaxWrites = 1
  Reloads = TRUE
  None = None
INVARIANT MirrorIsPast
