SPECIFICATION LinkedSpec
CONSTANTS
  Nodes = {n1, n2}
  n1 = n1
  n2 = n2
  Fields = {f, c}
  Compound = {c}
  Handlers = {h1}
  Wakers = {w1}
  Daily = w1
  MaxCommits = 3
  MaxWrites = 1
  Reloads = FALSE
  None = None
SYMMETRY LinkedSymmetry
INVARIANTS
  ReceiveNeverRefuses
  MirrorIsPast
PROPERTY MailboxKeepsUnapplied
