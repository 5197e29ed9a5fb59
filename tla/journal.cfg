SPECIFICATION Spec
CONSTANTS
  Buckets = 1
  Schemas <- MCSchemas
  NodeInputs <- MCNodes
  PropInputs <- MCProps
  Kinds = {"of"}
  Times = {1, 2}
  EarlyDeletes = FALSE
  MaxStatements = 2
  MaxCalls = 3
  MaxNodes = 2
  MaxRels = 2
INVARIANTS
  FailureLeavesNoTrace
  ReplayIsMemory
  LookupsMatchScan
  NoLeftovers
  CurrentIsLastChange
  ConstraintsHold
CHECK_DEADLOCK FALSE
