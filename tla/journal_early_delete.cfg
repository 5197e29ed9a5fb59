SPECIFICATION Spec
CONSTANTS
  Buckets = 1
  Schemas <- MCSchemas
  NodeInputs <- MCNodes
  PropInputs <- MCProps
  Kinds = {"of"}
  Times = {1, 2}
  EarlyDeletes = TRUE
  MaxStatements = 2
  MaxCalls = 3
  MaxNodes = 2
  MaxRels = 1
INVARIANTS
  FailureLeavesNoTrace
CHECK_DEADLOCK FALSE
