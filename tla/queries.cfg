SPECIFICATION Spec
CONSTANTS
  Selections <- MCSelections
  Chains <- MCChains
  TimeTests <- MCTimeTests
  Windows <- MCWindows
  Paths <- MCPaths
  Schema <- MCSchema
  Uniques <- MCUniques
  Commands <- MCStatements
  Changes <- MCChanges
  Files <- MCFiles
  Fields <- MCFields
  MaxValueDepth = 2
  StoredMark = 9
  Discoveries <- MCDiscoveries
  Gram = 2
  Bundles <- MCBundles
  Bytes <- MCBytes
  Staging = ".upload"
  Wrapper = "x.zga"
  DatedQueries <- MCNamedDates
  YearLength = 6
  MonthLength = 3
  WeekLength = 2
  StoredIds <- MCStoredIds
  Fills <- MCFills
  Chunk = 4
  Span = 2
  LastChunk = 5
  EachEnd = 2
  Horizon = 4
  Grain = 2
  Origin = 1
  FirstRadius = 1
  Farthest = 8
INVARIANTS ReadsAreScans ChainsAreWalks TimesAreLooks ChangesKeepData MutationsDoAll CheckedStatementsRun FilesAreOneEncoding RecordsAreFound StagesFindAll NamedDatesMean BundlesTravel RoutesAreBest
PROPERTIES SearchesEnd
CHECK_DEADLOCK FALSE
