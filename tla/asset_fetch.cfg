SPECIFICATION FairSpec
CONSTANTS
  a1 = a1
  a2 = a2
  a3 = a3
  a4 = a4
  Assets <- FourAssets
  MaxPageSize = 3
  Calls <- FetchCalls
  Populations <- UpToThree
  RepeatsCursor = TRUE
  MaxPending = 1
  MaxChanges = 2
  MaxMalformed = 1
INVARIANTS
  TypeOK
  Accounting
  ExactWindow
  LimitsRespected
  FaultsExplained
  TagsOnceAtTheEnd
  ExportWhole
  OldFileKept
PROPERTIES
  ImplementsRowStream
  Terminates
