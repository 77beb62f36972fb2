SPECIFICATION PagingSpec
CONSTANTS
  r1 = r1
  r2 = r2
  r3 = r3
  r4 = r4
  r5 = r5
  Rows <- FiveRows
  Arguments <- AllArguments
  Populations <- UpToFour
  MaxChanges = 2
INVARIANTS
  PagingTypeOK
  OffsetFollowsCaller
  PagingFaultsExplained
PROPERTIES
  FollowsRowStream
  PagingEnds
