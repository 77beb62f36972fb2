SPECIFICATION Spec
CONSTANTS
  a1 = a1
  a2 = a2
  a3 = a3
  a4 = a4
  Assets <- FourAssets
  MaxPageSize = 3
  Calls <- TableCalls
  Populations <- UpToThree
  RepeatsCursor = FALSE
  MaxPending = 0
  MaxChanges = 1
  MaxMalformed = 0
INVARIANTS
  TableShowsMaxRows
