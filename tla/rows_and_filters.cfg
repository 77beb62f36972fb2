SPECIFICATION Spec
CHECK_DEADLOCK FALSE
CONSTANTS
  RowArgs <- Args
  FirstRows <- First
  LaterRows <- Later
  Adapters <- AllAdapters
  Whitelist <- White
  FlagSets <- SomeFlags
  MaxRows = 5
INVARIANTS
  RowsAndFiltersTypeOK
  RowsMatchColumns
  ItemsKept
  FiltersGrouped
