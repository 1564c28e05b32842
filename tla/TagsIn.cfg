SPECIFICATION Spec
CONSTANTS
  Json <- MCJson
  Nesting = 3
  Filters <- MCFilters
  Tables <- MCTables
  Grain = 3
INVARIANT InReachesIntoArrays
CHECK_DEADLOCK FALSE
