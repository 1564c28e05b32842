SPECIFICATION Spec
CONSTANTS
  Json <- MCJson
  Nesting = 3
  Filters <- MCFilters
  Tables <- MCTables
  Grain = 3
INVARIANTS
  SelectsWhatIsDescribed
  CutShortByUnreadableRow
  UnsayableSelectsNothing
CHECK_DEADLOCK FALSE
