SPECIFICATION Spec
CONSTANTS
  MaxLen = 6
  MaxSim = 4
  Files <- MCFiles
  IdSets <- MCIdSets
  TopKs = {1, 2, 4}
INVARIANTS
  RootIsLeast KeepsBest ResultsAreBest
CHECK_DEADLOCK FALSE
