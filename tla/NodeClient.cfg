SPECIFICATION Spec
CONSTANTS
  Calls = {1, 2, 3}
  Requests <- MCRequests
  Overlap = 3
  Stored = 2
  MaxCrashes = 1
INVARIANTS
  QuietIndexIsSound
  ClosedFileIsNotUsed
  NothingIsLeftBehind
  NoTransactionStaysOpen
  RefusedOncePerCrash
PROPERTY EveryCallReturns
CHECK_DEADLOCK FALSE
