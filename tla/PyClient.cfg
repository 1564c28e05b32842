SPECIFICATION Spec
CONSTANTS
  Calls = {1, 2, 3}
  Requests <- AllRequests
  Stored = 3
  BufferSize = 2
INVARIANTS
  QuietIndexIsSound ClosedFileIsNotUsed NothingIsLeftBehind
  RecordsStayUnique
PROPERTIES
  LoneDeletionsTakeNoMore EveryCallReturns
CHECK_DEADLOCK FALSE
