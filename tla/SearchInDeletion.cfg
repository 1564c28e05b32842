SPECIFICATION Spec
CONSTANTS
  Calls = {1, 2, 3}
  Requests <- DeletionAndSearch
  Stored = 3
  BufferSize = 2
PROPERTIES
  OnlyNamedRecordsGo
CHECK_DEADLOCK FALSE
