SPECIFICATION Spec
CONSTANTS
  Threads = {1, 2}
  Lengths <- OneLength
  OldIds <- MCOldIds
  MaxRecords = 3
  MaxPage = 1
  Exact = 4
  BufferSize = 2
  Batch = 2
  VarLimit = 3
  Huge = 30
PROPERTY ReadersChangeNothing
