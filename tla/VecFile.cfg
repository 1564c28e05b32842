SPECIFICATION Spec
CONSTANTS
  Threads = {1}
  Lengths <- MCLengths
  OldIds <- MCOldIds
  MaxRecords = 4
  MaxPage = 3
  Exact = 4
  BufferSize = 2
  Batch = 2
  VarLimit = 3
  Huge = 30
INVARIANTS
  HeaderDescribesRecords
  CountSurvives
  PagesAreSlices
  SearchSeesAll
PROPERTY ReadersChangeNothing
