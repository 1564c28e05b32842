SPECIFICATION Spec
CONSTANTS
  v1 = v1
  v2 = v2
  m1 = m1
  m2 = m2
  BadVec = BadVec
  NoVec = NoVec
  NoMeta = NoMeta
  NoFile = NoFile
  Vectors = {v1, v2}
  Metas = {m1, m2}
  MaxId = 3
  MaxRecords = 3
  InsertBatches <- FewInsertBatches
  UpdateBatches <- FewUpdateBatches
  IdLists <- FewIdLists
  Filters <- MCFilters
  BufferSize = 2
  BatchSize = 1
  Faults = {"step", "commit", "crash"}
INVARIANTS
  HeaderWithinFile
PROPERTIES
  RowsGoOnlyWhenDeleted NoIdReuse
