SPECIFICATION FairSpec
CONSTANTS
  v1 = v1
  v2 = v2
  m1 = m1
  m2 = m2
  BadVec = BadVec
  NoVec = NoVec
  NoMeta = NoMeta
  NoFile = NoFile
  Vectors = {v1, v2}
  Metas = {m1, m2}
  MaxId = 4
  MaxRecords = 4
  InsertBatches <- MCInsertBatches
  UpdateBatches <- MCUpdateBatches
  IdLists <- MCIdLists
  Filters <- MCFilters
  BufferSize = 2
  BatchSize = 1
  Faults = {}
INVARIANTS
  TypeOK SoundWhenIdle VectorsKeepTheirMetadata
PROPERTIES
  OperationsReturn DeletionCountAgrees
