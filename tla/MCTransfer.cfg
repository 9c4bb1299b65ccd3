SPECIFICATION FairSpec
CONSTANTS
  u1 = u1
  u2 = u2
  u3 = u3
  e3 = e3
  e1 = e1
  e2 = e2
  Upload <- Uploads
  Export <- Exports
  Workload <- Mixtures
  Chunks <- ChunksOf
  MaxPieces <- PiecesOf
  Window = 2
  ExportWindow = 2
  PerDevice = 1
  MaxUploads = 1
  MaxExports = 1
INVARIANTS
  TypeOK
  FinalIsWhole
  CreatedIsSaved
  FilesAreOwned
  ExportInOrder
PROPERTIES
  LeftoversGo
CHECK_DEADLOCK FALSE
