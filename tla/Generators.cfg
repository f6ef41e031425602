SPECIFICATION Spec
CONSTANTS
  FileSizes = {6, 12}
  ReqSizes = {2, 4, 5, 8}
  BlockSizes = {1, 2, 4, 8}
  Bases <- Draws
  OffsetRange = 32
INVARIANTS
  GenTypeOK
  InFile
  SectorAligned
PROPERTIES
  LapCoversFile
