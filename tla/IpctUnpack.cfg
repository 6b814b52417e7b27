\* Messages of up to three tuples, well formed or not.
SPECIFICATION FairSpec
CONSTANTS
  Registry <- MCRegistry
  Messages <- MCMessages
  Cells <- MCCells
  SrcSizes <- MCSrcSizes
  Structs <- MCStructs
  StructCells <- MCStructCells
  DestSizes <- MCDestSizes
  FloatInRange <- NoFloats
  IPCT_MAX_DEPTH = 1
  NULL = NULL
INVARIANTS
  TypeOK
  CursorsInMessage
  NestingDescends
  CursorInv
  StructHoldsMessage
  MembersValid
  KnownItemsStored
PROPERTY
  UnpackReturns
