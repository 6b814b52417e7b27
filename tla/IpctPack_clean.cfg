\* Every table over four IDs, packed into a cleared buffer.
SPECIFICATION FairSpec
CONSTANTS
  Registry <- MCRegistry
  Ids <- MCIds
  Sources <- MCSources
  SrcSizes <- MCSrcSizes
  DestSizes <- MCDestSizes
  Cells <- MCCells
  InitialMailboxes <- MCZeroedMailbox
  ReuseDest = FALSE
  SizeLimit = 16777216
  NULL = NULL
INVARIANTS
  TypeOK
  TuplesWordAligned
  PacksEveryElemOnce
  MessageCarriesElems
  TuplesChain
  ArraysAreRuns
  SuccessStaysInBuffer
  OnlyWholeStructs
PROPERTY
  CallsReturn
