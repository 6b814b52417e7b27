\* Compatible tables: what a sender packs its receiver unpacks.
SPECIFICATION PairFairSpec
CONSTANTS
  Registry <- MCRegistry
  ReceiverRegistry <- MCReceiverRegistry
  Ids <- MCIds
  Sources <- MCSources
  SrcSizes <- MCSrcSizes
  DestSizes <- MCSizes
  Cells <- MCCells
  InitialMailboxes <- MCMailboxes
  ReuseDest = FALSE
  SizeLimit <- MCSizeLimit
  Structs <- MCStructs
  StructCells <- MCStructCells
  FloatInRange <- NoFloats
  IPCT_MAX_DEPTH = 10
  NULL = NULL
INVARIANTS
  PairTypeOK
  WalksWhatWasPacked
  PacksWhatFits
PROPERTIES
  Transfers
  TransferEnds
