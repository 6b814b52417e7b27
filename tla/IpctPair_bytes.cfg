\* A one-byte member that is negative, with another byte behind it.
SPECIFICATION PairFairSpec
CONSTANTS
  Registry <- SignedByte
  ReceiverRegistry <- SignedByte
  Ids <- OddId
  Sources <- ByteSources
  SrcSizes <- OddSrcSizes
  DestSizes <- AmpleSizes
  Cells <- MCCells
  InitialMailboxes <- MCMailboxes
  ReuseDest = FALSE
  SizeLimit <- MCSizeLimit
  Structs <- MCStructs
  StructCells <- MCStructCells
  FloatInRange <- NoFloats
  IPCT_MAX_DEPTH = 10
  NULL = NULL
INVARIANT InRangeArrives
