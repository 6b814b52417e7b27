\* A buffer exactly as long as the message.
SPECIFICATION PairFairSpec
CONSTANTS
  Registry <- Three
  ReceiverRegistry <- Three
  Ids <- OddId
  Sources <- SmallSources
  SrcSizes <- OddSrcSizes
  DestSizes <- ExactSizes
  Cells <- MCCells
  InitialMailboxes <- MCMailboxes
  ReuseDest = FALSE
  SizeLimit <- MCSizeLimit
  Structs <- MCStructs
  StructCells <- MCStructCells
  FloatInRange <- NoFloats
  IPCT_MAX_DEPTH = 10
  NULL = NULL
INVARIANT PacksExactFit
