\* An optional element with the lowest ID.
SPECIFICATION FairSpec
CONSTANTS
  Registry <- OddRegistry
  Ids <- OddIds
  Sources <- MCSources
  SrcSizes <- MCSrcSizes
  DestSizes <- MCDestSizes
  Cells <- MCCells
  InitialMailboxes <- MCZeroedMailbox
  ReuseDest = FALSE
  SizeLimit = 16777216
  NULL = NULL
INVARIANT FirstElemIsLowest
