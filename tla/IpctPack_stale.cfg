\* The second message packed into the same buffer.
SPECIFICATION FairSpec
CONSTANTS
  Registry <- ReuseRegistry
  Ids <- ReuseIds
  Sources <- ReuseSources
  SrcSizes <- ReuseSrcSizes
  DestSizes <- ReuseDestSizes
  Cells <- ReuseCells
  InitialMailboxes <- ReuseMailbox
  ReuseDest = TRUE
  SizeLimit = 16777216
  NULL = NULL
INVARIANT MessageCarriesElems
