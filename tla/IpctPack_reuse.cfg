\* One static buffer packed into again and again, as in example/sw/stream.c.
SPECIFICATION FairSpec
CONSTANTS
  Registry <- ReuseRegistry
  Ids <- ReuseIds
  Sources <- ReuseSources
  SrcSizes <- ReuseSrcSizes
  DestSizes <- ReuseDestSizes
  Cells <- ReuseCells
  InitialMailboxes <- ReuseMailbox
  ReuseDest = TRUE
  SizeLimit = 5
  NULL = NULL
INVARIANTS
  OpenTuple
  TuplesWordAligned
  
  WalkInv
PROPERTY
  CallsReturn
