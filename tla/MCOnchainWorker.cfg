SPECIFICATION FairSpec
CONSTANTS
  Pending = Pending
  MaxBlockSize = 3
  MaxBatchSize = 2
  DelayBlock = 0
  RpcLag = 0
  InitHead <- MCInitHead
  Starts <- MCStarts
  MaxTxs = 0
  MaxHead = 5
INVARIANTS TypeOK PipelineWindow ProcessedWithoutGap
PROPERTIES ProcessedInOrder ImplementsOrderedBlocks EveryBlockProcessed
