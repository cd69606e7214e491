SPECIFICATION BDSpec
CONSTANTS
  a = a
  b = b
  c = c
  d = d
  Pending = Pending
  MaxBlockSize = 1
  MaxBatchSize = 1
  DelayBlock = 0
  RpcLag = 0
  InitHead <- MCInitHead
  Starts <- MCStarts
  MaxTxs = 2
  MaxHead = 2
  Tx <- MCTx
  Body <- MCBody
  Events <- MCEvents
  BeginBlock = 1
  batchProcess = 2
  maxRetry = 2
  MaxFaults = 1
INVARIANTS BDTypeOK RecordedIsQueued DuplicatesHaveCause ResumeCovers
PROPERTIES ResumeNeverFallsBack
