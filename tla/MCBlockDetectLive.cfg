SPECIFICATION BDFairSpec
CONSTANTS
  a = a
  b = b
  c = c
  d = d
  Pending = Pending
  MaxBlockSize = 1
  MaxBatchSize = 1
  DelayBlock = 0
  RpcLag = 0
  InitHead <- MCInitHead
  Starts <- MCStarts
  MaxTxs = 1
  MaxHead = 2
  Tx <- MCTxThin
  Body <- MCBodyThin
  Events <- MCEvents
  BeginBlock = 1
  batchProcess = 1
  maxRetry = 2
  MaxFaults = 1
PROPERTIES EveryBlockRecorded
