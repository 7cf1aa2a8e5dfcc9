CONSTANTS
  t0 = t0
  t1 = t1
  t2 = t2
  t3 = t3
  txPage = txPage
  sumPage = sumPage
  None = None
  MaxHeight = 2
  Tx <- MCTx
  TxsOf <- OneFullBlock
  Own = {t1, t2, t3}
  Peers <- MCPeers
  Origin <- OriginAll
  Code <- MCCode
  BadEnvelope = {t3}
  BadPayload = {t1}
  TxNumPerBlock = 3
  MaxOpenConns = 2
  LockTimeout = TRUE
  Subs = {sumPage}
  Kind <- SumOnly
  MaxCrashes = 1
  MaxFaults = 2
SPECIFICATION FairSpec
CHECK_DEADLOCK FALSE
INVARIANT TxListConsumed
PROPERTY JobsSettle
PROPERTY RecordedOrMissed
