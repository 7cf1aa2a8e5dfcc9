CONSTANTS
  t0 = t0
  t1 = t1
  t2 = t2
  t3 = t3
  txPage = txPage
  sumPage = sumPage
  None = None
  MaxHeight = 3
  Tx <- MCTx
  TxsOf <- ThreeBlocks
  Own = {}
  Peers <- MCPeers
  Origin <- NoOrigin
  Code <- MCCode
  BadEnvelope = {}
  BadPayload = {}
  TxNumPerBlock = 3
  MaxOpenConns = 2
  LockTimeout = FALSE
  Subs = {txPage}
  Kind <- TxOnly
  MaxCrashes = 1
  MaxFaults = 0
SPECIFICATION FairSpec
CHECK_DEADLOCK FALSE
PROPERTY JobsSettle
PROPERTY RecordedOrMissed
