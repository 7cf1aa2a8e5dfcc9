CONSTANTS
  t0 = t0
  t1 = t1
  t2 = t2
  t3 = t3
  txPage = txPage
  sumPage = sumPage
  None = None
  MaxHeight = 3
  Tx <- MCTx
  TxsOf <- ThreeBlocks
  Own = {t1, t3}
  Peers <- MCPeers
  Origin <- MCOrigin
  Code <- MCCode
  BadEnvelope = {}
  BadPayload = {}
  TxNumPerBlock = 3
  MaxOpenConns = 10
  LockTimeout = FALSE
  Subs = {}
  Kind <- NoSubs
  MaxCrashes = 1
  MaxFaults = 0
SPECIFICATION Spec
CHECK_DEADLOCK FALSE
INVARIANT NoSyncPanic
INVARIANT AnnouncedRecorded
INVARIANT RowsFaithful
INVARIANT BlockRowsComplete
PROPERTY StoreSpec
