-------------------------- MODULE BlockListenerInv --------------------------
(***************************************************************************)
(* The inductive invariant of BlockListener.                               *)
(***************************************************************************)
EXTENDS BlockListener

InTx == InLoop \cup {"block", "commit"}

\* syncBlock and registerBlockEvent start at most one goroutine per block
SpawnInv ==
  /\ \A b \in Blocks : pc[<<b, "sync">>] # "idle" =>
       /\ spc \in {"loop", "done"}
       /\ spc = "loop" => b < cur
  /\ \A b \in Blocks : pc[<<b, "event">>] # "idle" =>
       lpc = "loop" /\ b < nextEvent
  /\ nextEvent <= height

\* a goroutine starts at the first transaction, with the default attribution
StartInv ==
  \A j \in Jobs :
    pc[j] \in {"idle", "spawned"} => idx[j] = 1 /\ attr[j] = DefaultPeer

\* everything processed, recorded or about to be is on the ledger
LedgerInv ==
  /\ \A j \in Jobs : pc[j] # "idle" => j[1] < height
  /\ \A r \in blockTable : r.number < height
  /\ spc = "info" => dbHeight < height
  /\ spc = "loop" => cur < top /\ top <= height

\* what a goroutine has inserted and not committed
DirtyInv ==
  \A j \in Jobs :
    /\ \A r \in txDirty[j] : r.block = j[1] /\ pc[j] \in InTx /\ FaithfulRow(r)
    /\ \A r \in blockDirty[j] : r.number = j[1] /\ pc[j] = "commit"

\* whom a goroutine names
AttrInv ==
  \A j \in Jobs :
    /\ pc[j] = "load" => attr[j] \in Attributions(j[1], idx[j] - 1)
    /\ pc[j] \in InLoop \ {"load"} => attr[j] \in Attributions(j[1], idx[j])

Covered(j, k) ==
  \E r \in txTable \cup txDirty[j] : r.index = TxIndex(j[1], k)

\* what a goroutine that waits for its locks has seen to so far
CoverInv ==
  ~LockTimeout /\ faults = 0 =>
    \A j \in Jobs :
      /\ conn[j]
      /\ pc[j] \in InLoop => \A k \in Kept(j[1]) : k < idx[j] => Covered(j, k)
      /\ pc[j] \in {"block", "commit"} => \A k \in Kept(j[1]) : Covered(j, k)
      /\ pc[j] = "commit" => Recorded(j[1]) \/ \E r \in blockDirty[j] : r.number = j[1]

\* which attributions of its block a goroutine has dropped from TxList so far,
\* or has found that nobody stored
Dropped(j, k) == TxsOf[j[1]][k] \notin txList

ConsumeInv ==
  /\ Ledger(0) \cap txList = {}
  /\ \A j \in Jobs :
       /\ pc[j] \in InLoop => \A k \in Kept(j[1]) : k < idx[j] => Dropped(j, k)
       /\ pc[j] \in {"txCast", "insert"} => Dropped(j, idx[j])
       /\ pc[j] \in {"block", "commit"} => \A k \in Kept(j[1]) : Dropped(j, k)

\* a row of a transaction that updateBlock does not step over
KeptRow(r) ==
  \E k \in Kept(r.block) : r.index = TxIndex(r.block, k) /\ r.tx = TxsOf[r.block][k]

\* which transactions of which blocks get this far
KeptInv ==
  /\ \A j \in Jobs :
       /\ pc[j] \in InTx => j[1] # 0
       /\ pc[j] \in InLoop => \A l \in 1..idx[j]-1 : TxsOf[j[1]][l] \notin BadEnvelope
       /\ pc[j] \in InLoop \ {"load"} => idx[j] \in Kept(j[1])
       /\ \A r \in txDirty[j] : KeptRow(r)
  /\ \A r \in txTable : KeptRow(r)

\* The inductive invariant: with it, what the goroutines of a block do to the
\* database is known at every point of updateBlock.
IInv ==
  /\ TypeOK /\ SpawnInv /\ StartInv /\ LedgerInv /\ DirtyInv /\ AttrInv /\ CoverInv
  /\ NoSyncPanic /\ RowsFaithful /\ ConsumeInv /\ TxListConsumed /\ KeptInv
  /\ BlockRowsComplete /\ TxRowsHaveBlock /\ AnnouncedRecorded
=============================================================================
