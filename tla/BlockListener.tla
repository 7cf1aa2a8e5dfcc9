---------------------------- MODULE BlockListener ----------------------------
(***************************************************************************)
(* The block listener of the explorer server (server/block_listener.go)    *)
(* with the two things it meets: the MySQL database it writes and the      *)
(* websocket handlers of main.go it feeds.                                 *)
(*                                                                         *)
(* BlockListener() starts two goroutines, syncBlock (catch up from the     *)
(* highest recorded block) and registerBlockEvent (follow new blocks).     *)
(* Both start one updateBlock goroutine per block and wait for none, so    *)
(* blocks are processed concurrently, in any order, and a block that both  *)
(* see is processed twice.  The process may crash and be restarted; the    *)
(* database then keeps what was committed.                                 *)
(*                                                                         *)
(* A definition marked (mutant) is no part of the specification: it is the *)
(* next definition with a bug the properties have to notice.               *)
(***************************************************************************)
EXTENDS Integers, Sequences, FiniteSets

CONSTANTS
  MaxHeight,      (* bound: blocks are numbered 0 .. MaxHeight-1            *)
  Tx,             (* transaction identifiers                                *)
  TxsOf,          (* the transactions of each block, in order               *)
  Own,            (* the transactions this server submitted (InvokeCC)      *)
  Peers,          (* peer names                                             *)
  Origin,         (* what InvokeCC stores in TxList for each of them        *)
  Code,           (* the validation code the committing peer gave each one  *)
  BadEnvelope,    (* transactions GetEnvelopeFromBlock rejects              *)
  BadPayload,     (* transactions UnmarshalPayload rejects                  *)
  TxNumPerBlock,  (* app.yaml: stride of tx_index between two blocks        *)
  MaxOpenConns,   (* app.yaml: size of the connection pool                  *)
  LockTimeout,    (* can a lock wait reach innodb_lock_wait_timeout?        *)
  Subs, Kind,     (* websocket connections and the page each of them feeds  *)
  None,           (* not a member of Subs                                   *)
  MaxCrashes,     (* bound: crashes of the server process                   *)
  MaxFaults       (* bound: lost connections and failed registrations       *)

Blocks   == 0 .. MaxHeight-1
Jobs     == Blocks \X {"sync", "event"}
PeerType == 0 .. 10          \* 0 normal, n > 0: byzantine among n byzantine peers
PeerTx   == [name : Peers, type : PeerType]
Kinds    == {"tx", "blockNumber", "txNumber", "block"}

Org1        == "peer0.org1.example.com"
DefaultPeer == [name |-> Org1, type |-> 0]

ASSUME ConstantsAssumption ==
  /\ MaxHeight \in Nat \ {0}
  /\ TxsOf \in [Blocks -> Seq(Tx)]
  /\ Own \subseteq Tx
  /\ Org1 \in Peers
  /\ Origin \in [Own -> PeerTx]
  /\ Code \in [Tx -> Nat]
  /\ BadEnvelope \subseteq Tx
  /\ BadPayload \subseteq Tx
  /\ TxNumPerBlock \in Nat
  \* the orderer cuts blocks of at most 10 messages, TxNumPerBlock is 100
  /\ \A b \in Blocks : Len(TxsOf[b]) <= TxNumPerBlock
  /\ MaxOpenConns \in Nat \ {0}
  /\ LockTimeout \in BOOLEAN
  /\ Kind \in [Subs -> Kinds]
  /\ None \notin Subs
  /\ MaxCrashes \in Nat
  /\ MaxFaults \in Nat

VARIABLES
  height,      (* the channel's height on peer0.org1: blocks 0 .. height-1  *)
  submitted,   (* transactions InvokeCC has handed to the network           *)
  txList,      (* keys of TxList, the attributions not consumed yet         *)
  lpc, flag,   (* registerBlockEvent: where it is, its variable flag        *)
  nextEvent,   (*   the next block of the event stream                      *)
  skipped,     (*   the block of the event that flag left out, -1 if none   *)
  spc,         (* syncBlock: where it is                                    *)
  dbHeight,    (*   the height it read from MySQL                           *)
  top,         (*   the height it got from the ledger                       *)
  cur,         (*   the loop variable i                                     *)
  pc,          (* updateBlock goroutines: where each one is                 *)
  idx,         (*   position in the block of the transaction it handles     *)
  attr,        (*   its peerName and peerType variables                     *)
  todo,        (*   subscribers its Range has still to visit                *)
  tgt,         (*   the subscriber it is sending to                         *)
  conn,        (*   is its database connection sound?                       *)
  txDirty,     (*   rows it inserted in transaction and did not commit      *)
  blockDirty,  (*   rows it inserted in block and did not commit            *)
  txTable,     (* committed rows of the table transaction                   *)
  blockTable,  (* committed rows of the table block                         *)
  reg,         (* keys of the four sync.Maps of subscriber channels         *)
  ws,          (* the websocket handlers: where each one is                 *)
  crashes, faults

net     == <<height, submitted>>
bounds  == <<crashes, faults>>
listener == <<lpc, flag, nextEvent, skipped>>
syncer  == <<spc, dbHeight, top, cur>>
outside == <<net, listener, syncer, bounds>>   \* what no updateBlock touches
locals  == <<idx, attr, todo, tgt, conn>>
tables  == <<txTable, blockTable>>
rows    == <<txDirty, blockDirty, tables>>
jobs    == <<pc, locals, txDirty, blockDirty>>
hub     == <<reg, ws>>
vars    == <<outside, txList, jobs, tables, hub>>

-----------------------------------------------------------------------------
(* Rows.  A block's rows are inserted by one MySQL transaction.             *)

Position(b) == 1 .. Len(TxsOf[b])

TxIndexNoStride(b, k) == b + (k - 1)                           \* (mutant)
TxIndex(b, k) == b * TxNumPerBlock + (k - 1)

\* a transaction of 1..3 byzantine peers is shown as invalid whatever the
\* ledger says of it
TxRow(b, k, a) ==
  [index  |-> TxIndex(b, k),
   block  |-> b,
   tx     |-> TxsOf[b][k],
   peer   |-> a.name,
   type   |-> IF a.type > 0 THEN 1 ELSE 0,
   status |-> IF a.type \in 1..3 THEN 1 ELSE Code[TxsOf[b][k]]]

BlockRow(b, a) ==
  [number |-> b, count |-> Len(TxsOf[b]), type |-> IF a.type > 3 THEN 1 ELSE 0]

Recorded(b) == \E r \in blockTable : r.number = b

\* the loop of updateBlock leaves at the first malformed envelope and
\* steps over a malformed payload: the other positions get a row
Kept(b) ==
  {k \in Position(b) : /\ TxsOf[b][k] \notin BadPayload
                       /\ \A l \in 1..k : TxsOf[b][l] \notin BadEnvelope}

-----------------------------------------------------------------------------
Idle(x) == [j \in Jobs |-> x]

Init ==
  /\ height \in 1..MaxHeight
  /\ submitted = {}
  /\ txList = {}
  /\ lpc = "connect" /\ flag = TRUE /\ nextEvent = 0 /\ skipped = -1
  /\ spc = "height" /\ dbHeight = 0 /\ top = 0 /\ cur = 0
  /\ pc = Idle("idle") /\ idx = Idle(1) /\ attr = Idle(DefaultPeer)
  /\ todo = Idle({}) /\ tgt = Idle(None) /\ conn = Idle(TRUE)
  /\ txDirty = Idle({}) /\ blockDirty = Idle({})
  /\ txTable = {} /\ blockTable = {}
  /\ reg = {} /\ ws = [s \in Subs |-> "off"]
  /\ crashes = 0 /\ faults = 0

-----------------------------------------------------------------------------
(* The network: InvokeCC stores the attribution of a transaction before    *)
(* it executes it, and a block holds only transactions that were executed. *)

Ledger(b) == {TxsOf[b][k] : k \in Position(b)}

\* (mutant) the attribution is stored once the transaction is ordered
SubmitAfterOrdering(t) ==
  /\ t \in Own \ submitted
  /\ txList' = txList \cup {t}
  /\ submitted' = submitted \cup {t}
  /\ UNCHANGED <<height, listener, syncer, jobs, tables, hub, bounds>>

Submit(t) ==
  /\ t \in Own \ submitted
  /\ \A b \in 0..height-1 : t \notin Ledger(b)
  /\ txList' = txList \cup {t}
  /\ submitted' = submitted \cup {t}
  /\ UNCHANGED <<height, listener, syncer, jobs, tables, hub, bounds>>

CutBlock ==
  /\ height < MaxHeight
  /\ Ledger(height) \cap Own \subseteq submitted
  /\ height' = height + 1
  /\ UNCHANGED <<submitted, txList, listener, syncer, jobs, tables, hub, bounds>>

-----------------------------------------------------------------------------
(* registerBlockEvent.  The event service connects first (seek: newest,    *)
(* so the stream starts at block height-1) and registers the listener      *)
(* afterwards; an event that arrives in between is dispatched to nobody.   *)

Spawn(b, src) == pc' = [pc EXCEPT ![<<b, src>>] = "spawned"]

Connect ==
  /\ lpc = "connect"
  /\ lpc' = "register"
  /\ nextEvent' = height - 1
  /\ UNCHANGED <<net, txList, flag, skipped, syncer, jobs, tables, hub, bounds>>

EventBeforeRegistration ==
  /\ lpc = "register"
  /\ nextEvent < height
  /\ nextEvent' = nextEvent + 1
  /\ UNCHANGED <<net, txList, lpc, flag, skipped, syncer, jobs, tables, hub, bounds>>

Register ==
  /\ lpc = "register"
  /\ lpc' = "loop"
  /\ UNCHANGED <<net, txList, flag, nextEvent, skipped, syncer, jobs, tables,
                 hub, bounds>>

\* the error is logged and the goroutine then reads a nil channel forever
RegisterFails ==
  /\ lpc \in {"connect", "register"}
  /\ faults < MaxFaults
  /\ faults' = faults + 1
  /\ lpc' = "deaf"
  /\ UNCHANGED <<net, txList, flag, nextEvent, skipped, syncer, jobs, tables,
                 hub, crashes>>

\* the first event is taken for the replay of the newest block
FirstEvent ==
  /\ lpc = "loop" /\ flag
  /\ nextEvent < height
  /\ flag' = FALSE
  /\ skipped' = nextEvent
  /\ nextEvent' = nextEvent + 1
  /\ UNCHANGED <<net, txList, lpc, syncer, jobs, tables, hub, bounds>>

BlockEvent ==
  /\ lpc = "loop" /\ ~flag
  /\ nextEvent < height
  /\ nextEvent' = nextEvent + 1
  /\ Spawn(nextEvent, "event")
  /\ UNCHANGED <<net, txList, lpc, flag, skipped, syncer, locals, rows, hub, bounds>>

Listen == Connect \/ EventBeforeRegistration \/ Register \/ FirstEvent \/ BlockEvent

-----------------------------------------------------------------------------
(* The connection pool.  A query waits for a connection and returns it at  *)
(* once; a database transaction keeps its own until it ends.               *)

\* (mutant) the database transaction ends when updateBlock returns
HoldingUntilReturn ==
  {j \in Jobs : pc[j] \notin {"idle", "spawned", "done"}}

\* (mutant) it does not end when updateBlock returns either
HoldingForGood == {j \in Jobs : pc[j] \notin {"idle", "spawned"}}

Holding == {j \in Jobs : pc[j] \in {"load", "delete", "txCast", "insert",
                                    "block", "commit"}}

FreeConn == Cardinality(Holding) < MaxOpenConns

-----------------------------------------------------------------------------
(* syncBlock.  An error of a query panics; that is a Crash.                *)

\* select max(number) from block: NULL, read as 0, when the table is empty
MaxNumber(m) ==
  /\ m \in {0} \cup {r.number : r \in blockTable}
  /\ \A r \in blockTable : r.number <= m

SyncHeight ==
  /\ spc = "height" /\ FreeConn
  /\ spc' = "info"
  /\ dbHeight' \in Blocks /\ MaxNumber(dbHeight')
  /\ UNCHANGED <<net, txList, listener, top, cur, jobs, tables, hub, bounds>>

SyncInfo ==
  /\ spc = "info"
  /\ top' = height
  /\ cur' = dbHeight
  /\ spc' = IF dbHeight > height - 1 THEN "panic"
            ELSE IF dbHeight < height - 1 THEN "loop" ELSE "done"
  /\ UNCHANGED <<net, txList, listener, dbHeight, jobs, tables, hub, bounds>>

SyncUpTo(last) ==
  /\ spc = "loop"
  /\ Spawn(cur, "sync")
  /\ cur' = cur + 1
  /\ spc' = IF cur < last THEN "loop" ELSE "done"
  /\ UNCHANGED <<net, txList, listener, dbHeight, top, locals, rows, hub, bounds>>

SyncLoopShort == SyncUpTo(top - 2)   \* (mutant) leaves out the newest block
SyncLoop      == SyncUpTo(top - 1)

\* (mutant) asks the ledger first and MySQL second
SyncSwapped ==
  \/ SyncLoop
  \/ /\ spc = "height"
     /\ spc' = "info"
     /\ top' = height
     /\ UNCHANGED <<net, txList, listener, dbHeight, cur, jobs, tables, hub, bounds>>
  \/ /\ spc = "info" /\ FreeConn
     /\ dbHeight' \in Blocks /\ MaxNumber(dbHeight')
     /\ cur' = dbHeight'
     /\ spc' = IF dbHeight' > top - 1 THEN "panic"
               ELSE IF dbHeight' < top - 1 THEN "loop" ELSE "done"
     /\ UNCHANGED <<net, txList, listener, top, jobs, tables, hub, bounds>>

Sync == SyncHeight \/ SyncInfo \/ SyncLoop

-----------------------------------------------------------------------------
(* updateBlock                                                             *)

Goto(j, label) == pc' = [pc EXCEPT ![j] = label]

\* block 0 is left alone; an error of Begin panics, which is a Crash
Begin(j) ==
  /\ pc[j] = "spawned"
  /\ IF j[1] = 0
     THEN Goto(j, "done")
     ELSE FreeConn /\ Goto(j, IF TxsOf[j[1]] = <<>> THEN "block" ELSE "load")
  /\ UNCHANGED <<outside, txList, locals, rows, hub>>

\* the next turn of the loop over the block's transactions
NextTx(j) ==
  /\ idx' = [idx EXCEPT ![j] = @ + 1]
  /\ Goto(j, IF idx[j] < Len(TxsOf[j[1]]) THEN "load" ELSE "block")

\* sync.Map.Range visits the keys the map has when it starts
StartRange(j, kind) == todo' = [todo EXCEPT ![j] = {s \in reg : Kind[s] = kind}]

AttributeAll(j, a) == attr' = Idle(a)       \* (mutant) package variables
Attribute(j, a) == attr' = [attr EXCEPT ![j] = a]

\* peerName and peerType are declared outside the loop: a transaction that
\* is not in TxList keeps the attribution of the one before it
Load(j) ==
  /\ pc[j] = "load"
  /\ LET t == TxsOf[j[1]][idx[j]]
     IN  \/ /\ t \in BadEnvelope
            /\ Goto(j, "block")
            /\ UNCHANGED <<idx, attr, todo>>
         \/ /\ t \in BadPayload \ BadEnvelope
            /\ NextTx(j)
            /\ UNCHANGED <<attr, todo>>
         \/ /\ t \in txList \ (BadEnvelope \cup BadPayload)
            /\ Attribute(j, Origin[t])
            /\ Goto(j, "delete")
            /\ UNCHANGED <<idx, todo>>
         \/ /\ t \notin txList \cup BadEnvelope \cup BadPayload
            /\ StartRange(j, "tx")
            /\ Goto(j, "txCast")
            /\ UNCHANGED <<idx, attr>>
  /\ UNCHANGED <<outside, txList, tgt, conn, rows, hub>>

Delete(j) ==
  /\ pc[j] = "delete"
  /\ txList' = txList \ {TxsOf[j[1]][idx[j]]}
  /\ StartRange(j, "tx")
  /\ Goto(j, "txCast")
  /\ UNCHANGED <<outside, idx, attr, tgt, conn, rows, hub>>

\* Inserting a primary key: a committed one is a duplicate, one that another
\* transaction has inserted is locked until that transaction ends.
TxTaken(i)     == \E r \in txTable : r.index = i
TxLocked(i)    == \E k \in Jobs : \E r \in txDirty[k] : r.index = i
BlockTaken(b)  == \E r \in blockTable : r.number = b
BlockLocked(b) == \E k \in Jobs : \E r \in blockDirty[k] : r.number = b

CanInsert(j, taken, locked)  == conn[j] /\ ~taken /\ ~locked
FailsInsert(j, taken, locked) == ~conn[j] \/ taken \/ (LockTimeout /\ locked)

\* an error of Exec is logged and the loop goes on
InsertTx(j) ==
  /\ pc[j] = "insert"
  /\ LET row == TxRow(j[1], idx[j], attr[j])
     IN  \/ /\ CanInsert(j, TxTaken(row.index), TxLocked(row.index))
            /\ txDirty' = [txDirty EXCEPT ![j] = @ \cup {row}]
         \/ /\ FailsInsert(j, TxTaken(row.index), TxLocked(row.index))
            /\ UNCHANGED txDirty
  /\ NextTx(j)
  /\ UNCHANGED <<outside, txList, attr, todo, tgt, conn, blockDirty, tables, hub>>

\* (mutant) the row is inserted outside of the transaction
InsertBlockAutocommit(j) ==
  /\ pc[j] = "block"
  /\ blockTable' = IF BlockTaken(j[1]) THEN blockTable
                   ELSE blockTable \cup {BlockRow(j[1], attr[j])}
  /\ Goto(j, "commit")
  /\ UNCHANGED <<outside, txList, locals, txDirty, blockDirty, txTable, hub>>

\* (mutant) announces the block and commits at the end
InsertBlockAnnounce(j) ==
  /\ pc[j] = "block"
  /\ \/ /\ CanInsert(j, BlockTaken(j[1]), BlockLocked(j[1]))
        /\ blockDirty' = [blockDirty EXCEPT ![j] = {BlockRow(j[1], attr[j])}]
     \/ /\ FailsInsert(j, BlockTaken(j[1]), BlockLocked(j[1]))
        /\ UNCHANGED blockDirty
  /\ StartRange(j, "blockNumber")
  /\ Goto(j, "blockNumberCast")
  /\ UNCHANGED <<outside, txList, idx, attr, tgt, conn, txDirty, tables, hub>>

InsertBlock(j) ==
  /\ pc[j] = "block"
  /\ \/ /\ CanInsert(j, BlockTaken(j[1]), BlockLocked(j[1]))
        /\ blockDirty' = [blockDirty EXCEPT ![j] = {BlockRow(j[1], attr[j])}]
     \/ /\ FailsInsert(j, BlockTaken(j[1]), BlockLocked(j[1]))
        /\ UNCHANGED blockDirty
  /\ Goto(j, "commit")
  /\ UNCHANGED <<outside, txList, locals, txDirty, tables, hub>>

\* on a lost connection Commit fails too: the error is logged, the rows are
\* gone and the block is announced all the same
Commit(j) ==
  /\ pc[j] = "commit"
  /\ txTable' = txTable \cup txDirty[j]
  /\ blockTable' = blockTable \cup blockDirty[j]
  /\ txDirty' = [txDirty EXCEPT ![j] = {}]
  /\ blockDirty' = [blockDirty EXCEPT ![j] = {}]
  /\ StartRange(j, "blockNumber")
  /\ Goto(j, "blockNumberCast")
  /\ UNCHANGED <<outside, txList, idx, attr, tgt, conn, hub>>

\* MySQL rolls a transaction back when its connection is lost
ConnLost(j) ==
  /\ j \in Holding /\ conn[j]
  /\ faults < MaxFaults
  /\ faults' = faults + 1
  /\ conn' = [conn EXCEPT ![j] = FALSE]
  /\ txDirty' = [txDirty EXCEPT ![j] = {}]
  /\ blockDirty' = [blockDirty EXCEPT ![j] = {}]
  /\ UNCHANGED <<net, txList, listener, syncer, pc, idx, attr, todo, tgt, tables, hub, crashes>>

-----------------------------------------------------------------------------
(* Broadcasts.  Range loads the channel of a key that is still there and   *)
(* then sends on it; the channels have no buffer.                          *)

Casting   == {"txCast", "blockNumberCast", "txNumberCast", "blockCast"}
AfterCast == [c \in Casting |->
                CASE c = "txCast"          -> "insert"
                  [] c = "blockNumberCast" -> "txNumberCast"
                  [] c = "txNumberCast"    -> "blockCast"
                  [] c = "blockCast"       -> "done"]
NextKind  == [c \in {"blockNumberCast", "txNumberCast"} |->
                IF c = "blockNumberCast" THEN "txNumber" ELSE "block"]

\* the value for txNumber is mysql.TxNumber(), a query on a pooled connection
Visit(j) ==
  /\ pc[j] \in Casting /\ tgt[j] = None
  /\ \E s \in todo[j] :
       /\ todo' = [todo EXCEPT ![j] = @ \ {s}]
       /\ \/ /\ s \in reg
             /\ pc[j] = "txNumberCast" => FreeConn
             /\ tgt' = [tgt EXCEPT ![j] = s]
          \/ s \notin reg /\ UNCHANGED tgt
  /\ UNCHANGED <<outside, txList, pc, idx, attr, conn, rows, hub>>

Send(j) ==
  /\ pc[j] \in Casting /\ tgt[j] # None
  /\ ws[tgt[j]] = "ready"
  /\ ws' = [ws EXCEPT ![tgt[j]] = "writing"]
  /\ tgt' = [tgt EXCEPT ![j] = None]
  /\ UNCHANGED <<outside, txList, pc, idx, attr, todo, conn, rows, reg>>

EndRange(j) ==
  /\ pc[j] \in Casting /\ tgt[j] = None /\ todo[j] = {}
  /\ Goto(j, AfterCast[pc[j]])
  /\ IF pc[j] \in DOMAIN NextKind
     THEN StartRange(j, NextKind[pc[j]])
     ELSE UNCHANGED todo
  /\ UNCHANGED <<outside, txList, idx, attr, tgt, conn, rows, hub>>

UpdateBlock(j) ==
  \/ Begin(j) \/ Load(j) \/ Delete(j) \/ InsertTx(j) \/ InsertBlock(j)
  \/ Commit(j) \/ Visit(j) \/ Send(j) \/ EndRange(j)

-----------------------------------------------------------------------------
(* The websocket handlers block, blockNumber, transaction and              *)
(* transactionNumber of main.go: one goroutine per connection.             *)

Subscribe(s) ==
  /\ ws[s] = "off"
  /\ ws' = [ws EXCEPT ![s] = "ready"]
  /\ reg' = reg \cup {s}
  /\ UNCHANGED <<outside, txList, jobs, tables>>

WriteOk(s) ==
  /\ ws[s] = "writing"
  /\ ws' = [ws EXCEPT ![s] = "ready"]
  /\ UNCHANGED <<outside, txList, jobs, tables, reg>>

\* the browser is gone: from here on nobody receives from the channel
WriteError(s) ==
  /\ ws[s] = "writing"
  /\ ws' = [ws EXCEPT ![s] = "failed"]
  /\ UNCHANGED <<outside, txList, jobs, tables, reg>>

Unsubscribe(s) ==
  /\ ws[s] = "failed"
  /\ ws' = [ws EXCEPT ![s] = "gone"]
  /\ reg' = reg \ {s}
  /\ UNCHANGED <<outside, txList, jobs, tables>>

Serve(s) == WriteOk(s) \/ WriteError(s) \/ Unsubscribe(s)

-----------------------------------------------------------------------------
(* The process dies (a panic in any goroutine, a kill) and is started      *)
(* again: goroutines, TxList and connections are gone, MySQL rolls back.   *)
Crash ==
  /\ crashes < MaxCrashes
  /\ crashes' = crashes + 1
  /\ txList' = {}
  /\ lpc' = "connect" /\ flag' = TRUE /\ nextEvent' = 0 /\ skipped' = -1
  /\ spc' = "height" /\ dbHeight' = 0 /\ top' = 0 /\ cur' = 0
  /\ pc' = Idle("idle") /\ idx' = Idle(1) /\ attr' = Idle(DefaultPeer)
  /\ todo' = Idle({}) /\ tgt' = Idle(None) /\ conn' = Idle(TRUE)
  /\ txDirty' = Idle({}) /\ blockDirty' = Idle({})
  /\ reg' = {} /\ ws' = [s \in Subs |-> "off"]
  /\ UNCHANGED <<net, tables, faults>>

Next ==
  \/ \E t \in Own : Submit(t)
  \/ CutBlock
  \/ Listen \/ RegisterFails
  \/ Sync
  \/ \E j \in Jobs : UpdateBlock(j) \/ ConnLost(j)
  \/ \E s \in Subs : Subscribe(s) \/ Serve(s)
  \/ Crash

\* the Go scheduler runs every goroutine that can run; nothing makes the
\* network cut blocks, browsers connect or the process crash
Fairness ==
  /\ WF_vars(Listen)
  /\ WF_vars(Sync)
  /\ \A j \in Jobs : WF_vars(UpdateBlock(j))
  /\ \A s \in Subs : WF_vars(Serve(s))

Spec     == Init /\ [][Next]_vars
FairSpec == Spec /\ Fairness

-----------------------------------------------------------------------------
(* Properties                                                              *)

JobPc == {"idle", "spawned", "load", "delete", "insert", "block", "commit",
          "done"} \cup Casting

TxRows    == [index : Nat, block : Blocks, tx : Tx, peer : Peers,
              type : {0, 1}, status : Nat]
BlockRows == [number : Blocks, count : Nat, type : {0, 1}]

InLoop == {"load", "delete", "txCast", "insert"}

InPosition == \A j \in Jobs : pc[j] \in InLoop => idx[j] \in Position(j[1])

\* Every variable holds a value of its type, and a goroutine in the loop over
\* its block is at one of the block's transactions.
TypeOK ==
  /\ height \in 1..MaxHeight
  /\ submitted \subseteq Own
  /\ txList \subseteq Own
  /\ lpc \in {"connect", "register", "loop", "deaf"}
  /\ flag \in BOOLEAN
  /\ nextEvent \in 0..MaxHeight
  /\ skipped \in -1..MaxHeight-1
  /\ spc \in {"height", "info", "loop", "done", "panic"}
  /\ dbHeight \in Blocks
  /\ top \in 0..MaxHeight
  /\ cur \in Nat
  /\ pc \in [Jobs -> JobPc]
  /\ idx \in [Jobs -> Nat \ {0}]
  /\ InPosition
  /\ attr \in [Jobs -> PeerTx]
  /\ todo \in [Jobs -> SUBSET Subs]
  /\ tgt \in [Jobs -> Subs \cup {None}]
  /\ conn \in [Jobs -> BOOLEAN]
  /\ txDirty \in [Jobs -> SUBSET TxRows]
  /\ blockDirty \in [Jobs -> SUBSET BlockRows]
  /\ txTable \subseteq TxRows
  /\ blockTable \subseteq BlockRows
  /\ reg \subseteq Subs
  /\ ws \in [Subs -> {"off", "ready", "writing", "failed", "gone"}]
  /\ crashes \in 0..MaxCrashes
  /\ faults \in 0..MaxFaults

\* The height syncBlock reads from MySQL is below the ledger's: its check
\* "syncBlock invalid block height" never panics, whatever the event stream
\* commits between the two reads and whatever an earlier life recorded.
NoSyncPanic == spc # "panic"

\* A recorded block has a row for each of its transactions: the transaction
\* of updateBlock is all or nothing, also when a second goroutine processes
\* the same block and when the process crashes.  (A lock wait that times
\* out or a lost connection breaks it: the error is only logged.)
BlockRowsComplete ==
  ~LockTimeout /\ faults = 0 =>
    \A r \in blockTable : \A k \in Kept(r.number) : TxTaken(TxIndex(r.number, k))

\* A transaction's row is never visible without the row of its block.
TxRowsHaveBlock ==
  ~LockTimeout /\ faults = 0 => \A r \in txTable : Recorded(r.block)

Announcing == (Casting \ {"txCast"}) \cup {"done"}

\* A block number is announced only when a reader of the database finds the
\* block, also by the goroutine whose own insert was refused as a duplicate.
AnnouncedRecorded ==
  ~LockTimeout /\ faults = 0 =>
    \A j \in Jobs : pc[j] \in Announcing => j[1] = 0 \/ Recorded(j[1])

\* whom updateBlock may name at position k of block b
Attributions(b, k) ==
  {DefaultPeer} \cup {Origin[t] : t \in {TxsOf[b][l] : l \in 1..k} \cap Own}

FaithfulRow(r) ==
  \E k \in Position(r.block) :
    \E a \in Attributions(r.block, k) : r = TxRow(r.block, k, a)

\* What a row says of a transaction is what the ledger holds at its index,
\* and whom it names is the default peer or the sender of that transaction
\* or of an earlier one of the same block, never one of another block.
RowsFaithful == \A r \in txTable : FaithfulRow(r)

\* The attribution of a transaction is dropped from TxList by the time its
\* block has been processed: TxList does not grow with the ledger.
TxListConsumed ==
  \A j \in Jobs :
    pc[j] \in Announcing =>
      \A k \in Kept(j[1]) : TxsOf[j[1]][k] \notin txList

\* No broadcast starts to send to a connection whose handler has returned: a
\* closed browser can hold up only what had picked its channel before.
NoSendToDeparted ==
  [][\A j \in Jobs : tgt[j] = None /\ tgt'[j] # None => ws[tgt'[j]] # "gone"]_vars

\* The blocks the start-up leaves out: those below the highest recorded one
\* (a crash lost them while a later block was committed), and those cut after
\* syncBlock asked for the height but taken by the listener for the replay of
\* the newest block, or dispatched before it was registered, or all of them when
\* its registration failed.
Missed(b) ==
  /\ spc \in {"loop", "done"}
  /\ \/ b < dbHeight
     \/ top <= b /\ (lpc = "deaf" \/ b < (IF flag THEN nextEvent ELSE skipped + 1))

\* a goroutine that sends on a channel nobody receives from any more
Stranded(j) == tgt[j] # None /\ ws[tgt[j]] = "gone"

\* it waits for the twin that processes the same block, which is stranded with its
\* rows locked
LockedOut(j) ==
  /\ ~LockTimeout /\ pc[j] = "insert"
  /\ \E k \in Jobs : Stranded(k) /\ \E r \in txDirty[k] : r.index = TxIndex(j[1], idx[j])

\* goroutines that will not go on hold every connection of the pool
PoolHeldUp ==
  Cardinality({j \in Holding : Stranded(j) \/ LockedOut(j)}) >= MaxOpenConns

\* it begins its database transaction, or wants to ask mysql.TxNumber()
WaitsForConn(j) ==
  \/ pc[j] = "spawned" /\ j[1] # 0
  \/ pc[j] = "txNumberCast" /\ tgt[j] = None /\ todo[j] \cap reg # {}

HeldUp(j) == Stranded(j) \/ LockedOut(j) \/ (WaitsForConn(j) /\ PoolHeldUp)

Settled(j) == pc[j] \in {"idle", "done"} \/ HeldUp(j)

\* Again and again, so for good once the ledger stops to grow, every updateBlock
\* goroutine has ended, unless a browser that has gone holds it up: it sends to that
\* browser, or what it waits for (a row, a connection of the pool) is kept by
\* goroutines that do.  None waits for ever for goroutines like itself.
JobsSettle == []<>(\A j \in Jobs : Settled(j))

\* the database has dropped what a goroutine had inserted for the block
Lost(b) == \E src \in {"sync", "event"} : ~conn[<<b, src>>]

\* no goroutine gets through with the block, or syncBlock does not even find out
\* that there is one to start
Waiting(b) ==
  \/ \E src \in {"sync", "event"} : HeldUp(<<b, src>>)
  \/ spc = "height" /\ PoolHeldUp

\* Again and again, so for good once the ledger stops to grow and the process to crash,
\* every block of the ledger is recorded, or is one of Missed, or was lost with its
\* connection, or waits behind a browser that has gone: the two goroutines leave no
\* other gap.
RecordedOrMissed ==
  []<>(\A b \in 1..height-1 : Recorded(b) \/ Missed(b) \/ Lost(b) \/ Waiting(b))

-----------------------------------------------------------------------------
(* Refinement: the tables change like the store of BlockStore.             *)
Store == INSTANCE BlockStore WITH
  Content  <- [b \in Blocks |-> {<<TxIndex(b, k), TxsOf[b][k]>> : k \in Kept(b)}],
  recorded <- {r.number : r \in blockTable},
  visible  <- [b \in Blocks |->
                 {<<r.index, r.tx>> : r \in {q \in txTable : q.block = b}}]

\* Readers of the database see blocks appear one by one, whole and for good,
\* whatever goroutines run, whichever of two twins commits and whenever the
\* process crashes, if no lock wait times out and no connection is lost.
StoreSpec == Store!Spec

=============================================================================
