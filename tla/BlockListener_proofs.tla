------------------------ MODULE BlockListener_proofs ------------------------
(***************************************************************************)
(* Proofs about BlockListener for every chain, every number of blocks,     *)
(* browsers, connections, crashes and faults.                              *)
(***************************************************************************)
EXTENDS BlockListenerInv, TLAPS

-----------------------------------------------------------------------------
(* Typing                                                                  *)

\* A row updateBlock builds for a position of a block is a row of the table.
LEMMA TxRowType ==
  ASSUME NEW b \in Blocks, NEW k \in Position(b), NEW a \in PeerTx
  PROVE  TxRow(b, k, a) \in TxRows
<1>1. TxsOf[b] \in Seq(Tx) /\ k \in 1..Len(TxsOf[b])
  BY ConstantsAssumption DEF Position
<1>2. TxsOf[b][k] \in Tx
  BY <1>1
<1>3. TxIndex(b, k) \in Nat
  <2>1. b \in Nat /\ TxNumPerBlock \in Nat /\ k - 1 \in Nat
    BY <1>1, ConstantsAssumption DEF Blocks
  <2>2. b * TxNumPerBlock \in Nat
    BY <2>1
  <2>3. QED
    BY <2>1, <2>2 DEF TxIndex
<1>4. a.name \in Peers /\ Code[TxsOf[b][k]] \in Nat
  BY <1>2, ConstantsAssumption DEF PeerTx
<1>5. QED
  BY <1>2, <1>3, <1>4 DEF TxRow, TxRows

\* A row updateBlock builds for a block is a row of the table.
LEMMA BlockRowType ==
  ASSUME NEW b \in Blocks, NEW a \in PeerTx
  PROVE  BlockRow(b, a) \in BlockRows
<1>1. Len(TxsOf[b]) \in Nat
  BY ConstantsAssumption
<1>2. QED
  BY <1>1 DEF BlockRow, BlockRows

\* The initial state is of the right type.
LEMMA InitType == Init => TypeOK
BY ConstantsAssumption DEF Init, TypeOK, InPosition, Idle, InLoop, JobPc,
   PeerTx, PeerType, DefaultPeer, Blocks

\* A goroutine that moves to a place of updateBlock where it is in the loop
\* must be at a transaction of its block.
LEMMA MoveType ==
  ASSUME TypeOK, NEW j \in Jobs, NEW l \in JobPc,
         pc' = [pc EXCEPT ![j] = l],
         \A i \in Jobs : i # j => idx'[i] = idx[i],
         l \in InLoop => idx'[j] \in Position(j[1])
  PROVE  pc' \in [Jobs -> JobPc] /\ InPosition'
BY DEF TypeOK, InPosition

\* The next turn of the loop, or its end.
LEMMA NextTxType ==
  ASSUME TypeOK, NEW j \in Jobs, pc[j] \in InLoop, NextTx(j)
  PROVE  /\ idx' \in [Jobs -> Nat \ {0}]
         /\ pc' \in [Jobs -> JobPc]
         /\ InPosition'
<1> DEFINE n == Len(TxsOf[j[1]])
           l == IF idx[j] < n THEN "load" ELSE "block"
<1>1. n \in Nat /\ idx[j] \in 1..n
  BY ConstantsAssumption DEF TypeOK, InPosition, Position, Jobs
<1>2. idx' = [idx EXCEPT ![j] = @ + 1] /\ idx' \in [Jobs -> Nat \ {0}]
  BY <1>1 DEF NextTx, TypeOK
<1>3. idx'[j] = idx[j] + 1 /\ \A i \in Jobs : i # j => idx'[i] = idx[i]
  BY <1>2 DEF TypeOK
<1>4. l \in JobPc /\ pc' = [pc EXCEPT ![j] = l]
  BY DEF NextTx, Goto, JobPc
<1>5. l \in InLoop => idx'[j] \in Position(j[1])
  BY <1>1, <1>3 DEF Position, InLoop
<1> HIDE DEF l
<1>6. QED
  BY <1>2, <1>3, <1>4, <1>5, MoveType

\* Every step of a goroutine, of the network, of a browser and every crash
\* keeps the variables in their types.
LEMMA TypeStep == TypeOK /\ StartInv /\ LedgerInv /\ [Next]_vars => TypeOK'
<1> SUFFICES ASSUME TypeOK, StartInv, LedgerInv, [Next]_vars
             PROVE  TypeOK'
  OBVIOUS
<1> USE DEF TypeOK, outside, net, listener, syncer, bounds, locals, tables,
            rows, jobs, hub
<1>0. UNCHANGED <<pc, idx>> => InPosition'
  BY DEF InPosition
<1>1. ASSUME NEW t \in Own, Submit(t)
      PROVE  TypeOK'
  BY <1>0, <1>1 DEF Submit
<1>2. CASE CutBlock
  BY <1>0, <1>2, ConstantsAssumption DEF CutBlock
<1>3. CASE Listen
  <2> USE ConstantsAssumption
  <2>1. CASE Connect
    BY <1>0, <2>1 DEF Connect
  <2>2. CASE EventBeforeRegistration
    BY <1>0, <2>2 DEF EventBeforeRegistration
  <2>3. CASE Register
    BY <1>0, <2>3 DEF Register
  <2>4. CASE FirstEvent
    <3>1. nextEvent' \in 0..MaxHeight /\ skipped' \in -1..MaxHeight-1
      BY <2>4 DEF FirstEvent
    <3>2. flag' \in BOOLEAN
      BY <2>4 DEF FirstEvent
    <3>3. QED
      BY <1>0, <2>4, <3>1, <3>2 DEF FirstEvent
  <2>5. CASE BlockEvent
    <3>1. <<nextEvent, "event">> \in Jobs
      BY <2>5 DEF BlockEvent, Jobs, Blocks
    <3>2. pc' \in [Jobs -> JobPc] /\ InPosition'
      BY <2>5, <3>1, MoveType DEF BlockEvent, Spawn, JobPc, InLoop
    <3>3. QED
      BY <2>5, <3>2 DEF BlockEvent
  <2>6. QED
    BY <1>3, <2>1, <2>2, <2>3, <2>4, <2>5 DEF Listen
<1>4. CASE RegisterFails
  BY <1>0, <1>4, ConstantsAssumption DEF RegisterFails
<1>5. CASE Sync
  <2>1. CASE SyncHeight
    BY <1>0, <2>1, ConstantsAssumption DEF SyncHeight
  <2>2. CASE SyncInfo
    BY <1>0, <2>2, ConstantsAssumption DEF SyncInfo, Blocks
  <2>3. CASE SyncLoop
    <3>1. <<cur, "sync">> \in Jobs
      BY <2>3, ConstantsAssumption DEF SyncLoop, SyncUpTo, LedgerInv, Jobs, Blocks
    <3>2. pc' \in [Jobs -> JobPc] /\ InPosition'
      BY <2>3, <3>1, MoveType DEF SyncLoop, SyncUpTo, Spawn, JobPc, InLoop
    <3>3. QED
      BY <2>3, <3>2 DEF SyncLoop, SyncUpTo
  <2>4. QED
    BY <1>5, <2>1, <2>2, <2>3 DEF Sync
<1>6. ASSUME NEW j \in Jobs, UpdateBlock(j)
      PROVE  TypeOK'
  <2> USE DEF Goto
  <2>1. j[1] \in Blocks /\ TxsOf[j[1]] \in Seq(Tx)
    BY ConstantsAssumption DEF Jobs
  <2>2. CASE Begin(j)
    <3>1. idx[j] = 1 /\ (TxsOf[j[1]] # <<>> => 1 \in Position(j[1]))
      BY <2>1, <2>2 DEF Begin, StartInv, Position
    <3>2. pc' \in [Jobs -> JobPc] /\ InPosition'
      BY <2>2, <3>1, MoveType DEF Begin, JobPc, InLoop
    <3>3. QED
      BY <2>2, <3>2 DEF Begin
  <2>3. CASE Load(j)
    <3> DEFINE t == TxsOf[j[1]][idx[j]]
    <3>1. pc[j] \in InLoop /\ idx[j] \in Position(j[1])
      BY <2>3 DEF Load, InLoop, InPosition
    <3>2. CASE t \in BadEnvelope
      <4>1. pc' = [pc EXCEPT ![j] = "block"] /\ idx' = idx
        BY <2>3, <3>2 DEF Load
      <4>2. pc' \in [Jobs -> JobPc] /\ InPosition'
        BY <4>1, MoveType DEF JobPc, InLoop
      <4>3. QED
        BY <2>3, <3>2, <4>2 DEF Load
    <3>3. CASE t \in BadPayload \ BadEnvelope
      <4>1. NextTx(j) /\ UNCHANGED <<attr, todo>>
        BY <2>3, <3>3 DEF Load
      <4>2. QED
        BY <2>3, <3>1, <4>1, NextTxType DEF Load
    <3>4. CASE t \notin BadEnvelope \cup BadPayload
      <4>1. \E l \in {"delete", "txCast"} : pc' = [pc EXCEPT ![j] = l]
        BY <2>3, <3>4 DEF Load
      <4>2. idx' = idx
        BY <2>3, <3>4 DEF Load
      <4>3. pc' \in [Jobs -> JobPc] /\ InPosition'
        BY <3>1, <4>1, <4>2, MoveType DEF JobPc, Casting
      <4>4. attr' \in [Jobs -> PeerTx]
        BY <2>3, <3>4, ConstantsAssumption DEF Load, Attribute
      <4>5. todo' \in [Jobs -> SUBSET Subs]
        BY <2>3, <3>4 DEF Load, StartRange
      <4>6. QED
        BY <2>3, <4>2, <4>3, <4>4, <4>5 DEF Load
    <3>5. QED
      BY <3>2, <3>3, <3>4
  <2>4. CASE Delete(j)
    <3>1. pc' \in [Jobs -> JobPc] /\ InPosition'
      BY <2>4, MoveType DEF Delete, JobPc, Casting, InLoop, InPosition
    <3>2. QED
      BY <2>4, <3>1 DEF Delete, StartRange
  <2>5. CASE InsertTx(j)
    <3>1. TxRow(j[1], idx[j], attr[j]) \in TxRows
      BY <2>1, <2>5, TxRowType DEF InsertTx, InPosition, InLoop
    <3>2. txDirty' \in [Jobs -> SUBSET TxRows]
      BY <2>5, <3>1 DEF InsertTx
    <3>3. QED
      BY <2>5, <3>2, NextTxType DEF InsertTx, InLoop
  <2>6. CASE InsertBlock(j)
    <3>1. pc' \in [Jobs -> JobPc] /\ InPosition'
      BY <2>6, MoveType DEF InsertBlock, JobPc, InLoop
    <3>2. BlockRow(j[1], attr[j]) \in BlockRows
      BY <2>1, BlockRowType
    <3>3. QED
      BY <2>6, <3>1, <3>2 DEF InsertBlock
  <2>7. CASE Commit(j)
    <3>1. pc' \in [Jobs -> JobPc] /\ InPosition'
      BY <2>7, MoveType DEF Commit, JobPc, Casting, InLoop
    <3>2. QED
      BY <2>7, <3>1 DEF Commit, StartRange
  <2>8. CASE Visit(j)
    BY <1>0, <2>8 DEF Visit
  <2>9. CASE Send(j)
    BY <1>0, <2>9 DEF Send
  <2>10. CASE EndRange(j)
    <3>1. /\ AfterCast[pc[j]] \in JobPc
          /\ AfterCast[pc[j]] \in InLoop => pc[j] \in InLoop
      BY <2>10 DEF EndRange, AfterCast, Casting, JobPc, InLoop
    <3>2. pc' \in [Jobs -> JobPc] /\ InPosition'
      BY <2>10, <3>1, MoveType DEF EndRange, InPosition
    <3>3. QED
      BY <2>10, <3>2 DEF EndRange, StartRange
  <2>11. QED
    BY <1>6, <2>2, <2>3, <2>4, <2>5, <2>6, <2>7, <2>8, <2>9, <2>10
       DEF UpdateBlock
<1>7. ASSUME NEW j \in Jobs, ConnLost(j)
      PROVE  TypeOK'
  BY <1>0, <1>7, ConstantsAssumption DEF ConnLost
<1>8. ASSUME NEW s \in Subs, Subscribe(s) \/ Serve(s)
      PROVE  TypeOK'
  BY <1>0, <1>8 DEF Subscribe, Serve, WriteOk, WriteError, Unsubscribe
<1>9. CASE Crash
  BY <1>9, ConstantsAssumption
     DEF Crash, InPosition, InLoop, Idle, JobPc, PeerTx, PeerType,
         DefaultPeer, Blocks
<1>10. CASE UNCHANGED vars
  BY <1>0, <1>10 DEF vars
<1>11. QED
  BY <1>1, <1>2, <1>3, <1>4, <1>5, <1>6, <1>7, <1>8, <1>9, <1>10 DEF Next

-----------------------------------------------------------------------------
(* What a step does to the updateBlock goroutines: it is a step of one of  *)
(* them, it takes its connection, it ends the process, or it happens       *)
(* elsewhere and at most starts one.                                       *)

Elsewhere ==
  \/ \E t \in Own : Submit(t)
  \/ CutBlock \/ Listen \/ RegisterFails \/ Sync
  \/ \E s \in Subs : Subscribe(s) \/ Serve(s)
  \/ UNCHANGED vars

\* Every step is of one of the four sorts.
LEMMA Sorts ==
  ASSUME [Next]_vars
  PROVE  \/ Elsewhere \/ Crash
         \/ \E j \in Jobs : UpdateBlock(j) \/ ConnLost(j)
BY DEF Next, Elsewhere

\* A step elsewhere leaves the goroutines alone, but for one it starts, of a
\* block of the ledger that this half of the listener had not started.
LEMMA ElsewhereMoves ==
  ASSUME TypeOK, SpawnInv, LedgerInv, Elsewhere
  PROVE  /\ UNCHANGED <<idx, attr, conn, txDirty, blockDirty, tables>>
         /\ faults' \in Nat /\ faults' >= faults
         /\ height' \in Nat /\ height' >= height
         /\ \/ pc' = pc
            \/ \E j \in Jobs : /\ pc[j] = "idle" /\ j[1] < height
                              /\ pc' = [pc EXCEPT ![j] = "spawned"]
<1> USE DEF outside, net, listener, syncer, bounds, locals, tables, rows,
            jobs, hub
<1>0. /\ faults \in Nat /\ height \in Nat
      /\ UNCHANGED faults => faults' \in Nat /\ faults' >= faults
      /\ UNCHANGED height => height' \in Nat /\ height' >= height
  BY ConstantsAssumption DEF TypeOK
<1>1. CASE \E t \in Own : Submit(t)
  BY <1>0, <1>1 DEF Submit
<1>2. CASE CutBlock
  BY <1>0, <1>2 DEF CutBlock
<1>3. CASE Listen /\ ~BlockEvent
  BY <1>0, <1>3 DEF Listen, Connect, EventBeforeRegistration, Register,
     FirstEvent
<1>4. CASE BlockEvent
  <2>1. nextEvent \in Blocks /\ nextEvent < height
    BY <1>4, ConstantsAssumption DEF BlockEvent, TypeOK, Blocks
  <2>2. pc[<<nextEvent, "event">>] = "idle"
    BY <2>1 DEF SpawnInv, TypeOK
  <2>3. <<nextEvent, "event">> \in Jobs
    BY <2>1 DEF Jobs
  <2>4. QED
    BY <1>0, <1>4, <2>1, <2>2, <2>3 DEF BlockEvent, Spawn
<1>5. CASE RegisterFails
  BY <1>0, <1>5 DEF RegisterFails
<1>6. CASE SyncHeight \/ SyncInfo
  BY <1>0, <1>6 DEF SyncHeight, SyncInfo
<1>7. CASE SyncLoop
  <2>1. cur \in Blocks /\ cur < height
    BY <1>7, ConstantsAssumption
       DEF SyncLoop, SyncUpTo, LedgerInv, TypeOK, Blocks
  <2>2. pc[<<cur, "sync">>] = "idle"
    BY <1>7, <2>1 DEF SyncLoop, SyncUpTo, SpawnInv, TypeOK
  <2>3. <<cur, "sync">> \in Jobs
    BY <2>1 DEF Jobs
  <2>4. QED
    BY <1>0, <1>7, <2>1, <2>2, <2>3 DEF SyncLoop, SyncUpTo, Spawn
<1>8. CASE \E s \in Subs : Subscribe(s) \/ Serve(s)
  BY <1>0, <1>8 DEF Subscribe, Serve, WriteOk, WriteError, Unsubscribe
<1>9. CASE UNCHANGED vars
  BY <1>0, <1>9 DEF vars
<1>10. QED
  BY <1>1, <1>2, <1>3, <1>4, <1>5, <1>6, <1>7, <1>8, <1>9 DEF Elsewhere, Sync

\* A goroutine moves itself, from a place where it had been started, and what
\* it commits is added to the tables.
LEMMA JobMoves ==
  ASSUME TypeOK, NEW j \in Jobs, UpdateBlock(j)
  PROVE  /\ UNCHANGED <<outside, conn>>
         /\ pc[j] # "idle"
         /\ \E l \in JobPc \ {"idle", "spawned"} : pc' = [pc EXCEPT ![j] = l]
         /\ txTable \subseteq txTable' /\ blockTable \subseteq blockTable'
<1> USE DEF TypeOK, locals, rows, tables, Goto
<1>1. CASE Begin(j)
  BY <1>1 DEF Begin, JobPc
<1>2. CASE Load(j)
  <2>1. \E l \in {"load", "block", "delete", "txCast"} : pc' = [pc EXCEPT ![j] = l]
    BY <1>2 DEF Load, NextTx
  <2>2. QED
    BY <1>2, <2>1 DEF Load, NextTx, JobPc, Casting
<1>3. CASE Delete(j)
  BY <1>3 DEF Delete, JobPc, Casting
<1>4. CASE InsertTx(j)
  BY <1>4 DEF InsertTx, NextTx, JobPc
<1>5. CASE InsertBlock(j)
  BY <1>5 DEF InsertBlock, JobPc
<1>6. CASE Commit(j)
  BY <1>6 DEF Commit, JobPc, Casting
<1>7. CASE Visit(j) \/ Send(j)
  <2>1. pc' = [pc EXCEPT ![j] = pc[j]] /\ pc[j] \in Casting
    BY <1>7 DEF Visit, Send
  <2>2. QED
    BY <1>7, <2>1 DEF Visit, Send, JobPc, Casting
<1>8. CASE EndRange(j)
  <2>1. pc[j] \in Casting /\ AfterCast[pc[j]] \in JobPc \ {"idle", "spawned"}
    BY <1>8 DEF EndRange, Casting, AfterCast, JobPc
  <2>2. QED
    BY <1>8, <2>1 DEF EndRange, Casting
<1>9. QED
  BY <1>1, <1>2, <1>3, <1>4, <1>5, <1>6, <1>7, <1>8 DEF UpdateBlock

\* A goroutine does not touch the variables of another.
LEMMA JobLocal ==
  ASSUME TypeOK, NEW j \in Jobs, UpdateBlock(j), NEW i \in Jobs, i # j
  PROVE  /\ pc'[i] = pc[i] /\ idx'[i] = idx[i] /\ attr'[i] = attr[i]
         /\ txDirty'[i] = txDirty[i] /\ blockDirty'[i] = blockDirty[i]
BY DEF TypeOK, UpdateBlock, Begin, Load, Delete, InsertTx, InsertBlock, Commit,
       Visit, Send, EndRange, Goto, NextTx, Attribute, locals, rows, tables

\* The ledger and the tables only grow, and the tables grow by commits.
LEMMA Grow ==
  ASSUME TypeOK, SpawnInv, LedgerInv, [Next]_vars
  PROVE  /\ height' \in Nat /\ height' >= height
         /\ faults' = 0 => faults = 0
         /\ txTable \subseteq txTable' /\ blockTable \subseteq blockTable'
         /\ UNCHANGED tables \/ \E j \in Jobs : Commit(j)
<1>0. height \in Nat /\ height >= height /\ faults \in Nat
  BY ConstantsAssumption DEF TypeOK
<1>1. CASE Elsewhere
  BY <1>0, <1>1, ElsewhereMoves DEF tables
<1>2. ASSUME NEW j \in Jobs, UpdateBlock(j)
      PROVE  /\ UNCHANGED <<height, faults>>
             /\ txTable \subseteq txTable' /\ blockTable \subseteq blockTable'
             /\ UNCHANGED tables \/ Commit(j)
  <2>1. /\ UNCHANGED <<height, faults>>
        /\ txTable \subseteq txTable' /\ blockTable \subseteq blockTable'
    BY <1>2, JobMoves DEF outside, net, bounds
  <2>2. UNCHANGED tables \/ Commit(j)
    BY <1>2 DEF UpdateBlock, Begin, Load, Delete, InsertTx, InsertBlock, Visit,
       Send, EndRange, rows
  <2>3. QED
    BY <2>1, <2>2
<1>3. ASSUME NEW j \in Jobs, ConnLost(j)
      PROVE  UNCHANGED <<height, tables>> /\ faults' = faults + 1
  BY <1>3 DEF ConnLost, net
<1>4. CASE Crash
  BY <1>0, <1>4 DEF Crash, net, tables
<1>5. CASE \E j \in Jobs : UpdateBlock(j)
  BY <1>0, <1>2, <1>5
<1>6. CASE \E j \in Jobs : ConnLost(j)
  BY <1>0, <1>3, <1>6 DEF tables
<1>7. QED
  BY <1>1, <1>4, <1>5, <1>6, Sorts

\* syncBlock moves by its own steps, or the process ends.
LEMMA SyncerMoves ==
  ASSUME [Next]_vars
  PROVE  UNCHANGED syncer \/ Crash \/ SyncHeight \/ SyncInfo \/ SyncLoop
BY DEF Next, Submit, CutBlock, Listen, Connect, EventBeforeRegistration,
       Register, FirstEvent, BlockEvent, RegisterFails, Sync, UpdateBlock, Begin,
       Load, Delete, InsertTx, InsertBlock, Commit, Visit, Send, EndRange,
       ConnLost, Subscribe, Serve, WriteOk, WriteError, Unsubscribe, outside, vars

-----------------------------------------------------------------------------
(* The parts of the inductive invariant, one by one.                       *)

\* Each half of the listener starts a block once: a step keeps SpawnInv.
LEMMA SpawnStep ==
  ASSUME TypeOK, SpawnInv, LedgerInv, [Next]_vars
  PROVE  SpawnInv'
<1> USE DEF SpawnInv, outside, net, listener, syncer, bounds, locals, tables,
            rows, jobs, hub
<1>0. (\A b \in Blocks : <<b, "sync">> \in Jobs /\ <<b, "event">> \in Jobs)
  BY DEF Jobs
<1>1. CASE \/ \E t \in Own : Submit(t)
           \/ \E s \in Subs : Subscribe(s) \/ Serve(s)
           \/ UNCHANGED vars
  BY <1>1 DEF Submit, Subscribe, Serve, WriteOk, WriteError, Unsubscribe, vars
<1>2. CASE CutBlock
  BY <1>2 DEF CutBlock, TypeOK
<1>3. CASE (Listen /\ ~BlockEvent) \/ RegisterFails
  <2>1. CASE lpc # "loop"
    <3>1. nextEvent' \in Int /\ nextEvent' <= height' /\ UNCHANGED <<pc, spc, cur>>
      BY <1>3, <2>1 DEF Listen, Connect, EventBeforeRegistration, Register,
         FirstEvent, RegisterFails, TypeOK
    <3>2. \A b \in Blocks : pc[<<b, "event">>] = "idle"
      BY <2>1
    <3>3. QED
      BY <3>1, <3>2
  <2>2. CASE lpc = "loop"
    BY <1>3, <2>2 DEF Listen, Connect, EventBeforeRegistration, Register,
       FirstEvent, RegisterFails, TypeOK, Blocks
  <2>3. QED
    BY <2>1, <2>2
<1>4. CASE BlockEvent
  <2>1. /\ lpc = "loop" /\ UNCHANGED <<lpc, spc, cur, height>>
        /\ nextEvent < height /\ nextEvent' = nextEvent + 1
        /\ pc' = [pc EXCEPT ![<<nextEvent, "event">>] = "spawned"]
    BY <1>4 DEF BlockEvent, Spawn
  <2>2. QED
    BY <1>0, <2>1, ConstantsAssumption DEF TypeOK, Blocks
<1>5. CASE SyncHeight \/ SyncInfo
  BY <1>5 DEF SyncHeight, SyncInfo
<1>6. CASE SyncLoop
  <2>1. /\ spc = "loop" /\ UNCHANGED <<lpc, nextEvent, height>>
        /\ cur' = cur + 1 /\ spc' \in {"loop", "done"}
        /\ pc' = [pc EXCEPT ![<<cur, "sync">>] = "spawned"]
    BY <1>6 DEF SyncLoop, SyncUpTo, Spawn
  <2>2. QED
    BY <1>0, <2>1, ConstantsAssumption DEF TypeOK, Blocks
<1>7. ASSUME NEW j \in Jobs, UpdateBlock(j)
      PROVE  SpawnInv'
  <2>1. PICK l \in JobPc : pc[j] # "idle" /\ pc' = [pc EXCEPT ![j] = l]
    BY <1>7, JobMoves
  <2>2. UNCHANGED outside
    BY <1>7, JobMoves
  <2>3. \A i \in Jobs : pc'[i] # "idle" => pc[i] # "idle"
    BY <2>1 DEF TypeOK
  <2>4. QED
    BY <1>0, <2>2, <2>3
<1>8. ASSUME NEW j \in Jobs, ConnLost(j)
      PROVE  SpawnInv'
  BY <1>8 DEF ConnLost
<1>9. CASE Crash
  <2>1. pc' = Idle("idle") /\ nextEvent' = 0 /\ height' = height
    BY <1>9 DEF Crash
  <2>2. \A b \in Blocks : pc'[<<b, "sync">>] = "idle" /\ pc'[<<b, "event">>] = "idle"
    BY <1>0, <2>1 DEF Idle
  <2>3. nextEvent' <= height'
    BY <2>1, ConstantsAssumption DEF TypeOK
  <2>4. QED
    BY <2>2, <2>3
<1>10. QED
  BY <1>1, <1>2, <1>3, <1>4, <1>5, <1>6, <1>7, <1>8, <1>9 DEF Next, Sync

\* A step keeps StartInv: no goroutine is started over another one's state.
LEMMA StartStep ==
  ASSUME TypeOK, SpawnInv, StartInv, LedgerInv, [Next]_vars
  PROVE  StartInv'
<1> USE DEF StartInv
<1>1. CASE Elsewhere
  BY <1>1, ElsewhereMoves DEF TypeOK
<1>2. ASSUME NEW j \in Jobs, UpdateBlock(j)
      PROVE  StartInv'
  <2>1. pc'[j] \notin {"idle", "spawned"}
    BY <1>2, JobMoves DEF TypeOK
  <2>2. QED
    BY <1>2, <2>1, JobLocal
<1>3. ASSUME NEW j \in Jobs, ConnLost(j)
      PROVE  StartInv'
  BY <1>3 DEF ConnLost
<1>4. CASE Crash
  BY <1>4 DEF Crash, Idle
<1>5. QED
  BY <1>1, <1>2, <1>3, <1>4, Sorts

\* A step keeps LedgerInv: what is processed or recorded is on the ledger.
LEMMA LedgerStep ==
  ASSUME TypeOK, SpawnInv, LedgerInv, DirtyInv, [Next]_vars
  PROVE  LedgerInv'
<1> DEFINE JobsOn  == \A j \in Jobs : pc[j] # "idle" => j[1] < height
           RowsOn  == \A r \in blockTable : r.number < height
           SyncOn  == /\ spc = "info" => dbHeight < height
                      /\ spc = "loop" => cur < top /\ top <= height
<1>0. /\ JobsOn /\ RowsOn /\ SyncOn
      /\ height \in Nat /\ \A j \in Jobs : j[1] \in Nat
      /\ \A r \in blockTable : r.number \in Nat
  BY ConstantsAssumption DEF LedgerInv, TypeOK, Jobs, Blocks, BlockRows
<1>1. JobsOn'
  <2>1. CASE Elsewhere
    BY <1>0, <2>1, ElsewhereMoves DEF TypeOK
  <2>2. ASSUME NEW j \in Jobs, UpdateBlock(j)
        PROVE  JobsOn'
    <3>1. height' = height /\ \A i \in Jobs : pc'[i] # "idle" => pc[i] # "idle"
      BY <2>2, JobMoves DEF TypeOK, outside, net
    <3>2. QED
      BY <1>0, <3>1
  <2>3. ASSUME NEW j \in Jobs, ConnLost(j)
        PROVE  JobsOn'
    BY <1>0, <2>3 DEF ConnLost, net
  <2>4. CASE Crash
    BY <1>0, <2>4 DEF Crash, Idle
  <2>5. QED
    BY <2>1, <2>2, <2>3, <2>4, Sorts

<1>2. RowsOn'
  <2>1. CASE UNCHANGED tables
    BY <1>0, <2>1, Grow DEF tables
  <2>2. ASSUME NEW j \in Jobs, Commit(j)
        PROVE  RowsOn'
    <3>1. j[1] < height /\ \A r \in blockDirty[j] : r.number = j[1]
      BY <1>0, <2>2 DEF Commit, DirtyInv
    <3>2. blockTable' = blockTable \cup blockDirty[j] /\ height' = height
      BY <2>2 DEF Commit, outside, net
    <3>3. QED
      BY <1>0, <3>1, <3>2
  <2>3. QED
    BY <2>1, <2>2, Grow
<1>3. SyncOn'
  <2>1. CASE SyncHeight
    BY <1>0, <2>1, ConstantsAssumption
       DEF SyncHeight, MaxNumber, net, TypeOK
  <2>2. CASE SyncInfo
    BY <1>0, <2>2 DEF SyncInfo, net, TypeOK, Blocks
  <2>3. CASE SyncLoop
    BY <1>0, <2>3 DEF SyncLoop, SyncUpTo, net, TypeOK
  <2>4. CASE UNCHANGED syncer
    BY <1>0, <2>4, Grow DEF syncer, TypeOK, Blocks
  <2>5. CASE Crash
    BY <2>5 DEF Crash
  <2>6. QED
    BY <2>1, <2>2, <2>3, <2>4, <2>5, SyncerMoves
<1>4. QED
  BY <1>1, <1>2, <1>3 DEF LedgerInv

\* The check of syncBlock: a step never takes it to its panic.
LEMMA PanicStep ==
  ASSUME TypeOK, LedgerInv, NoSyncPanic, [Next]_vars
  PROVE  NoSyncPanic'
<1>1. CASE SyncInfo
  BY <1>1, ConstantsAssumption DEF SyncInfo, LedgerInv, TypeOK, NoSyncPanic, Blocks
<1>2. CASE SyncHeight \/ SyncLoop \/ Crash
  BY <1>2 DEF SyncHeight, SyncLoop, SyncUpTo, Crash, NoSyncPanic
<1>3. CASE UNCHANGED syncer
  BY <1>3 DEF syncer, NoSyncPanic
<1>4. QED
  BY <1>1, <1>2, <1>3, SyncerMoves

-----------------------------------------------------------------------------
(* Rows and whom they name.                                                *)

\* Later positions of a block may name whoever earlier ones may.
LEMMA AttributionsGrow ==
  ASSUME NEW b \in Blocks, NEW k \in Int, NEW l \in Int, k <= l
  PROVE  Attributions(b, k) \subseteq Attributions(b, l)
<1>1. 1..k \subseteq 1..l
  OBVIOUS
<1>2. QED
  BY <1>1 DEF Attributions

\* A step keeps DirtyInv: a goroutine inserts rows of its own block, and
\* holds them until it commits.
LEMMA DirtyStep ==
  ASSUME TypeOK, SpawnInv, LedgerInv, DirtyInv, AttrInv, [Next]_vars
  PROVE  DirtyInv'
<1> DEFINE D(i) == /\ \A r \in txDirty[i] :
                        r.block = i[1] /\ pc[i] \in InTx /\ FaithfulRow(r)
                   /\ \A r \in blockDirty[i] : r.number = i[1] /\ pc[i] = "commit"
<1>0. \A i \in Jobs : D(i)
  BY DEF DirtyInv
<1>1. CASE Elsewhere
  <2>1. UNCHANGED <<txDirty, blockDirty>>
    BY <1>1, ElsewhereMoves
  <2>2. \A i \in Jobs : pc[i] # "idle" => pc'[i] = pc[i]
    BY <1>1, ElsewhereMoves DEF TypeOK
  <2>3. QED
    BY <2>1, <2>2 DEF DirtyInv, InTx, InLoop
<1>2. ASSUME NEW j \in Jobs, UpdateBlock(j)
      PROVE  DirtyInv'
  <2> SUFFICES D(j)'
    BY <1>0, <1>2, JobLocal DEF DirtyInv
  <2> USE DEF Goto, rows, TypeOK
  <2>1. CASE Begin(j) \/ Load(j) \/ Delete(j) \/ Visit(j) \/ Send(j) \/ EndRange(j)
    <3>1. UNCHANGED <<txDirty, blockDirty>>
      BY <2>1 DEF Begin, Load, Delete, Visit, Send, EndRange
    <3>2. pc[j] # "commit" /\ (pc[j] \in InTx => pc'[j] \in InTx)
      BY <2>1 DEF Begin, Load, Delete, Visit, Send, EndRange, NextTx, AfterCast,
         Casting, InTx, InLoop
    <3>3. QED
      BY <1>0, <3>1, <3>2
  <2>2. CASE InsertTx(j)
    <3> DEFINE row == TxRow(j[1], idx[j], attr[j])
    <3>1. txDirty'[j] \subseteq txDirty[j] \cup {row} /\ blockDirty' = blockDirty
      BY <2>2 DEF InsertTx
    <3>2. pc[j] = "insert" /\ pc'[j] \in InTx
      BY <2>2 DEF InsertTx, NextTx, InTx, InLoop
    <3>3. row.block = j[1] /\ FaithfulRow(row)
      <4>1. idx[j] \in Position(j[1]) /\ attr[j] \in Attributions(j[1], idx[j])
        BY <3>2 DEF InPosition, InLoop, AttrInv
      <4>2. row.block = j[1]
        BY DEF TxRow
      <4>3. QED
        BY <4>1, <4>2 DEF FaithfulRow
    <3> HIDE DEF row
    <3>4. QED
      BY <1>0, <3>1, <3>2, <3>3
  <2>3. CASE InsertBlock(j)
    <3>1. blockDirty'[j] \subseteq blockDirty[j] \cup {BlockRow(j[1], attr[j])}
      BY <2>3 DEF InsertBlock
    <3>2. txDirty' = txDirty /\ pc[j] = "block" /\ pc'[j] = "commit"
      BY <2>3 DEF InsertBlock
    <3>3. BlockRow(j[1], attr[j]).number = j[1]
      BY DEF BlockRow
    <3>4. QED
      BY <1>0, <3>1, <3>2, <3>3 DEF InTx
  <2>4. CASE Commit(j)
    BY <2>4 DEF Commit
  <2>5. QED
    BY <1>2, <2>1, <2>2, <2>3, <2>4 DEF UpdateBlock
<1>3. ASSUME NEW j \in Jobs, ConnLost(j)
      PROVE  DirtyInv'
  BY <1>0, <1>3 DEF ConnLost, DirtyInv, TypeOK
<1>4. CASE Crash
  BY <1>4 DEF Crash, Idle, DirtyInv
<1>5. QED
  BY <1>1, <1>2, <1>3, <1>4, Sorts

\* A step keeps AttrInv: a goroutine carries the attribution of a transaction
\* it has met in its block, or the default one.
LEMMA AttrStep ==
  ASSUME TypeOK, SpawnInv, StartInv, LedgerInv, AttrInv, [Next]_vars
  PROVE  AttrInv'
<1> DEFINE A(i) == /\ pc[i] = "load" => attr[i] \in Attributions(i[1], idx[i] - 1)
                   /\ pc[i] \in InLoop \ {"load"} =>
                        attr[i] \in Attributions(i[1], idx[i])
<1>0. \A i \in Jobs : A(i)
  BY DEF AttrInv
<1>1. CASE Elsewhere
  <2>1. UNCHANGED <<idx, attr>>
    BY <1>1, ElsewhereMoves
  <2>2. \A i \in Jobs : pc'[i] = pc[i] \/ pc'[i] = "spawned"
    BY <1>1, ElsewhereMoves DEF TypeOK
  <2>3. QED
    BY <1>0, <2>1, <2>2 DEF AttrInv, InLoop
<1>2. ASSUME NEW j \in Jobs, UpdateBlock(j)
      PROVE  AttrInv'
  <2> SUFFICES A(j)'
    BY <1>0, <1>2, JobLocal DEF AttrInv
  <2> USE DEF Goto, locals, TypeOK
  <2> DEFINE b == j[1]
             i == idx[j]
  <2>0. b \in Blocks /\ i \in Int /\ i - 1 \in Int /\ i - 1 <= i /\ i + 1 - 1 = i
    BY DEF Jobs
  <2>a. Attributions(b, i - 1) \subseteq Attributions(b, i)
    BY <2>0, AttributionsGrow
  <2>1. CASE Begin(j)
    <3>1. attr'[j] = DefaultPeer /\ pc'[j] \notin InLoop \ {"load"}
      BY <2>1 DEF Begin, StartInv, InLoop
    <3>2. QED
      BY <3>1 DEF Attributions
  <2>2. CASE Load(j)
    <3> DEFINE t == TxsOf[b][i]
    <3>1. pc[j] = "load" /\ attr[j] \in Attributions(b, i - 1)
      BY <1>0, <2>2 DEF Load
    <3>2. CASE t \in BadEnvelope
      BY <2>2, <3>2 DEF Load, InLoop
    <3>3. CASE t \in BadPayload \ BadEnvelope
      <4>1. idx'[j] = i + 1 /\ attr' = attr /\ pc'[j] \in {"load", "block"}
        BY <2>2, <3>3 DEF Load, NextTx
      <4>2. QED
        BY <2>0, <2>a, <3>1, <4>1 DEF InLoop
    <3>4. CASE t \notin BadEnvelope \cup BadPayload
      <4>1. idx' = idx /\ pc'[j] # "load"
        BY <2>2, <3>4 DEF Load
      <4>2. CASE t \in txList
        <5>1. attr'[j] = Origin[t] /\ t \in Own
          BY <2>2, <3>4, <4>2 DEF Load, Attribute
        <5>2. i \in 1..i
          BY <3>1 DEF InPosition, InLoop, Position
        <5>3. QED
          BY <4>1, <5>1, <5>2 DEF Attributions
      <4>3. CASE t \notin txList
        <5>1. attr' = attr
          BY <2>2, <3>4, <4>3 DEF Load
        <5>2. QED
          BY <2>a, <3>1, <4>1, <5>1
      <4>4. QED
        BY <4>2, <4>3
    <3>5. QED
      BY <3>2, <3>3, <3>4
  <2>3. CASE Delete(j) \/ EndRange(j) \/ Visit(j) \/ Send(j)
    <3>1. UNCHANGED <<idx, attr>>
      BY <2>3 DEF Delete, EndRange, Visit, Send
    <3>2. pc[j] # "load" /\ pc'[j] # "load" /\ (pc'[j] \in InLoop => pc[j] \in InLoop)
      BY <2>3 DEF Delete, EndRange, Visit, Send, AfterCast, Casting, InLoop
    <3>3. QED
      BY <1>0, <3>1, <3>2
  <2>4. CASE InsertTx(j)
    <3>1. pc[j] = "insert" /\ attr' = attr
      BY <2>4 DEF InsertTx
    <3>2. idx'[j] = i + 1 /\ pc'[j] \in {"load", "block"}
      BY <2>4 DEF InsertTx, NextTx
    <3>3. attr[j] \in Attributions(b, i)
      BY <1>0, <3>1 DEF InLoop
    <3>4. QED
      BY <2>0, <3>1, <3>2, <3>3 DEF InLoop
  <2>5. CASE InsertBlock(j) \/ Commit(j)
    BY <2>5 DEF InsertBlock, Commit, InLoop
  <2>6. QED
    BY <1>2, <2>1, <2>2, <2>3, <2>4, <2>5 DEF UpdateBlock
<1>3. ASSUME NEW j \in Jobs, ConnLost(j)
      PROVE  AttrInv'
  BY <1>0, <1>3 DEF ConnLost, AttrInv
<1>4. CASE Crash
  BY <1>4 DEF Crash, Idle, AttrInv, InLoop
<1>5. QED
  BY <1>1, <1>2, <1>3, <1>4, Sorts

\* A step keeps RowsFaithful: what a commit makes visible is faithful.
LEMMA RowsStep ==
  ASSUME TypeOK, SpawnInv, LedgerInv, DirtyInv, RowsFaithful, [Next]_vars
  PROVE  RowsFaithful'
<1>1. CASE UNCHANGED tables
  BY <1>1 DEF tables, RowsFaithful
<1>2. ASSUME NEW j \in Jobs, Commit(j)
      PROVE  RowsFaithful'
  BY <1>2 DEF Commit, DirtyInv, RowsFaithful
<1>3. QED
  BY <1>1, <1>2, Grow

-----------------------------------------------------------------------------
(* A block's rows appear together.                                         *)

Sees(i) ==
  /\ conn[i]
  /\ pc[i] \in InLoop => \A k \in Kept(i[1]) : k < idx[i] => Covered(i, k)
  /\ pc[i] \in {"block", "commit"} => \A k \in Kept(i[1]) : Covered(i, k)
  /\ pc[i] = "commit" => Recorded(i[1]) \/ \E r \in blockDirty[i] : r.number = i[1]

\* The end of a turn of the loop, once its transaction is seen to.
LEMMA NextTxSees ==
  ASSUME TypeOK, NEW j \in Jobs, pc[j] \in InLoop, NextTx(j), conn'[j],
         \A k \in Kept(j[1]) : k <= idx[j] => Covered(j, k)'
  PROVE  Sees(j)'
<1>1. idx[j] \in Nat /\ idx'[j] = idx[j] + 1
  BY DEF NextTx, TypeOK
<1>2. Len(TxsOf[j[1]]) \in Nat /\ Kept(j[1]) \subseteq 1..Len(TxsOf[j[1]])
  BY ConstantsAssumption DEF Kept, Position, Jobs
<1>3. \/ pc'[j] = "load"
      \/ pc'[j] = "block" /\ idx[j] >= Len(TxsOf[j[1]])
  BY <1>1, <1>2 DEF NextTx, Goto, TypeOK
<1>4. \A k \in Kept(j[1]) : k < idx'[j] => Covered(j, k)'
  BY <1>1, <1>2
<1>5. pc'[j] = "block" => \A k \in Kept(j[1]) : Covered(j, k)'
  BY <1>1, <1>2, <1>3
<1>6. QED
  BY <1>3, <1>4, <1>5 DEF Sees

\* A step keeps CoverInv: as long as a goroutine waits for its locks and its
\* connection holds, it inserts each row it has to or finds it inserted.
LEMMA CoverStep ==
  ASSUME TypeOK, SpawnInv, StartInv, LedgerInv, CoverInv, [Next]_vars
  PROVE  CoverInv'
<1> SUFFICES ASSUME ~LockTimeout, faults' = 0, NEW i \in Jobs
             PROVE  Sees(i)'
  BY DEF CoverInv, Sees
<1>0. Sees(i) /\ faults = 0
  BY Grow DEF CoverInv, Sees
<1>a. \A k : txDirty[i] \subseteq txDirty'[i] /\ Covered(i, k) => Covered(i, k)'
  BY Grow DEF Covered
<1>b. Recorded(i[1]) => Recorded(i[1])'
  BY Grow DEF Recorded
<1>1. CASE Elsewhere
  <2>1. UNCHANGED <<idx, conn, txDirty, blockDirty>>
    BY <1>1, ElsewhereMoves
  <2>2. pc'[i] = pc[i] \/ pc'[i] = "spawned"
    BY <1>1, ElsewhereMoves DEF TypeOK
  <2>3. QED
    BY <1>0, <1>a, <1>b, <2>1, <2>2 DEF Sees, InLoop
<1>2. ASSUME NEW j \in Jobs, UpdateBlock(j), i # j
      PROVE  Sees(i)'
  <2>1. /\ pc'[i] = pc[i] /\ idx'[i] = idx[i] /\ txDirty'[i] = txDirty[i]
        /\ blockDirty'[i] = blockDirty[i] /\ conn' = conn
    BY <1>2, JobLocal, JobMoves
  <2>2. QED
    BY <1>0, <1>a, <1>b, <2>1 DEF Sees
<1>3. CASE UpdateBlock(i)
  <2> USE DEF Goto, locals, rows
  <2> DEFINE b == i[1]
  <2>0. conn' = conn /\ conn[i]
    BY <1>0, <1>3, JobMoves DEF Sees
  <2>a. idx[i] \in Nat /\ Kept(b) \subseteq Nat
    BY ConstantsAssumption DEF TypeOK, Kept, Position, Jobs
  <2>1. CASE Begin(i)
    <3>1. idx'[i] = 1 /\ pc'[i] \in {"load", "block", "done"}
      BY <2>1 DEF Begin, StartInv, TypeOK
    <3>2. pc'[i] = "block" => Kept(b) = {}
      BY <2>1, ConstantsAssumption DEF Begin, Kept, Position, TypeOK
    <3>3. \A k \in Kept(b) : ~(k < 1)
      BY DEF Kept, Position
    <3>4. QED
      BY <2>0, <3>1, <3>2, <3>3 DEF Sees, InLoop
  <2>2. CASE Load(i)
    <3> DEFINE t == TxsOf[b][idx[i]]
    <3>1. /\ pc[i] = "load" /\ txDirty' = txDirty
          /\ \A k \in Kept(b) : k < idx[i] => Covered(i, k)'
      BY <1>0, <1>a, <2>2 DEF Load, Sees, InLoop
    <3>2. idx[i] \in Position(b)
      BY <3>1 DEF TypeOK, InPosition, InLoop
    <3>3. CASE t \in BadEnvelope
      <4>1. \A k \in Kept(b) : k < idx[i]
        BY <2>a, <3>2, <3>3 DEF Kept, Position
      <4>2. pc'[i] = "block"
        BY <2>2, <3>3 DEF Load, TypeOK
      <4>3. QED
        BY <2>0, <3>1, <4>1, <4>2 DEF Sees, InLoop
    <3>4. CASE t \in BadPayload \ BadEnvelope
      <4>1. NextTx(i)
        BY <2>2, <3>4 DEF Load
      <4>2. idx[i] \notin Kept(b)
        BY <3>4 DEF Kept
      <4>3. \A k \in Kept(b) : k <= idx[i] => Covered(i, k)'
        BY <2>a, <3>1, <4>2
      <4>4. QED
        BY <2>0, <3>1, <4>1, <4>3, NextTxSees DEF InLoop
    <3>5. CASE t \notin BadEnvelope \cup BadPayload
      BY <2>0, <2>2, <3>1, <3>5 DEF Load, Sees, TypeOK
    <3>6. QED
      BY <3>3, <3>4, <3>5
  <2>3. CASE Delete(i) \/ EndRange(i) \/ Visit(i) \/ Send(i)
    <3>1. UNCHANGED <<idx, txDirty, blockDirty>>
      BY <2>3 DEF Delete, EndRange, Visit, Send
    <3>2. /\ pc'[i] \in InLoop => pc[i] \in InLoop
          /\ pc'[i] \notin {"block", "commit"}
      BY <2>3 DEF Delete, EndRange, Visit, Send, AfterCast, Casting, InLoop, TypeOK
    <3>3. QED
      BY <1>0, <1>a, <2>0, <3>1, <3>2 DEF Sees
  <2>4. CASE InsertTx(i)
    <3> DEFINE row == TxRow(b, idx[i], attr[i])
    <3>1. pc[i] \in InLoop /\ NextTx(i) /\ txTable' = txTable
      BY <2>4 DEF InsertTx, InLoop, tables
    <3>2. row.index = TxIndex(b, idx[i])
      BY DEF TxRow
    <3>3. /\ txDirty[i] \subseteq txDirty'[i]
          /\ row \in txDirty'[i] \/ TxTaken(row.index)
      BY <2>0, <2>4 DEF InsertTx, FailsInsert, TypeOK
    <3> HIDE DEF row
    <3>4. \A k : k = idx[i] => Covered(i, k)'
      BY <3>1, <3>2, <3>3 DEF Covered, TxTaken
    <3>5. \A k \in Kept(b) : k <= idx[i] => Covered(i, k)'
      BY <1>0, <1>a, <2>a, <3>1, <3>3, <3>4 DEF Sees
    <3>6. QED
      BY <2>0, <3>1, <3>5, NextTxSees
  <2>5. CASE InsertBlock(i)
    <3>1. pc[i] = "block" /\ pc'[i] = "commit" /\ txDirty' = txDirty
      BY <2>5 DEF InsertBlock, TypeOK
    <3>2. \A k \in Kept(b) : Covered(i, k)'
      BY <1>0, <1>a, <3>1 DEF Sees
    <3>3. BlockRow(b, attr[i]).number = b
      BY DEF BlockRow
    <3>4. Recorded(b) \/ \E r \in blockDirty'[i] : r.number = b
      BY <2>0, <2>5, <3>3 DEF InsertBlock, FailsInsert, BlockTaken, Recorded, TypeOK
    <3>5. QED
      BY <1>b, <2>0, <3>1, <3>2, <3>4 DEF Sees, InLoop
  <2>6. CASE Commit(i)
    BY <2>0, <2>6 DEF Commit, Sees, InLoop, TypeOK
  <2>7. QED
    BY <1>3, <2>1, <2>2, <2>3, <2>4, <2>5, <2>6 DEF UpdateBlock
<1>4. ASSUME NEW j \in Jobs, ConnLost(j)
      PROVE  FALSE
  BY <1>0, <1>4 DEF ConnLost
<1>5. CASE Crash
  BY <1>5 DEF Crash, Idle, Sees, InLoop
<1>6. QED
  BY <1>1, <1>2, <1>3, <1>4, <1>5, Sorts

\* A step keeps BlockRowsComplete: the commit of a block brings what is
\* missing of its transactions.
LEMMA CompleteStep ==
  ASSUME TypeOK, SpawnInv, LedgerInv, DirtyInv, CoverInv, BlockRowsComplete,
         [Next]_vars
  PROVE  BlockRowsComplete'
<1> SUFFICES ASSUME ~LockTimeout, faults' = 0, NEW r \in blockTable',
                    NEW k \in Kept(r.number)
             PROVE  TxTaken(TxIndex(r.number, k))'
  BY DEF BlockRowsComplete
<1>0. faults = 0 /\ txTable \subseteq txTable'
  BY Grow
<1>1. CASE r \in blockTable
  BY <1>0, <1>1 DEF BlockRowsComplete, TxTaken
<1>2. ASSUME NEW j \in Jobs, Commit(j), r \in blockDirty[j]
      PROVE  TxTaken(TxIndex(r.number, k))'
  <2>1. r.number = j[1] /\ pc[j] = "commit"
    BY <1>2 DEF DirtyInv
  <2>2. Covered(j, k)
    BY <1>0, <2>1 DEF CoverInv
  <2>3. QED
    BY <1>2, <2>1, <2>2 DEF Commit, Covered, TxTaken
<1>3. QED
  BY <1>1, <1>2, Grow DEF Commit, tables

\* A step keeps TxRowsHaveBlock: the commit of a transaction's row brings the
\* row of its block, or finds it.
LEMMA HaveBlockStep ==
  ASSUME TypeOK, SpawnInv, LedgerInv, DirtyInv, CoverInv, TxRowsHaveBlock,
         [Next]_vars
  PROVE  TxRowsHaveBlock'
<1> SUFFICES ASSUME ~LockTimeout, faults' = 0, NEW r \in txTable'
             PROVE  Recorded(r.block)'
  BY DEF TxRowsHaveBlock
<1>0. faults = 0 /\ blockTable \subseteq blockTable'
  BY Grow
<1>1. CASE r \in txTable
  BY <1>0, <1>1 DEF TxRowsHaveBlock, Recorded
<1>2. ASSUME NEW j \in Jobs, Commit(j), r \in txDirty[j]
      PROVE  Recorded(r.block)'
  <2>1. r.block = j[1]
    BY <1>2 DEF DirtyInv
  <2>2. Recorded(j[1]) \/ \E q \in blockDirty[j] : q.number = j[1]
    BY <1>0, <1>2 DEF CoverInv, Commit
  <2>3. QED
    BY <1>2, <2>1, <2>2 DEF Commit, Recorded
<1>3. QED
  BY <1>1, <1>2, Grow DEF Commit, tables

\* A step keeps AnnouncedRecorded: the announcements follow the commit.
LEMMA AnnounceStep ==
  ASSUME TypeOK, SpawnInv, LedgerInv, CoverInv, AnnouncedRecorded, [Next]_vars
  PROVE  AnnouncedRecorded'
<1> USE DEF Announcing, Casting
<1> SUFFICES ASSUME ~LockTimeout, faults' = 0, NEW i \in Jobs,
                    pc'[i] \in Announcing
             PROVE  i[1] = 0 \/ Recorded(i[1])'
  BY DEF AnnouncedRecorded
<1>0. faults = 0 /\ (Recorded(i[1]) => Recorded(i[1])')
  BY Grow DEF Recorded
<1>1. CASE pc[i] \in Announcing
  BY <1>0, <1>1 DEF AnnouncedRecorded
<1>2. CASE pc[i] \notin Announcing
  <2>1. CASE Elsewhere
    BY <1>2, <2>1, ElsewhereMoves DEF TypeOK
  <2>2. ASSUME NEW j \in Jobs, UpdateBlock(j)
        PROVE  i = j
    BY <1>2, <2>2, JobLocal
  <2>3. CASE Commit(i)
    BY <1>0, <2>3 DEF Commit, CoverInv, Recorded
  <2>4. CASE UpdateBlock(i) /\ ~Commit(i)
    <3>1. UpdateBlock(i) => Begin(i) /\ i[1] = 0
      BY <1>2, <2>4 DEF UpdateBlock, Begin, Load, Delete, InsertTx, InsertBlock,
         Visit, Send, EndRange, Goto, NextTx, AfterCast, TypeOK
    <3>2. QED
      BY <2>4, <3>1
  <2>5. ASSUME NEW j \in Jobs, ConnLost(j)
        PROVE  FALSE
    BY <1>2, <2>5 DEF ConnLost
  <2>6. CASE Crash
    BY <2>6 DEF Crash, Idle
  <2>7. QED
    BY <2>1, <2>2, <2>3, <2>4, <2>5, <2>6, Sorts
<1>3. QED
  BY <1>1, <1>2

-----------------------------------------------------------------------------
(* Which transactions get a row.                                           *)

Keeps(i) ==
  /\ pc[i] \in InTx => i[1] # 0
  /\ pc[i] \in InLoop => \A l \in 1..idx[i]-1 : TxsOf[i[1]][l] \notin BadEnvelope
  /\ pc[i] \in InLoop \ {"load"} => idx[i] \in Kept(i[1])
  /\ \A r \in txDirty[i] : KeptRow(r)

\* The end of a turn of the loop over a block: the envelope was readable.
LEMMA NextTxKeeps ==
  ASSUME TypeOK, NEW j \in Jobs, pc[j] \in InLoop, NextTx(j), Keeps(j),
         TxsOf[j[1]][idx[j]] \notin BadEnvelope, \A r \in txDirty'[j] : KeptRow(r)
  PROVE  Keeps(j)'
<1>1. idx[j] \in Nat /\ idx'[j] = idx[j] + 1
  BY DEF NextTx, TypeOK
<1>2. pc'[j] \in {"load", "block"}
  BY DEF NextTx, Goto, TypeOK
<1>3. \A l \in 1..idx'[j]-1 : TxsOf[j[1]][l] \notin BadEnvelope
  BY <1>1 DEF Keeps
<1>4. j[1] # 0
  BY DEF Keeps, InTx
<1>5. \A r \in txDirty'[j] : KeptRow(r)'
  BY DEF KeptRow
<1>6. QED
  BY <1>2, <1>3, <1>4, <1>5 DEF Keeps, InLoop

\* A step keeps KeptInv: the loop ends at the first malformed envelope, steps over
\* malformed payloads, and inserts a row for each other transaction only.
LEMMA KeptStep ==
  ASSUME TypeOK, SpawnInv, StartInv, LedgerInv, KeptInv, [Next]_vars
  PROVE  KeptInv'
<1>0. \A r : KeptRow(r)' <=> KeptRow(r)
  BY DEF KeptRow
<1>1. \A r \in txTable' : KeptRow(r)'
  <2>1. CASE UNCHANGED tables
    BY <1>0, <2>1 DEF tables, KeptInv
  <2>2. ASSUME NEW j \in Jobs, Commit(j)
        PROVE  \A r \in txTable' : KeptRow(r)'
    BY <1>0, <2>2 DEF Commit, KeptInv
  <2>3. QED
    BY <2>1, <2>2, Grow
<1> SUFFICES ASSUME NEW i \in Jobs
             PROVE  Keeps(i)'
  BY <1>1 DEF Keeps, KeptInv
<1>2. Keeps(i) /\ \A r \in txDirty[i] : KeptRow(r)
  BY DEF Keeps, KeptInv
<1>3. ASSUME pc'[i] = pc[i], idx'[i] = idx[i], txDirty'[i] \subseteq txDirty[i]
      PROVE  Keeps(i)'
  BY <1>0, <1>2, <1>3 DEF Keeps
<1>4. CASE Elsewhere
  <2>1. UNCHANGED <<idx, txDirty>> /\ (pc'[i] = pc[i] \/ pc'[i] = "spawned")
    BY <1>4, ElsewhereMoves DEF TypeOK
  <2>2. QED
    BY <1>0, <1>2, <1>3, <2>1 DEF Keeps, InTx, InLoop
<1>5. ASSUME NEW j \in Jobs, UpdateBlock(j), i # j
      PROVE  Keeps(i)'
  BY <1>3, <1>5, JobLocal
<1>6. CASE UpdateBlock(i)
  <2> USE DEF Goto, locals, rows
  <2> DEFINE b == i[1]
  <2>1. CASE Begin(i)
    <3>1. /\ idx'[i] = 1 /\ pc'[i] \in {"load", "block", "done"} /\ txDirty' = txDirty
          /\ pc'[i] # "done" => b # 0
      BY <2>1 DEF Begin, StartInv, TypeOK
    <3>2. QED
      BY <1>0, <1>2, <3>1 DEF Keeps, InLoop, InTx
  <2>2. CASE Load(i)
    <3> DEFINE t == TxsOf[b][idx[i]]
    <3>1. pc[i] = "load" /\ txDirty' = txDirty /\ idx[i] \in Position(b)
      BY <2>2 DEF Load, TypeOK, InPosition, InLoop
    <3>2. CASE t \in BadEnvelope
      <4>1. pc'[i] = "block"
        BY <2>2, <3>2 DEF Load, TypeOK
      <4>2. QED
        BY <1>0, <1>2, <3>1, <4>1 DEF Keeps, InLoop, InTx
    <3>3. CASE t \in BadPayload \ BadEnvelope
      <4>1. NextTx(i)
        BY <2>2, <3>3 DEF Load
      <4>2. QED
        BY <1>2, <3>1, <3>3, <4>1, NextTxKeeps DEF InLoop
    <3>4. CASE t \notin BadEnvelope \cup BadPayload
      <4>1. idx' = idx /\ pc'[i] \in {"delete", "txCast"}
        BY <2>2, <3>4 DEF Load, TypeOK
      <4>2. idx[i] \in Kept(b)
        <5>1. idx[i] \in Nat /\ \A l \in 1..idx[i] : l = idx[i] \/ l \in 1..idx[i]-1
          BY DEF TypeOK
        <5>2. \A l \in 1..idx[i]-1 : TxsOf[b][l] \notin BadEnvelope
          BY <1>2, <3>1 DEF Keeps, InLoop
        <5>3. QED
          BY <3>1, <3>4, <5>1, <5>2 DEF Kept
      <4>3. QED
        BY <1>0, <1>2, <3>1, <4>1, <4>2 DEF Keeps, InLoop, InTx
    <3>5. QED
      BY <3>2, <3>3, <3>4
  <2>3. CASE Delete(i) \/ EndRange(i)
    <3>1. UNCHANGED <<idx, txDirty>>
      BY <2>3 DEF Delete, EndRange
    <3>2. /\ pc'[i] \in InLoop \ {"load"} => pc[i] \in InLoop \ {"load"}
          /\ pc'[i] \in InTx => pc'[i] \in InLoop \ {"load"}
      BY <2>3 DEF Delete, EndRange, AfterCast, Casting, InLoop, InTx, TypeOK
    <3>3. QED
      BY <1>0, <1>2, <3>1, <3>2 DEF Keeps, InLoop, InTx
  <2>4. CASE InsertTx(i)
    <3> DEFINE row == TxRow(b, idx[i], attr[i])
    <3>1. pc[i] = "insert" /\ NextTx(i) /\ txDirty'[i] \subseteq txDirty[i] \cup {row}
      BY <2>4 DEF InsertTx, TypeOK
    <3>2. idx[i] \in Kept(b) /\ idx[i] \in Nat
      BY <1>2, <3>1 DEF Keeps, InLoop, TypeOK
    <3>3. KeptRow(row)
      BY <3>2 DEF KeptRow, TxRow
    <3>4. TxsOf[b][idx[i]] \notin BadEnvelope
      BY <3>2 DEF Kept, Position
    <3> HIDE DEF row
    <3>5. QED
      BY <1>2, <3>1, <3>3, <3>4, NextTxKeeps DEF InLoop
  <2>5. CASE InsertBlock(i) \/ Commit(i)
    <3>1. /\ pc[i] \in {"block", "commit"} /\ txDirty'[i] \subseteq txDirty[i]
          /\ pc'[i] \notin InLoop
      BY <2>5 DEF InsertBlock, Commit, InLoop, TypeOK
    <3>2. QED
      BY <1>0, <1>2, <3>1 DEF Keeps, InLoop, InTx
  <2>6. CASE Visit(i) \/ Send(i)
    BY <1>3, <2>6 DEF Visit, Send
  <2>7. QED
    BY <1>6, <2>1, <2>2, <2>3, <2>4, <2>5, <2>6 DEF UpdateBlock
<1>7. ASSUME NEW j \in Jobs, ConnLost(j)
      PROVE  Keeps(i)'
  <2>1. txDirty'[i] \subseteq txDirty[i] /\ UNCHANGED <<pc, idx>>
    BY <1>7 DEF ConnLost, TypeOK
  <2>2. QED
    BY <1>3, <2>1
<1>8. CASE Crash
  BY <1>8 DEF Crash, Idle, Keeps, InLoop, InTx
<1>9. QED
  BY <1>4, <1>5, <1>6, <1>7, <1>8, Sorts

-----------------------------------------------------------------------------
(* Attributions are dropped.                                               *)

\* Nothing is stored in TxList for a transaction that is on the ledger.
LEMMA ListStep ==
  ASSUME TypeOK, [Next]_vars, NEW b \in Blocks, b < height
  PROVE  Ledger(b) \cap txList' \subseteq txList
<1>1. ASSUME NEW t \in Own, Submit(t)
      PROVE  Ledger(b) \cap txList' \subseteq txList
  <2>1. b \in 0..height-1
    BY ConstantsAssumption DEF TypeOK, Blocks
  <2>2. QED
    BY <1>1, <2>1 DEF Submit
<1>2. ASSUME NEW j \in Jobs, UpdateBlock(j)
      PROVE  txList' \subseteq txList
  BY <1>2 DEF UpdateBlock, Begin, Load, Delete, InsertTx, InsertBlock, Commit,
     Visit, Send, EndRange
<1>3. CASE \/ CutBlock \/ Listen \/ RegisterFails \/ Sync
           \/ \E s \in Subs : Subscribe(s) \/ Serve(s)
           \/ UNCHANGED vars
  BY <1>3 DEF CutBlock, Listen, Connect, EventBeforeRegistration, Register,
     FirstEvent, BlockEvent, RegisterFails, Sync, SyncHeight, SyncInfo, SyncLoop,
     SyncUpTo, Subscribe, Serve, WriteOk, WriteError, Unsubscribe, vars
<1>4. ASSUME NEW j \in Jobs, ConnLost(j)
      PROVE  txList' = txList
  BY <1>4 DEF ConnLost
<1>5. CASE Crash
  BY <1>5 DEF Crash
<1>6. QED
  BY <1>1, <1>2, <1>3, <1>4, <1>5 DEF Next

Consumes(i) ==
  /\ pc[i] \in InLoop => \A k \in Kept(i[1]) : k < idx[i] => Dropped(i, k)
  /\ pc[i] \in {"txCast", "insert"} => Dropped(i, idx[i])
  /\ pc[i] \in {"block", "commit"} => \A k \in Kept(i[1]) : Dropped(i, k)
  /\ pc[i] \in Announcing => \A k \in Kept(i[1]) : Dropped(i, k)

\* The parts of ConsumeInv and TxListConsumed about one goroutine.
LEMMA ConsumesDef ==
  /\ ConsumeInv /\ TxListConsumed =>
       Ledger(0) \cap txList = {} /\ \A i \in Jobs : Consumes(i)
  /\ Ledger(0) \cap txList = {} /\ (\A i \in Jobs : Consumes(i)) =>
       ConsumeInv /\ TxListConsumed
BY DEF Consumes, ConsumeInv, TxListConsumed, Dropped

\* The end of a turn of the loop, once its attribution is dropped.
LEMMA NextTxConsumes ==
  ASSUME TypeOK, NEW j \in Jobs, pc[j] \in InLoop, NextTx(j),
         \A k \in Kept(j[1]) : k <= idx[j] => Dropped(j, k)'
  PROVE  Consumes(j)'
<1>1. idx[j] \in Nat /\ idx'[j] = idx[j] + 1
  BY DEF NextTx, TypeOK
<1>2. Len(TxsOf[j[1]]) \in Nat /\ Kept(j[1]) \subseteq 1..Len(TxsOf[j[1]])
  BY ConstantsAssumption DEF Kept, Position, Jobs
<1>3. \/ pc'[j] = "load"
      \/ pc'[j] = "block" /\ idx[j] >= Len(TxsOf[j[1]])
  BY <1>1, <1>2 DEF NextTx, Goto, TypeOK
<1>4. \A k \in Kept(j[1]) : k < idx'[j] => Dropped(j, k)'
  BY <1>1, <1>2
<1>5. pc'[j] = "block" => \A k \in Kept(j[1]) : Dropped(j, k)'
  BY <1>1, <1>2, <1>3
<1>6. QED
  BY <1>3, <1>4, <1>5 DEF Consumes, Announcing, Casting

\* A step keeps ConsumeInv and TxListConsumed: a goroutine drops the attribution
\* of each transaction it keeps, and nobody stores it again once it is ordered.
LEMMA ConsumeStep ==
  ASSUME TypeOK, SpawnInv, StartInv, LedgerInv, ConsumeInv, TxListConsumed, [Next]_vars
  PROVE  ConsumeInv' /\ TxListConsumed'
<1> USE DEF Casting, Announcing
<1>0. 0 \in Blocks /\ 0 < height
  BY ConstantsAssumption DEF TypeOK, Blocks
<1>1. Ledger(0) \cap txList' = {}
  BY <1>0, ListStep DEF ConsumeInv
<1>a. (Ledger(0) \cap txList = {} /\ (\A i \in Jobs : Consumes(i)) =>
         ConsumeInv /\ TxListConsumed)'
  BY ConsumesDef, PTL
<1> SUFFICES ASSUME NEW i \in Jobs
             PROVE  Consumes(i)'
  BY <1>1, <1>a
<1> DEFINE b == i[1]
<1>2. Consumes(i)
  BY ConsumesDef
<1>3. /\ idx[i] \in Nat /\ Kept(b) \subseteq Nat /\ Kept(b) \subseteq Position(b)
      /\ b \in Blocks
  BY ConstantsAssumption DEF TypeOK, Kept, Position, Jobs
<1>4. pc[i] # "idle" => \A k \in Position(b) : Dropped(i, k) => Dropped(i, k)'
  BY <1>3, ListStep DEF LedgerInv, Ledger, Dropped
<1>5. pc[i] \in InLoop => idx[i] \in Position(b)
  BY DEF TypeOK, InPosition
<1>6. ASSUME pc'[i] = pc[i], idx'[i] = idx[i]
      PROVE  Consumes(i)'
  BY <1>2, <1>3, <1>4, <1>5, <1>6 DEF Consumes, InLoop
<1>7. CASE Elsewhere
  <2>1. idx' = idx /\ (pc'[i] = pc[i] \/ pc'[i] = "spawned")
    BY <1>7, ElsewhereMoves DEF TypeOK
  <2>2. QED
    BY <1>6, <2>1 DEF Consumes, InLoop
<1>8. ASSUME NEW j \in Jobs, UpdateBlock(j), i # j
      PROVE  Consumes(i)'
  BY <1>6, <1>8, JobLocal
<1>9. CASE UpdateBlock(i)
  <2> USE DEF Goto, locals
  <2>1. CASE Begin(i)
    <3>1. idx'[i] = 1 /\ pc'[i] \in {"load", "block", "done"}
      BY <2>1 DEF Begin, StartInv, TypeOK
    <3>2. pc'[i] = "block" => Kept(b) = {}
      BY <2>1, ConstantsAssumption DEF Begin, Kept, Position, TypeOK
    <3>3. pc'[i] = "done" => b = 0
      BY <2>1 DEF Begin, TypeOK
    <3>4. \A k \in Kept(b) : ~(k < 1)
      BY DEF Kept, Position
    <3>5. b = 0 => \A k \in Kept(b) : Dropped(i, k)'
      BY <1>1, <1>3 DEF Ledger, Dropped
    <3>6. QED
      BY <3>1, <3>2, <3>3, <3>4, <3>5 DEF Consumes, InLoop
  <2>2. CASE Load(i)
    <3> DEFINE t == TxsOf[b][idx[i]]
    <3>1. /\ pc[i] = "load" /\ idx[i] \in Position(b) /\ txList' = txList
          /\ \A k \in Kept(b) : k < idx[i] => Dropped(i, k)'
      BY <1>2, <1>3, <1>4, <1>5, <2>2 DEF Load, Consumes, InLoop
    <3>2. CASE t \in BadEnvelope
      <4>1. \A k \in Kept(b) : k < idx[i]
        BY <1>3, <3>1, <3>2 DEF Kept, Position
      <4>2. pc'[i] = "block"
        BY <2>2, <3>2 DEF Load, TypeOK
      <4>3. QED
        BY <3>1, <4>1, <4>2 DEF Consumes, InLoop
    <3>3. CASE t \in BadPayload \ BadEnvelope
      <4>1. NextTx(i)
        BY <2>2, <3>3 DEF Load
      <4>2. idx[i] \notin Kept(b)
        BY <3>3 DEF Kept
      <4>3. \A k \in Kept(b) : k <= idx[i] => Dropped(i, k)'
        BY <1>3, <3>1, <4>2
      <4>4. QED
        BY <3>1, <4>1, <4>3, NextTxConsumes DEF InLoop
    <3>4. CASE t \notin BadEnvelope \cup BadPayload
      <4>1. /\ idx' = idx /\ pc'[i] \in {"delete", "txCast"}
            /\ pc'[i] = "txCast" => t \notin txList
        BY <2>2, <3>4 DEF Load, TypeOK
      <4>2. pc'[i] = "txCast" => Dropped(i, idx[i])'
        BY <3>1, <4>1 DEF Dropped
      <4>3. QED
        BY <3>1, <4>1, <4>2 DEF Consumes
    <3>5. QED
      BY <3>2, <3>3, <3>4
  <2>3. CASE Delete(i)
    <3>1. /\ pc[i] = "delete" /\ pc'[i] = "txCast" /\ idx' = idx
          /\ txList' = txList \ {TxsOf[b][idx[i]]}
      BY <2>3 DEF Delete, TypeOK
    <3>2. \A k \in Kept(b) : k < idx[i] => Dropped(i, k)'
      BY <1>2, <1>3, <1>4, <3>1 DEF Consumes, InLoop
    <3>3. Dropped(i, idx[i])'
      BY <3>1 DEF Dropped
    <3>4. QED
      BY <3>1, <3>2, <3>3 DEF Consumes
  <2>4. CASE InsertTx(i)
    <3>1. pc[i] = "insert" /\ NextTx(i)
      BY <2>4 DEF InsertTx
    <3>2. \A k \in Kept(b) : k < idx[i] \/ k = idx[i] => Dropped(i, k)'
      BY <1>2, <1>3, <1>4, <3>1 DEF Consumes, InLoop
    <3>3. QED
      BY <1>3, <3>1, <3>2, NextTxConsumes DEF InLoop
  <2>5. CASE InsertBlock(i) \/ Commit(i)
    <3>1. pc[i] \in {"block", "commit"} /\ pc'[i] \notin InLoop
      BY <2>5 DEF InsertBlock, Commit, InLoop, TypeOK
    <3>2. \A k \in Kept(b) : Dropped(i, k)'
      BY <1>2, <1>3, <1>4, <3>1 DEF Consumes
    <3>3. QED
      BY <3>1, <3>2 DEF Consumes, InLoop
  <2>6. CASE Visit(i) \/ Send(i)
    BY <1>6, <2>6 DEF Visit, Send
  <2>7. CASE EndRange(i)
    <3>1. idx' = idx /\ pc'[i] = AfterCast[pc[i]] /\ pc[i] \in Casting
      BY <2>7 DEF EndRange, TypeOK
    <3>2. CASE pc[i] = "txCast"
      <4>1. pc'[i] = "insert"
        BY <3>1, <3>2 DEF AfterCast
      <4>2. QED
        BY <1>2, <1>3, <1>4, <1>5, <3>1, <3>2, <4>1 DEF Consumes, InLoop
    <3>3. CASE pc[i] # "txCast"
      <4>1. pc[i] \in Announcing /\ pc'[i] \in Announcing
        BY <3>1, <3>3 DEF AfterCast
      <4>2. \A k \in Kept(b) : Dropped(i, k)'
        BY <1>2, <1>3, <1>4, <4>1 DEF Consumes
      <4>3. QED
        BY <4>1, <4>2 DEF Consumes, InLoop
    <3>4. QED
      BY <3>2, <3>3
  <2>8. QED
    BY <1>9, <2>1, <2>2, <2>3, <2>4, <2>5, <2>6, <2>7 DEF UpdateBlock
<1>10. ASSUME NEW j \in Jobs, ConnLost(j)
       PROVE  Consumes(i)'
  BY <1>6, <1>10 DEF ConnLost
<1>11. CASE Crash
  BY <1>11 DEF Crash, Idle, Consumes, InLoop
<1>12. QED
  BY <1>7, <1>8, <1>9, <1>10, <1>11, Sorts

-----------------------------------------------------------------------------
(* The theorems.                                                           *)

\* The inductive invariant holds initially.
LEMMA InitInv == Init => IInv
<1> SUFFICES ASSUME Init
             PROVE  IInv
  OBVIOUS
<1>1. TypeOK
  BY InitType
<1>2. SpawnInv /\ StartInv /\ DirtyInv /\ AttrInv
  BY ConstantsAssumption
     DEF Init, Idle, SpawnInv, StartInv, DirtyInv, AttrInv, InLoop, Jobs
<1>3. LedgerInv /\ NoSyncPanic
  BY DEF Init, Idle, LedgerInv, NoSyncPanic
<1>4. CoverInv
  BY DEF Init, Idle, CoverInv, InLoop
<1>5. RowsFaithful /\ BlockRowsComplete /\ TxRowsHaveBlock
  BY DEF Init, RowsFaithful, BlockRowsComplete, TxRowsHaveBlock
<1>6. AnnouncedRecorded
  BY DEF Init, Idle, AnnouncedRecorded, Announcing, Casting
<1>7. ConsumeInv /\ TxListConsumed
  BY DEF Init, Idle, ConsumeInv, TxListConsumed, InLoop, Announcing, Casting
<1>8. KeptInv
  BY DEF Init, Idle, KeptInv, InLoop, InTx
<1>9. QED
  BY <1>1, <1>2, <1>3, <1>4, <1>5, <1>6, <1>7, <1>8 DEF IInv

\* Every step keeps the inductive invariant.
LEMMA NextInv == IInv /\ [Next]_vars => IInv'
<1> SUFFICES ASSUME IInv, [Next]_vars
             PROVE  IInv'
  OBVIOUS
<1>1. TypeOK' /\ SpawnInv' /\ StartInv' /\ LedgerInv'
  BY TypeStep, SpawnStep, StartStep, LedgerStep DEF IInv
<1>2. DirtyInv' /\ AttrInv' /\ CoverInv'
  BY DirtyStep, AttrStep, CoverStep DEF IInv
<1>3. NoSyncPanic' /\ RowsFaithful' /\ BlockRowsComplete'
  BY PanicStep, RowsStep, CompleteStep DEF IInv
<1>4. TxRowsHaveBlock' /\ AnnouncedRecorded'
  BY HaveBlockStep, AnnounceStep DEF IInv
<1>5. ConsumeInv' /\ TxListConsumed'
  BY ConsumeStep DEF IInv
<1>6. KeptInv'
  BY KeptStep DEF IInv
<1>7. QED
  BY <1>1, <1>2, <1>3, <1>4, <1>5, <1>6 DEF IInv

\* The inductive invariant is an invariant: at every point of updateBlock the
\* rows a goroutine has written, or found written, are known.
THEOREM Inductive == Spec => []IInv
<1>1. QED
  BY InitInv, NextInv, PTL DEF Spec

\* Every variable always holds a value of its type.
THEOREM TypeCorrect == Spec => []TypeOK
<1>1. IInv => TypeOK
  BY DEF IInv
<1>2. QED
  BY <1>1, Inductive, PTL

\* syncBlock never panics over an invalid block height.
THEOREM NeverPanics == Spec => []NoSyncPanic
<1>1. IInv => NoSyncPanic
  BY DEF IInv
<1>2. QED
  BY <1>1, Inductive, PTL

\* A recorded block has all its rows.
THEOREM BlocksComplete == Spec => []BlockRowsComplete
<1>1. IInv => BlockRowsComplete
  BY DEF IInv
<1>2. QED
  BY <1>1, Inductive, PTL

\* No transaction's row without the row of its block.
THEOREM RowsHaveBlock == Spec => []TxRowsHaveBlock
<1>1. IInv => TxRowsHaveBlock
  BY DEF IInv
<1>2. QED
  BY <1>1, Inductive, PTL

\* What is announced is recorded.
THEOREM AnnouncementsTrue == Spec => []AnnouncedRecorded
<1>1. IInv => AnnouncedRecorded
  BY DEF IInv
<1>2. QED
  BY <1>1, Inductive, PTL

\* Rows tell what the ledger holds, and name senders of the same block.
THEOREM Faithful == Spec => []RowsFaithful
<1>1. IInv => RowsFaithful
  BY DEF IInv
<1>2. QED
  BY <1>1, Inductive, PTL

\* A processed block leaves no attribution of its transactions in TxList.
THEOREM ListConsumed == Spec => []TxListConsumed
<1>1. IInv => TxListConsumed
  BY DEF IInv
<1>2. QED
  BY <1>1, Inductive, PTL

\* what the sync.Maps of main.go hold: channels of handlers that have not returned
Registered == \A s \in reg : ws[s] # "gone"

\* A handler leaves the map before it returns, and never comes back.
LEMMA RegisteredStep == TypeOK /\ Registered /\ [Next]_vars => Registered'
<1> SUFFICES ASSUME TypeOK, Registered, [Next]_vars
             PROVE  Registered'
  OBVIOUS
<1> USE DEF Registered, TypeOK, hub
<1>1. CASE UNCHANGED hub
  BY <1>1
<1>2. ASSUME NEW j \in Jobs, UpdateBlock(j)
      PROVE  Registered'
  <2>1. CASE Send(j)
    BY <2>1 DEF Send
  <2>2. CASE ~Send(j)
    BY <1>1, <1>2, <2>2 DEF UpdateBlock, Begin, Load, Delete, InsertTx, InsertBlock,
       Commit, Visit, EndRange
  <2>3. QED
    BY <2>1, <2>2
<1>3. ASSUME NEW s \in Subs, Subscribe(s) \/ Serve(s)
      PROVE  Registered'
  BY <1>3 DEF Subscribe, Serve, WriteOk, WriteError, Unsubscribe
<1>4. CASE Crash
  BY <1>4 DEF Crash
<1>5. CASE \/ \E t \in Own : Submit(t)
           \/ CutBlock \/ Listen \/ RegisterFails \/ Sync
           \/ \E j \in Jobs : ConnLost(j)
           \/ UNCHANGED vars
  BY <1>1, <1>5 DEF Submit, CutBlock, Listen, Connect, EventBeforeRegistration, Register,
     FirstEvent, BlockEvent, RegisterFails, Sync, SyncHeight, SyncInfo, SyncLoop,
     SyncUpTo, ConnLost, vars
<1>6. QED
  BY <1>2, <1>3, <1>4, <1>5 DEF Next

\* updateBlock picks only the channels of handlers that have not returned.
THEOREM NobodyDeparted == Spec => NoSendToDeparted
<1> DEFINE Sound == \A j \in Jobs : tgt[j] = None /\ tgt'[j] # None => ws[tgt'[j]] # "gone"
<1>1. Init => Registered
  BY DEF Init, Registered
<1>2. TypeOK /\ Registered /\ [Next]_vars => [Sound]_vars
  <2> SUFFICES ASSUME TypeOK, Registered, [Next]_vars, NEW j \in Jobs,
                      tgt[j] = None, tgt'[j] # None
               PROVE  ws[tgt'[j]] # "gone"
    BY DEF Sound
  <2> USE DEF TypeOK
  <2>1. ASSUME NEW i \in Jobs, UpdateBlock(i)
        PROVE  Visit(i) /\ i = j
    <3>1. Visit(i)
      BY <2>1 DEF UpdateBlock, Begin, Load, Delete, InsertTx, InsertBlock, Commit,
         Send, EndRange, locals
    <3>2. QED
      BY <3>1 DEF Visit
  <2>2. CASE Visit(j)
    BY <2>2 DEF Visit, Registered
  <2>3. CASE Crash
    BY <2>3 DEF Crash, Idle
  <2>4. CASE \/ Elsewhere \/ \E i \in Jobs : ConnLost(i)
    BY <2>4 DEF Elsewhere, Submit, CutBlock, Listen, Connect, EventBeforeRegistration,
       Register, FirstEvent, BlockEvent, RegisterFails, Sync, SyncHeight, SyncInfo, SyncLoop,
       SyncUpTo, Subscribe, Serve, WriteOk, WriteError, Unsubscribe, ConnLost, jobs, locals, vars
  <2>5. QED
    BY <2>1, <2>2, <2>3, <2>4, Sorts
<1> HIDE DEF Sound
<1>3. Spec => [][Sound]_vars
  BY <1>1, <1>2, RegisteredStep, TypeCorrect, PTL DEF Spec
<1>4. QED
  BY <1>3 DEF NoSendToDeparted, Sound

-----------------------------------------------------------------------------
(* The tables implement BlockStore.                                        *)

\* Two positions of the ledger have the same tx_index only if they are the same.
LEMMA TxIndexInjective ==
  ASSUME NEW b \in Blocks, NEW c \in Blocks, NEW k \in Position(b), NEW l \in Position(c),
         TxIndex(b, k) = TxIndex(c, l)
  PROVE  b = c /\ k = l
<1> DEFINE n == TxNumPerBlock
<1>1. /\ b \in Nat /\ c \in Nat /\ n \in Nat
      /\ k \in 1..n /\ l \in 1..n
  BY ConstantsAssumption DEF Blocks, Position
<1>2. b * n + (k - 1) = c * n + (l - 1)
  BY DEF TxIndex
<1>3. ASSUME NEW x \in Nat, NEW y \in Nat, x < y
      PROVE  x * n + n <= y * n
  <2>1. PICK d \in Nat : y = x + 1 + d
    <3>1. y - x - 1 \in Nat /\ y = x + 1 + (y - x - 1)
      BY <1>3
    <3>2. QED
      BY <3>1
  <2>2. y * n = x * n + n + d * n /\ d * n >= 0 /\ x * n \in Int /\ d * n \in Int
    BY <1>1, <2>1
  <2>3. QED
    BY <1>1, <2>2
<1>4. b * n \in Int /\ c * n \in Int
  BY <1>1
<1>5. ~(b < c) /\ ~(c < b)
  BY <1>1, <1>2, <1>3, <1>4
<1>6. QED
  BY <1>1, <1>2, <1>4, <1>5

content  == [b \in Blocks |-> {<<TxIndex(b, k), TxsOf[b][k]>> : k \in Kept(b)}]
recorded == {r.number : r \in blockTable}
visible  == [b \in Blocks |-> {<<r.index, r.tx>> : r \in {q \in txTable : q.block = b}}]

\* no connection was lost so far
NoFault == faults = 0

\* A reader sees all of a recorded block and nothing of another.
LEMMA VisibleIs ==
  ASSUME IInv, ~LockTimeout, faults = 0
  PROVE  visible = [b \in Blocks |-> IF b \in recorded THEN content[b] ELSE {}]
<1> SUFFICES ASSUME NEW b \in Blocks
             PROVE  visible[b] = IF b \in recorded THEN content[b] ELSE {}
  BY DEF visible
<1>1. visible[b] \subseteq content[b]
  BY DEF visible, content, IInv, KeptInv, KeptRow
<1>2. b \notin recorded => visible[b] = {}
  BY DEF visible, recorded, IInv, TxRowsHaveBlock, Recorded
<1>3. ASSUME b \in recorded, NEW k \in Kept(b)
      PROVE  <<TxIndex(b, k), TxsOf[b][k]>> \in visible[b]
  <2>1. PICK r \in txTable : r.index = TxIndex(b, k)
    BY <1>3 DEF recorded, IInv, BlockRowsComplete, TxTaken
  <2>2. PICK l \in Kept(r.block) : r.index = TxIndex(r.block, l) /\ r.tx = TxsOf[r.block][l]
    BY DEF IInv, KeptInv, KeptRow
  <2>3. r.block \in Blocks
    BY DEF IInv, TypeOK, TxRows
  <2>4. /\ k \in Position(b) /\ l \in Position(r.block)
        /\ TxIndex(b, k) = TxIndex(r.block, l)
    BY <1>3, <2>1, <2>2 DEF Kept
  <2>5. r.block = b /\ l = k
    BY <2>3, <2>4, TxIndexInjective
  <2>6. QED
    BY <2>1, <2>2, <2>5 DEF visible
<1>4. QED
  BY <1>1, <1>2, <1>3 DEF content

\* The tables of transactions and blocks are the store of BlockStore as long as no
\* connection is lost, for a database in which no lock wait runs out: the commit of
\* the first goroutine of a block makes it visible, every other step leaves the
\* store alone.
THEOREM ImplementsStore ==
  ASSUME ~LockTimeout
  PROVE  Spec /\ []NoFault => StoreSpec
<1>1. Init => Store!Init
  BY DEF Init, Store!Init, Blocks
<1>2. IInv /\ IInv' /\ NoFault /\ NoFault' /\ [Next]_vars
        => [Store!Next]_<<height, recorded, visible>>
  <2> SUFFICES ASSUME IInv, IInv', faults = 0, faults' = 0, [Next]_vars,
                      ~UNCHANGED <<height, recorded, visible>>
               PROVE  Store!Next
    BY DEF NoFault
  <2>1. /\ visible = [b \in Blocks |-> IF b \in recorded THEN content[b] ELSE {}]
        /\ visible' = [b \in Blocks |-> IF b \in recorded' THEN content[b] ELSE {}]
    <3>1. (IInv /\ ~LockTimeout /\ faults = 0 =>
             visible = [b \in Blocks |-> IF b \in recorded THEN content[b] ELSE {}])'
      BY VisibleIs, PTL
    <3>2. content' = content
      BY DEF content
    <3>3. QED
      BY <3>1, <3>2, VisibleIs
  <2>2. CASE CutBlock
    BY <2>2 DEF CutBlock, tables, recorded, visible, Store!CutBlock, Store!Next
  <2>3. CASE \E j \in Jobs : Commit(j)
    <3>1. PICK j \in Jobs : Commit(j)
      BY <2>3
    <3> DEFINE b == j[1]
    <3>2. recorded' = recorded \/ recorded' = recorded \cup {b}
      BY <3>1 DEF Commit, recorded, IInv, DirtyInv
    <3>3. UNCHANGED height /\ b # 0 /\ b < height /\ b \in Blocks
      BY <3>1 DEF Commit, outside, net, IInv, LedgerInv, KeptInv, InTx, Jobs
    <3>4. b \notin recorded /\ recorded' = recorded \cup {b}
      BY <2>1, <3>2, <3>3
    <3>5. visible' = [visible EXCEPT ![b] = content[b]]
      BY <2>1, <3>3, <3>4
    <3>a. TypeOK
      BY DEF IInv
    <3>b. height \in Nat /\ MaxHeight \in Nat
      BY <3>a, ConstantsAssumption DEF TypeOK
    <3>c. b \in 0..MaxHeight-1
      BY <3>3 DEF Blocks
    <3>6. b \in 1..height-1 /\ b \in 1..MaxHeight-1
      BY <3>3, <3>b, <3>c
    <3>7. QED
      BY <3>3, <3>4, <3>5, <3>6 DEF Store!Next, Store!Record, content, visible, recorded
  <2>4. CASE ~\E j \in Jobs : Commit(j)
    <3>0. TypeOK /\ SpawnInv /\ LedgerInv
      BY DEF IInv
    <3>1. UNCHANGED tables
      BY <2>4, <3>0, Grow
    <3>2. UNCHANGED <<recorded, visible>>
      BY <3>1 DEF tables, recorded, visible
    <3>3. UNCHANGED height \/ CutBlock
      BY DEF Next, Submit, Listen, Connect, EventBeforeRegistration, Register, FirstEvent,
         BlockEvent, RegisterFails, Sync, SyncHeight, SyncInfo, SyncLoop, SyncUpTo, UpdateBlock,
         Begin, Load, Delete, InsertTx, InsertBlock, Commit, Visit, Send, EndRange, ConnLost,
         Subscribe, Serve, WriteOk, WriteError, Unsubscribe, Crash, outside, net, vars
    <3>4. QED
      BY <2>2, <3>2, <3>3
  <2>5. QED
    BY <2>3, <2>4
<1>3. QED
  BY <1>1, <1>2, Inductive, PTL DEF Spec, StoreSpec, Store!Spec, recorded, visible

=============================================================================
