--------------------------- MODULE MCBlockListener ---------------------------
(***************************************************************************)
(* Instances of BlockListener for TLC.  Block 0 is the genesis block.      *)
(***************************************************************************)
EXTENDS BlockListenerInv

CONSTANTS t0, t1, t2, t3, txPage, sumPage

Org3 == "peer0.org3.example.com"

MCTx    == {t0, t1, t2, t3}
MCPeers == {Org1, Org3}
MCCode  == [t \in MCTx |-> IF t = t2 THEN 11 ELSE 0]   \* t2: MVCC_READ_CONFLICT

\* block 1 mixes a transaction of this server with a foreign one
ThreeBlocks  == [b \in 0..2 |-> CASE b = 0 -> <<t0>> [] b = 1 -> <<t1, t2>> [] b = 2 -> <<t3>>]
OneFullBlock == [b \in 0..1 |-> IF b = 0 THEN <<t0>> ELSE <<t1, t2, t3>>]

\* t1 was sent while 2 peers were byzantine, t3 while 5 were
MCOrigin == [t \in {t1, t3} |-> [name |-> Org3, type |-> IF t = t1 THEN 2 ELSE 5]]
NoOrigin == <<>>
OriginAll == [t \in {t1, t2, t3} |->
                [name |-> Org3, type |-> CASE t = t1 -> 2 [] t = t2 -> 0 [] t = t3 -> 5]]

TxOnly   == [s \in {txPage} |-> "tx"]
SumOnly  == [s \in {sumPage} |-> "txNumber"]
NoSubs   == <<>>
============================================================================
