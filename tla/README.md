# fabric-byzantine: specifications and proofs

The repository is a demonstrator for byzantine peers in Hyperledger Fabric: a
network of ten organisations with one peer each, a token chaincode that also
keeps which peers play byzantine, a modified SDK, and a Go server with a block
explorer, from whose page attacks are sent. These modules model the parts of it
where several goroutines, peers or database transactions meet; TLC checks them
on small instances and TLAPS proves the main results for every instance.

Paths below are relative to the repository.

## Inventory

| part | state | operations | interacts with |
|---|---|---|---|
| block listener, `server/block_listener.go` | `TxList`, the variable `flag`, per goroutine the position in its block, `peerName`, `peerType`, a database transaction | `registerBlockEvent`, `syncBlock`, `updateBlock` | reads blocks from peer0.org1, writes MySQL, feeds the websocket pages, takes attributions that `InvokeCC` stored |
| websocket pages, `main.go` 134-278 | four `sync.Map`s of unbuffered channels | `block`, `blockNumber`, `transaction`, `transactionNumber` | receive from every `updateBlock` |
| explorer database, `server/mysql`, `scripts/db` | tables `transaction`, `block`, `peer`; a connection pool | prepared inserts, page queries, `max(number)`, `sum(tx_count)` | written by `updateBlock` and `muma`, read by the pages and `syncBlock` |
| transaction submission, `server/fabsdk.go` | `TxList`, `StatisticsTable` | `InvokeCC`, `QueryCC` | the SDK; called by `invoke`, `muma`, `timerTask` |
| SDK channel client, vendored and modified | the request context | `Execute`, endorsement, `validate`, commit | the peers and the orderer |
| chaincode `token` | one value, under the key `fab`: balances, byzantine peers, flag | `issue`, `transfer`, `setPeer`, `getPeers`, `balance` | executed by every endorser |
| statistics, `server/statistics.go` | a map of counters, no lock | `GetTable`, `ByzantineNum` | written by `InvokeCC`, read by `ByzantineNum` and `/statistics` (`getStatistics` in `main.go`) |
| timer and controller, `main.go` 22-33, 337-359 | `timerFlag`, no lock | `timerTask`, `timerControl`, `controllerState` | calls `InvokeCC` |
| peer registry, `muma` in `main.go` | table `peer` beside the peers of the token | `muma`, `UpdatePeers` | `InvokeCC`, MySQL |
| pages that only read, `main.go` | none | `blockPage`, `transactionPage`; `peerList`, `query`, `home`, `echo` | MySQL, `QueryCC` |
| protocol utilities, `server/protoutil` | none: functions on messages | proposals, responses, transactions, envelopes, signed data, blocks and their metadata | used by `updateBlock`, by clients, endorsers and orderers of a network |
| bootstrap, `scripts/script.sh`, `transfer.sh`, `utils.sh` | the shell variables `COUNTER` and `res`; the network | channel, join with retries, anchor peers, install, instantiate, issue; a transfer | peers and orderer through `peer`; sets the endorsement policy; competes with `InvokeCC` |
| example chaincode, `chaincode/src/example_cc` | one key for each entity | `Init`, `move`, `delete`, `query` | executed by endorsers; no script installs it |
| configuration, logging | none that changes | | |

What is hard about it:

* **The start of the listener.** `syncBlock` and `registerBlockEvent` run side by
  side and cover the ledger from two ends; which blocks fall between them, and
  which both process, depends on the order of five steps.
* **Goroutines per block.** Blocks are processed concurrently and finish in any
  order, each in a database transaction that is open while it sends to browsers
  over unbuffered channels.
* **Crashes.** Only MySQL survives; start-up continues at the highest number.
* **Execute, order, validate.** The peers that `InvokeCC` picks, the version each
  of them answers from, the answer that comes first, and who commits in between
  are all open, and all requests write one key. A timeout does not recall a
  transaction.
* **Unlocked memory.** `StatisticsTable` is a map of pointers to counters that every
  invocation changes and `/statistics` marshals, without a lock; `timerFlag` is another
  such variable, which a press negates and then reads again.
* **Two writes and no transaction.** `muma` changes the token and then the table `peer`, row by
  row and without a look at errors; between them are a timeout, a crash, another `muma`.
* **Answers that may be anybody's.** A transaction is assembled from responses that are compared
  with each other, by functions that strip, hash, sign and identify; whether they fit together
  shows only at the committer.
* **Scripts that do not wait.** No command of the bootstrap waits for the peers to commit; one
  may fail after it has had its effect, and scripts are run again.
* **Two thresholds that have to fit.** `InvokeCC` takes seven peers of a kind for
  enough, `validate` refuses 4 to 6 differing answers, and
  `instantiateChaincode` asks for 6 endorsements (7 without TLS).

`PROJECT.json` lists each hazard at its line, with the properties about it.

## Modules

| module | what it is |
|---|---|
| `BlockListener` | the listener, the websocket handlers and the two tables they share |
| `BlockStore` | what readers of the database are promised; `BlockListener` refines it |
| `BlockListenerInv` | the inductive invariant |
| `BlockListener_proofs` | the proofs |
| `MCBlockListener`, `BL_*.cfg` | instances for TLC |
| `TokenContract` | the chaincode as functions on its token |
| `TokenLedger` | an atomic ledger: requests take effect one by one |
| `InvokeCC` | an invocation, the SDK and the network; refines `TokenLedger`; extends `TokenContract`; holds its inductive invariant |
| `InvokeCC_proofs` | the proofs |
| `MCInvokeCC`, `IC_*.cfg` | instances for TLC |
| `Statistics` | what follows an invocation's answer: the broadcast of a failure, the counters, their readers; holds its inductive invariant |
| `Statistics_proofs` | the proofs |
| `MCStatistics`, `ST_*.cfg` | instances for TLC |
| `Console` | the HTTP handlers beside the websockets: the timer's switch, `muma` with the table `peer`, the paged tables |
| `Console_proofs` | its inductive invariant and the proofs |
| `MCConsole`, `CO_*.cfg` | instances for TLC |
| `ProtoUtil` | `server/protoutil` as functions on messages |
| `ProposalFlow` | clients, endorsers, the orderer and readers that use them; extends `ProtoUtil` |
| `ProposalFlow_proofs` | its inductive invariants and the proofs |
| `MCProposalFlow`, `PF_flow.cfg` | an instance for TLC |
| `ExampleLedger` | what the example chaincode promises: holdings that operations change one by one |
| `ExampleCC` | the example chaincode on peers that lag behind; refines `ExampleLedger` |
| `ExampleCC_proofs` | its inductive invariant and the proofs |
| `MCExampleCC`, `EX_serial.cfg` | an instance for TLC |
| `Bootstrap` | `script.sh` and `transfer.sh` with the network they set up; holds its inductive invariant |
| `Bootstrap_proofs` | the proofs |
| `MCBootstrap`, `BS_*.cfg` | instances for TLC |
| `SetLemmas` | the least and the greatest member of a set of natural numbers, for three of the proof modules |

`BlockListener` and `InvokeCC` meet in `TxList`: the first has what `InvokeCC` does to it as
`Submit`. `Console` stands on what the others promise: its `Commit` and `Refuse` are the ways an
invocation of `setPeer` can end in `InvokeCC` (an atomic ledger, an answer that may be an error
although the transaction is committed), its `Insert` is a block that `BlockStore` makes visible.
`ProposalFlow` shows the messages inside such an invocation, and that of a block's entries
`updateBlock` can read what it takes from them. `Statistics` takes over where `InvokeCC` answers (`Succeed`, `Fail` stand for
every answer the SDK can give, with any number of byzantine peers the constants allow), and
sends to the same kind of websocket handler as `BlockListener`. `Bootstrap` ends where the
others begin, with a token on every peer; a transaction of the server is its action `Other`.

A definition with `(mutant)` in its comment is never used by a specification. It
is the definition next to it with a plausible bug, and `PROJECT.json` names the
property that notices when it takes that definition's place.

### BlockListener

`lpc`, `flag`, `nextEvent`, `skipped` are registerBlockEvent's; `spc`, `dbHeight`,
`top`, `cur` are syncBlock's. A goroutine `updateBlock` is a pair of a block and
who started it (`Jobs`); each has a program counter `pc` and its locals `idx`,
`attr` (peerName and peerType), `todo` and `tgt` (the state of a `Range`), `conn`.
An action is the code between two accesses to something shared:

| action | code in `updateBlock` |
|---|---|
| `Begin` | return on block 0, `Begin` on a pooled connection |
| `Load`, `Delete` | decode the transaction, `TxList.Load`, `TxList.Delete` |
| `Visit`, `Send`, `EndRange` | one turn of a `Range`; after the first kind of page the insert follows, after the others the next kind |
| `InsertTx`, `InsertBlock`, `Commit` | the rows and the end of the transaction |

`txDirty` and `blockDirty` are the rows a transaction holds uncommitted, `txTable`
and `blockTable` what readers see. An insert of a key that is committed fails; of
one that another transaction holds it waits for the end of that transaction, or
fails if `LockTimeout` says that such a wait may run out. `Holding` are the goroutines that keep a
connection of the pool, from `Begin` to `Commit`; `Begin`, the query of `syncBlock` (`SyncHeight`) and
that of `mysql.TxNumber` (in `Visit`) wait for `FreeConn`. `ConnLost` rolls a
transaction back behind the goroutine's back. `Crash` throws away everything but
the tables and the ledger. The ledger grows by `CutBlock`; a block holds a
transaction of this server only after `InvokeCC` stored its attribution
(`Submit`).

Left out: block times, hashes and balances (data of a row that no decision
depends on); `GetBlockHeight`'s `QueryValue` treats an error while it iterates
over the rows as the end of them, which is not modelled.

### InvokeCC, TokenContract, TokenLedger

An invocation is a goroutine and its transaction: `start` -> `execute` -> `wait` ->
`ok` or `error`.

| action | code |
|---|---|
| `AskPeers` | `fabsdk.go` 170-190: getPeers at peer0.org1, whose error is ignored |
| `Execute` | 197-224 and, in the SDK, `SendProposal`, `validate`, `New`, the broadcast |
| `ExecuteFails` | an endorser or the orderer does not answer |
| `Reply`, `Timeout` | `CommitTxHandler`, `InvokeHandler` |
| `Order`, `CatchUp` | external: ordering, validation, commit on the peers |

`states` is the history of the token and a version is an index into it; `at` is
the version each peer has. A peer in `Laggards` commits at its own pace, and
answers from any version it had between the question and the moment the last
endorser answers; the other peers commit with the orderer and answer at that
moment. With `Laggards = Orgs` this is every way the peers can answer, and the
proofs hold for every `Laggards`. `asked` is bookkeeping for it and is forgotten
when the answers are in.

The peers are not in the repository. They are modelled as Fabric peers: they run
the chaincode on what they have committed, a transaction is valid if `OutOf`
endorsements are for what it carries and nobody wrote the token since the version
it read. A peer that is byzantine in the token it reads answers a request with the
flag with `Forged`: every account holds the whole supply. What the forged value is
does not matter to the proofs beyond its type; that the byzantine peers agree on it is an
assumption, and the one `InvokeCC` is written for.

### Statistics

An invocation is a goroutine that has called `Execute`; `Byzantine` is the length of its
`bPeers`, `Sender` who called `InvokeCC` (`timerTask`, the handler `invoke`, `muma`).

| action | code |
|---|---|
| `Succeed`, `Fail` | `Execute` returns, `fabsdk.go` 226 |
| `Visit`, `Send`, `EndRange` | `TxChans.Range` of the error path, 228-238 |
| `Lookup` | `GetTable`: the pointer in the map, or a new table that is not in it |
| `Load`, `Store` | a read and a write of `t.NormalTx++` and the three like it |
| `Assign`, `Insert`, `Put` | `StatisticsTable[num] = t`: the map is marked as written, has the key, has the pointer |
| `Peek` | `ByzantineNum`, whose lookup has no effect but can be noticed |
| `Request`, `MarshalRow`, `MarshalField`, `EndRow`, `Respond` | `json.Marshal(StatisticsTable)` in `getStatistics` |
| `Subscribe`, `Hear`, `Written`, `Unsubscribe` | the handler `transaction` |

`table` is the map and `heap` the memory the pointers lead to, where a table is named by
the call that made it. The code has data races, so each access is a step and what the
Go runtime may make of a race is a choice: a goroutine that uses the map between
`Assign` and `Insert` of another may be caught (`Throws`: the process ends, `alive`) or
go on; a lookup may miss a key then; between `Insert` and `Put` the key is there with a
nil pointer. Two writers of the map at once end the model in either case: if the runtime misses it,
nothing can be said about the map any more. A nil pointer makes `t.NormalTx++` panic, which
`net/http` catches in a handler and nobody in the goroutine of the timer. Counters are read and
written whole (64 bits). One request for `/statistics` at a time is enough, because readers
change nothing. `raced` and `watched` are bookkeeping: whether two invocations, or an
invocation and a reader, have overlapped so far.

Left out: the time stamp of a table; the width of the counters, which do not overflow.

### Console

A request is a goroutine; `pc` is where it is, `reg` the register of `timerControl`, `body`, `tx`,
`todo` are muma's. `told`, `since`, `late`, `ever`, `lost` are bookkeeping: what each request was answered
on the timer, who has written `timerFlag` last or read it for an answer since, how many transfers the
timer has started since it was switched off, the peers any `muma` made byzantine in the token, the names
whose update failed.

| action | code in `main.go` |
|---|---|
| `Check`, `Tick` | `timerTask`: the look at `timerFlag`, and the `go` statement that starts the transfer |
| `Press`, `Switch`, `LookAgain` | `timerControl`: the read and the write of `timerFlag = !timerFlag`, the second read for the answer |
| `ControllerState` | `controllerState`: the read for the answer |
| `Answer` | the answer of either, written some time after the read |
| `Preflight`, `Muma` | the early returns of `muma`, 98-107; the call of `InvokeCC` |
| `Commit` | `setPeer` of the token takes effect, also after the caller got an error |
| `Refuse`, `Accept` | the error path, 112-115; the success, 116-123 |
| `UpdatePeers`, `Respond` | `mysql.UpdatePeers` for one name, which may fail; 129-131 |
| `Open`, `Turn` | `blockPage`, `transactionPage` (they differ in the table): the first request, which refuses sizes below 1, and each further page |
| `Insert`, `Restart` | a row is recorded, anywhere; the process ends and starts again |

`timerFlag` is a byte: the accesses race, but each is whole, so that the model has an interleaving
of reads and writes. Nothing orders the answer after the reads and writes of other requests, so that an
answer may be out of date when it is written. A browser that turns the pages until one is not full is an assumption about the
browser; the page it is shown is the code's. A body of `muma` is a set of names that become good and
one that become bad; that its JSON can be read is assumed, because `setPeer` has read it before.

### ProtoUtil, ProposalFlow

`ProtoUtil` has one operator for each function of `protoutil` that does more than one access, with
the same name. Messages are records with a `kind`; their bytes are the message itself, except that a
message of defaults has no bytes, which reads as such a message of any kind: this is what the
functions that check for empty fields are about. A hash and a signature are records of what they
were computed from. An error is the value `Error`, as is a panic.

`ProposalFlow` uses them as their callers do:

| action | code |
|---|---|
| `Propose`, `ProposeAs`, `ProposeLifecycle` | the constructors of `proputils.go`, with `GetSignedProposal` |
| `Endorse` | `CreateProposalResponse`, `CreateProposalResponseFailure` |
| `Assemble` | `CreateSignedTx`, on any responses there are, for any proposal, by any client |
| `SendConfig`, `SendJunk` | `CreateSignedEnvelope`; entries nobody can read |
| `Cut` | the orderer: `NewBlock`, the two hashes, the metadata of orderers before and since 1.4.1 |

The readers (`GetActionFromEnvelopeMsg`, `EnvelopeAsSignedData`, `GetOrComputeTxIDFromEnvelope`,
`GetChainIDFromBlock`, `ExtractEnvelope`, `IsConfigBlock`, the metadata functions) have no state; they
occur in the properties, applied to everything that was sent or cut. `CopyBlockMetadata` gives both
blocks it leaves behind: they share their metadata, so that the source is extended as well.

Left out: versions, epochs, timestamps, error texts, chaincode events, the constructors of
`configtxutils.go`, accessors of a single field.

### ExampleCC, ExampleLedger

A transaction is executed (`Endorse`) on any state of the channel so far by the functions
`InitLedger`, `Move`, `Delete`, `Query`, which translate the chaincode's methods, and then either
valid (`Commit`) or not (`Invalidate`), by the peers' check that what it read has not been written
since. `chain` is the history of states; `by` says who wrote a key, which is its version. What an
operation refuses (an unknown entity, an argument that is no number) fails at execution. Moving something
to oneself increases what one holds, in the code and in `ExampleLedger` (`Gain`). Left out: the width of
integers.

### Bootstrap

One operator, one script at a time: `pc` is the function of `utils.sh` or `script.sh` it is in,
`org` the organisation of the loop, `counter` and `res` are the shell's global variables,
`depth` counts the frames of `joinChannelWithRetry` that still have to return, `failed` is the
function whose `verifyResult` ended the script.

| action | code |
|---|---|
| `Start`, `StartTransfer` | an operator runs `script.sh`, `transfer.sh` |
| `CreateChannel`, `UpdateAnchorPeers`, `InstallChaincode`, `InstantiateChaincode`, `IssueToken` | the functions, one call of `peer` each, with `verifyResult` |
| `Join`, `JoinVerify` | `joinChannelWithRetry` to its recursive call or the end of its `if`; its last line, once in each frame |
| `ChaincodeInvoke`, `ChaincodeQuery` | `transfer.sh` 47, 52 |
| `Commit`, `Other` | external: a peer commits the next transaction; a transaction of the server |

`Command` says what a call of `peer` can do: work; be refused, because the channel exists, the
peer has joined, the chaincode is installed or instantiated, or an endorser cannot execute it;
or fail for another reason (`faults`), before or after it has had its effect. `chain` holds
the transactions about the token as they are ordered, `at` how many each peer has committed. A
version of the token is the set of writes that led to it; a transfer is valid if enough
organisations endorsed it and the version they read is still the last. `tries` and `said` are
bookkeeping for the properties.

Left out: the functions of `utils.sh` that nothing calls (`upgradeChaincode`,
`fetchChannelConfig`, `signConfigtxAsPeerOrg`, `createConfigUpdate`; the call of `setPeer` is
commented out), the choice of TLS arguments, the sleeps (they promise nothing: any peer may
be behind at any step).

## Runs

| run | instance | properties |
|---|---|---|
| `bl_recovery` | 3 blocks, one of them with an own and a foreign transaction, one crash | `NoSyncPanic`, `AnnouncedRecorded`, `RowsFaithful`, `BlockRowsComplete`, `StoreSpec` |
| `bl_faults` | a block of 3 own transactions, the first with an undecodable payload, the last with an undecodable envelope; two goroutines, a pool of two connections, a page that shows `mysql.TxNumber`; two lost connections or failed registrations, lock waits that may time out, one crash | `TxListConsumed`, `JobsSettle`, `RecordedOrMissed` |
| `bl_pool` | 3 blocks, one of two transactions; up to four goroutines, a pool of two connections, a transaction page that may leave, lock waits without end, one crash | `JobsSettle`, `RecordedOrMissed` |
| `ic_attack` | an attack, an honest transfer and a `setPeer` that changes three peers; 0, 3, 4, 5, 6, 7 or 10 byzantine peers at first; org1's peer lags; one failure | `AttackNeedsPolicy`, `CountedRight`, `AcceptedIsEndorsed` |
| `ic_honest` | two transfers of 10 from a balance of 15, a `setPeer` that turns one peer and one that names a stranger; at most 5 byzantine peers; org1's peer lags; one failure | `TypeOK`, `AnswerInLedger`, `Conserved`, `LedgerSpec` |
| `st_counts` | a transfer of the timer, an attack and a `muma` that may fail, all with seven byzantine peers and so in one row, while `/statistics` is read and a transaction page opens, hears and closes | `NeverOvercounts`, `SafeAlone`, `ExactAlone`, `ShownTrue`, `CallsSettle` |
| `bs_scripts` | 4 organisations, 2 attempts to join, `script.sh` and `transfer.sh` twice each, a transfer of the server, 2 faults | `GoodMeansReady`, `GivesUpAfterMaxRetry`, `IssuedOnce`, `AnnouncedUnlessConflict`, `ScriptsEnd` |
| `bs_announced` | no faults; one transfer of `transfer.sh` and one of the server | `AnnouncedSucceeds`, which is violated |
| `pf_flow` | two clients, two endorsers, two proposals, transactions of up to two responses, two envelopes; executions that succeed, differ or fail | `HashBindsResponses`, `EndorsementsVerify`, `EnvelopesVerify`, `TxIDBinds`, `ReadersAgree`, `MetadataReadable` |
| `co_timer` | three requests that press or ask, four ticks, a restart | `ToldTheTruth`, `StoppedStops` |
| `co_console` | three requests of any kind, two peers, pages of size 0, 1, 2 over up to three rows, a failing update, a crash; no ticks | `ListedWereByzantine`, `UnlistedExcused`, `WalkComplete`, `RepeatsBounded` |
| `ex_serial` | three calls on two entities with the amounts 5 and -2 | `Serial` |

The type invariants, the inductive invariants, and the properties that follow from what a run checks
(`TxRowsHaveBlock`, `AcceptedListed`, `OnlyInitCreates`, `NoSendToDeparted`, `TransientStaysPrivate`)
are not in the runs but proved, see below; to try a change to one of them, add it to a `.cfg`. The
type invariant of `InvokeCC` is in `ic_honest`, because it is what shows that `setPeer` refuses strangers.

What they show:

* Readers of the explorer see a block whole, once and for good, through twin
  goroutines and crashes (`StoreSpec`), and never hear of a block they cannot find
  (`AnnouncedRecorded`). This ends where an insert can fail for a reason other
  than a duplicate: the code logs the error and commits the rest. `bl_faults`
  shows what survives a lost connection and a lock wait that times out: `TxList` is emptied, and a block
  that stays out is accounted for. `RowsFaithful` holds then too: no row is ever wrong (`Faithful` below).
* `RecordedOrMissed` names the blocks that are not recorded, and shows they are the only ones: holes below
  the highest recorded number, which a crash has left; blocks cut between `syncBlock`'s question and the
  event after the listener's first, or all of them if its registration failed (`Missed`); blocks whose
  rows MySQL dropped with a connection (`Lost`); and blocks whose goroutines wait behind a browser that
  has gone (`Waiting`). Each of these cases occurs in `bl_pool` or `bl_faults`: without it the
  property fails there. Only that `syncBlock` itself waits for the pool (the second part of `Waiting`) is not needed
  there: it takes one connection, and two transactions in the last block instead of the one before it.
* A browser that goes away strands the goroutines that had picked its channel before, and no others
  (`NoSendToDeparted`). But one that is stranded inside its database transaction keeps a connection and row
  locks: its twin waits for the rows if lock waits do not run out, and when as many as the pool has
  connections are stranded, everybody waits, in `Begin`, in `mysql.TxNumber` or in `syncBlock`. `JobsSettle` says that this
  is the only way in which a goroutine does not end: they never wait for each other alone. In `bl_pool` the
  browser strands goroutines inside their transactions, in `bl_faults` twins meet at `mysql.TxNumber`,
  which would take them a second connection each if it were asked before `Commit`. A goroutine that waits
  there for connections that stranded ones keep (`WaitsForConn`) takes pages of both kinds, and is in neither run.
* The attack changes the ledger with seven or more byzantine peers and with no
  fewer, and is then counted (`CountedRight`), unless the peers are changed while
  it is under way; and even then `OutOf` of them are needed
  (`AttackNeedsPolicy`). The thresholds of `validate` fit: when nobody lags, nothing is
  ordered that the peers would refuse (`AcceptedIsEndorsed`).
* Below the policy's threshold the network is an atomic ledger (`LedgerSpec`):
  a timeout, a conflict and a lagging peer lose or double nothing.
* The races on the statistics lose counts and never invent one (`NeverOvercounts`), and
  the page never shows more than was counted (`ShownTrue`); where nothing overlaps, both
  are exact (`ExactAlone`), with the threshold for a committed attack. The process can be
  ended by counting, but it takes an overlap (`SafeAlone`).
* Whoever has switched the timer last, or has looked at it since, is answered with what it does
  (`ToldTheTruth`), although the accesses race: `timerControl` reads `timerFlag` again for its answer. Two presses that overlap may
  count as one, and an answer that is written late may be out of date: the last answer to arrive need not be
  true. While an answer "false" is still true, the timer starts at most one more transfer, which it had decided on before
  (`StoppedStops`).
* The table `peer` calls a peer byzantine only if the token did once (`ListedWereByzantine`); the token
  can call one byzantine that the table does not, and `UnlistedExcused` is the list of ways in which
  this comes about: a failed update, a request that got an error or crashed although its `setPeer` was
  committed, a request still under way. Who is told of a success has his rows (the theorem `SuccessIsListed`).
* Turning the pages shows everything that was there at first, also while rows are added, and shows
  rows again only as often as rows were added (`WalkComplete`, `RepeatsBounded`).
* `CreateSignedTx` takes the responses to any proposal; what it lets through is caught by the hash, and
  by nothing but it (`HashBindsResponses`). Transient data is stripped on every way, and the two
  functions that hash agree about it. Readers of a block agree on its channel (`ReadersAgree`), also for
  an envelope with an empty header, and find the metadata of orderers of either age, in a copy and in what it was
  copied from.
* The example chaincode is a ledger that works call by call (`Serial`), whatever old states the
  endorsers answer from.
* A failed invocation returns to its caller, past pages that come and go, unless a page
  leaves that it had picked already (`CallsSettle`).
* "All GOOD" of `script.sh` is true although nothing waits: the channel, all peers, anchors and
  chaincodes are there and a valid token is ordered (`GoodMeansReady`), which all peers come to
  have if they commit what is ordered. A run that fails between is not repaired by another run, which ends at
  `createChannel`; but this is also why the token is never issued twice (`IssuedOnce`).
* `transfer.sh` says "Invoke transaction successful" (`scripts/utils.sh` 359) when the orderer
  has accepted the transaction. `bs_announced` shows a transfer of the server that is ordered
  before it, so that the peers refuse it for its stale read; the query that would show it ("check if the
  result is 90", `transfer.sh` 50) is printed and not checked. `AnnouncedUnlessConflict` says that
  this is the only way, as long as `transfer.sh` asks as many organisations as the policy wants:
  it asks 6, and the policy wants 6, but 7 without TLS.

**Bounds.** `MaxHeight`, `MaxCrashes`, `MaxFaults`, the number of invocations and
the sets of transactions and browsers. Two blocks above the genesis block are
what the start-up race needs (one recorded or skipped, one in between), and a
block with two or three transactions is what inherited attributions, partial rows and a goroutine
stranded with rows locked need; a second crash meets the state of the first with fewer goroutines.
There are ten peers in every instance, as in the network; one laggard, org1's, is the one
`getPeers` asks. Three invocations let a change of peers fall between an attack's question and its
endorsement; four let two transfers, one refused request and a change of peers
conflict. Three calls in one row are what it takes to lose a count
twice (a stale read and a replaced table); seven byzantine peers are the first row in which an attack
counts as committed, and the theorems cover any rows. Three requests in `Console` let a third fall
between two that overlap; three rows and pages of one or two give a walk with a row inserted at, above
and below the page it is at; size 0 is refused. In `ProposalFlow` two proposals, two answers to
a transaction and two envelopes are what it takes to mix them up and to cut a block of two; the run is
bounded by four messages in all. Three transactions of the example chaincode let one be
committed between the execution and the commit of another, on an entity that a third created or deleted; four organisations are enough for a first, a middle and a last turn of the
loops and one that `transfer.sh` does not ask; the policy is as large as what it asks, as 6 is in the network. Two
faults exhaust the attempts at one peer, or make one peer need its last attempt after another did. `MaxOpenConns` is 10000 in `app.yaml`; 2
make the pool run dry, with goroutines left that wait for it: four goroutines meet two connections in `bl_pool`. Three
blocks make a crash leave a hole. Four ticks let a transfer be late in two lives of the process and more follow.

**Deadlock** is not checked: all blocks processed, all invocations answered, or all scripts
run, is a legitimate end.

**Fairness** is assumed for the goroutines of the server only: `Listen`, `Sync`, each
`updateBlock`, each invocation in `Statistics` and each websocket handler takes a step if
it can for ever, which the Go scheduler guarantees. `Send` in `Statistics` is strongly fair: the
page is ready again and again, other senders may come first, and a Go channel serves its
waiting senders in the order in which they came. Nothing forces the network to cut blocks, a browser to
connect, a connection to break or the process to crash. A write to a browser may
succeed or fail but returns. That `Execute` returns is not assumed: an invocation is
followed from its answer on. `InvokeCC`, `Console`,
`ProposalFlow` and `ExampleCC` have no liveness property and no fairness. In `Bootstrap`, a
script takes its next step (its commands return, with or without success) and a peer that has joined commits what is
ordered; that anyone runs a script is not assumed.

## Proofs

All theorems hold for every value of the constants that the named assumptions
(`ConstantsAssumption`, `InvokeAssumption`, `StrangersAssumption`,
`NoTokenAssumption`, `AccountsAssumption`, `StatisticsAssumption`, `BootstrapAssumption`,
`ConsoleAssumption`, `ExampleAssumption`, `ErrorAssumption`, `FlowAssumption`, `JunkAssumption`) allow;
TLC evaluates each of them on the instances it runs. What a theorem asks beyond them is in its table.

`BlockListener_proofs`:

| theorem | property |
|---|---|
| `Inductive` | `IInv` |
| `TypeCorrect` | `TypeOK` |
| `NeverPanics` | `NoSyncPanic` |
| `BlocksComplete` | `BlockRowsComplete` |
| `RowsHaveBlock` | `TxRowsHaveBlock` |
| `AnnouncementsTrue` | `AnnouncedRecorded` |
| `Faithful` | `RowsFaithful` |
| `ListConsumed` | `TxListConsumed` |
| `NobodyDeparted` | `NoSendToDeparted` |
| `ImplementsStore` | `StoreSpec`, if lock waits do not run out and as long as no fault has happened |

None of these is inductive alone. That a committed block is complete needs to
know what its goroutine has seen to at each point: every transaction before the one it
handles is committed or among its own uncommitted rows (`CoverInv`; the step where an insert is
refused as a duplicate is the hard one: the twin that holds the key has committed,
and had it all). That its rows are right needs whom its variables may name (`AttrInv`,
`DirtyInv`), and that the heights fit needs that nothing is processed that is not on the
ledger (`LedgerInv`), which needs how goroutines are started (`SpawnInv`,
`StartInv`). The proof goes action by action; lemmas about what one goroutine's step
leaves alone (`JobMoves`, `Elsewhere`, `Grow`) keep the cases short.

That `TxList` is emptied needs to know of each position of the loop which attributions are gone
(`ConsumeInv`): one that was never stored cannot be stored any more, because its transaction is on the
ledger, and one that a twin has dropped stays dropped. A browser is picked only out of those that are
registered, and one that is gone never is (`Registered`). For `ImplementsStore` the visible transactions of a block are a
function of the blocks recorded: every row belongs to a block that was kept whole (`KeptInv`,
`CoverInv`) and no two transactions share an index (`TxIndexInjective`, which needs
`TxNumPerBlock`), so the commit of a goroutine is either the store's `Record` of its block or, by the
second twin, no change at all.

`InvokeCC_proofs`:

| theorem | property |
|---|---|
| `InvokeInductive` | `IInv` |
| `InvokeTypes` | `TypeOK` |
| `AttacksNeedPolicy` | `AttackNeedsPolicy` |
| `CountsRight` | `CountedRight`, for `OutOf >= 4` |
| `AnswersTrue` | `AnswerInLedger` |
| `AcceptedEndorsed` | `AcceptedIsEndorsed`, for `OutOf <= 7` |
| `ImplementsLedger` | `LedgerSpec`, if fewer than `OutOf` peers are ever byzantine |
| `MoneyConserved` | `Conserved`, if moreover the first token is balanced |

The invariant keeps, for a transaction that was executed, what its endorsements
say (`Endorsed`): the endorsers in `matching` answered, from the version it read,
what it writes, and the others are not 4 to 6. The ledger only grows, so this stays true
(`Unconcerned`). `WhatIsWritten` then reads off what a transaction with enough
endorsements wrote: one honest endorser that agrees makes it the chaincode's
result, so anything else needs `OutOf` byzantine ones. `CountsRight` splits on the number
b of byzantine peers: from 7 on only they endorse, up to 3 none of them does, and in
between all ten endorse, at least four agree (the policy), so that at most six differ,
so at most three (`validate`), so seven agree and one of them is honest. `AcceptedEndorsed` counts the other way: nobody
lags, so all honest peers agree (`SameKindAgrees`), and with them or with the byzantine ones whoever
answered first; of ten that answered, those agree that are at least as many as the honest, or as the byzantine
ones, and not 4 to 6 short of ten, which leaves seven (`AgreeingEnough`). `ImplementsLedger` maps the last
version to the ledger and the valid transactions to those done; ordering a valid
transaction is a step of the ledger, everything else stutters.

`MoneyConserved` needs to know what the sum over all accounts is, which the model writes as a
fold. That the fold adds up, whatever account it takes next, cannot be shown by the library's
induction theorems; it is shown by a least counterexample: among the sets of accounts on which it fails, one
of least cardinality, from which one account is taken away (`SetLemmas`, the cardinality theorems). Then crediting an account adds to
the sum of every set that has it and to no other, a transfer is a debit and a credit, and what is
ordered is either such a step or a change of peers (`WhatIsWritten`). The first token is balanced if `issue` made
it with a supply that is not negative (`IssueBalances`), as `instantiateChaincode` does; `MCInvokeCC` asserts it of its instances.

`Statistics_proofs`:

| theorem | property |
|---|---|
| `StatisticsInductive` | `IInv` |
| `NoOvercount` | `NeverOvercounts` |
| `AloneExact` | `ExactAlone` |
| `ShownIsTrue` | `ShownTrue` |
| `AloneIsSafe` | `SafeAlone` |
| `StatisticsTypes` | `TypeOK` |
| `NobodyDeparted` | `NoSendToDeparted` |

A counter is bounded by the number of invocations that have passed their increment
(`Counted`, a set that only grows: `Cards`), and so must be what an increment has read, or
a write could exceed it (`Bounded`). `StoreAdds` says that a store adds exactly the storing
invocation to exactly one such set; that the table belongs to the row is `OneRow`. Exactness
needs more: without an overlap the one invocation that counts works on the row's table, or on a
fresh one that is still zero (`Fresh`, `Exact`), and the reader holds a row that nobody replaces
(`ShownExact`). `Noted` ties the program counters to the two flags, and a nil pointer in the
map to an invocation that is about to replace it.

`Bootstrap_proofs`:

| theorem | property |
|---|---|
| `BootstrapInductive` | `IInv` |
| `BootstrapTypes` | `TypeOK` |
| `GoodIsReady` | `GoodMeansReady` |
| `RetriesCounted` | `GivesUpAfterMaxRetry` |
| `TokenIssuedOnce` | `IssuedOnce` |
| `AnnouncedTrue` | `AnnouncedUnlessConflict`, for `OutOf <= NumInvoke` |

That the end of the script means what it says needs, at every function, that the loops before
it are done (`Done`); that a counter shared by all peers counts the attempts at one needs that it is 1
whenever a join begins and that no frame changes it on its way back (`Counts`). An issue is ordered
only by a run that made the channel and is then over (`Once`), and no later run makes it again.
`AnnouncedTrue` rests on the chain only growing (`Prefix`): the version before a transaction
stays what it was when the transaction was ordered.

`Console_proofs`:

| theorem | property |
|---|---|
| `Invariance` | `IInv` |
| `ConsoleTypes` | `TypeOK` |
| `AnswersAreTrue` | `ToldTheTruth` |
| `AtMostOneLate` | `StoppedStops` |
| `ListedByToken` | `ListedWereByzantine` |
| `DriftExplained` | `UnlistedExcused` |
| `SuccessIsListed` | `AcceptedListed` |
| `WalksAreComplete` | `WalkComplete` |
| `RepeatsAreFew` | `RepeatsBounded` |

The timer (`TimerInv`): a request is answered last of all, and until then what it has seen is what the timer does,
unless someone has switched it since the request looked. A timer that is stopped has started one transfer since,
or is about to start one (it had looked before), and never both; so at most one is late.

The registry rests on what a request that lists has left to do: a name it was sent is listed, lost or
still in `todo`, and all of it was byzantine once. `WalksAreComplete` needs that a row a browser has not seen
is below the page it asks for (`WalkInv`): inserting rows only increases how many lie above a row. Then a
page that is not full leaves no row below itself, which is a fact about counting; it is proved
from the cardinality theorems, for every page size. `RepeatsAreFew` bounds the running count: the first k rows of
a table are k rows, or all there are, so that a page shows its size and no more; a row on it was seen before only
if rows above it were recorded since, and what is still to come of the rows that were there at first
makes up for the difference.

`ExampleCC_proofs`:

| theorem | property |
|---|---|
| `Invariance` | `IInv` |
| `ExampleTypes` | `TypeOK` |
| `SerialExecution` | `Serial` |
| `DeletedStays` | `OnlyInitCreates` |

A key that has the same version in two states holds the same in both (the writer of a key is a
transaction that was committed once), so an execution that is still current reads what it would read
now, and writes what it would write now; that is a step of `ExampleLedger`.

`ProposalFlow_proofs`, each if `Nil` and `Error` are no records (`Atoms`: the model values of the
instance are none, but TLC cannot evaluate the sentence, as it takes the domain of each):

| theorem | property |
|---|---|
| `MessagesReadBack` | `FlowInv` |
| `HashesBind` | `HashBindsResponses` |
| `EndorsementsAreGood` | `EndorsementsVerify` |
| `TransientIsPrivate` | `TransientStaysPrivate` |
| `SignaturesVerify` | `EnvelopesVerify` |
| `IdentifiersBind` | `TxIDBinds` |
| `BlocksAreWellFormed` | `FlowInv` and `ChainInv` |
| `ReadersNameOneChannel` | `ReadersAgree` |
| `CopiesAreReadable` | `MetadataReadable` |

They hold for any clients, endorsers, results and unreadable entries, and without the bounds on messages. There
is no type of all messages; instead, `FlowInv` says of each proposal, answer and entry how it reads,
layer by layer, as what it was made from (`ProposalOK`, `AnswerOK`, `TxOK`, `ConfigOK`), and that no two
proposals share a nonce. Lemmas on `Marshal` and `Unmarshal` carry this through `CreateSignedTx`
and `GetBytesProposalPayloadForTx`; a message that is all default is the empty string, which is
where they are not inverses without a condition. That the hash and the identifier bind is then
that their input differs: two proposals differ in the nonce in their header. `ChainInv` adds that a block has
an entry, that a configuration in it is one of this channel, that its metadata names a configuration
block that is in the chain by then (the greatest there is, `SetLemmas`), and that no more entries are in
the chain than were submitted, so that a block is cut from what there is. Sending never touches the chain and cutting nothing else, so each
of the two invariants is shown against one half of the actions. TLC finds both to hold on `pf_flow`'s instance.

**Only model-checked:** liveness (`RecordedOrMissed`, `JobsSettle`, `CallsSettle`, `ScriptsEnd`), which the
provers cannot reach for want of `ENABLED`; what these say of pools, browsers, faults and crashes is shown for the
instances of their runs and for no others. `AnnouncedSucceeds` is violated. Every other property of a run is
also stated by a theorem.

## Not modelled, and the plan

What could come next: the composition of `InvokeCC` with `BlockListener` over one `TxList`, where today one
has the other's part as an action.

Not planned: the pages that only read one value, logging and configuration (no state that
changes), the constructors of `configtxutils.go` (they build constants), the SDK's discovery and transport,
and the peers and the orderer beyond what the programs here see of them.
