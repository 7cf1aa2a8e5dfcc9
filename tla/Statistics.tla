------------------------------ MODULE Statistics ------------------------------
(***************************************************************************)
(* The end of an invocation: what InvokeCC (server/fabsdk.go 226-267) does *)
(* once the SDK has answered.  A failure is sent to every transaction page *)
(* over its unbuffered channel; a transfer is then counted in              *)
(* StatisticsTable (server/statistics.go), a map from the number of        *)
(* byzantine peers to a pointer to four counters, which /statistics        *)
(* marshals.                                                               *)
(*                                                                         *)
(* Neither the map nor the counters are locked.  Two increments may lose   *)
(* one; two lookups that miss make two tables of which one survives; the   *)
(* runtime may notice that the map is used while it is written, and then   *)
(* ends the process.  Each of these is an outcome here.                    *)
(*                                                                         *)
(* A definition marked (mutant) is no part of the specification: it is the *)
(* next definition with a bug the properties have to notice.               *)
(***************************************************************************)
EXTENDS Integers, Sequences, FiniteSets

CONSTANTS
  Calls,       (* invocations                                               *)
  Sender,      (* who called InvokeCC: timerTask, invoke or muma            *)
  Byzantine,   (* len(bPeers) of each invocation                            *)
  Pages,       (* websocket connections of handler transaction              *)
  NoPage,      (* not a page                                                *)
  Absent,      (* a key the map does not have                               *)
  Nil          (* a key that is in the map while its value is not yet       *)

ASSUME StatisticsAssumption ==
  /\ IsFiniteSet(Calls)
  /\ Sender \in [Calls -> {"timer", "invoke", "muma"}]
  /\ Byzantine \in [Calls -> 0..10]
  /\ NoPage \notin Pages
  /\ Absent \notin Calls /\ Nil \notin Calls /\ Absent # Nil

VARIABLES
  pc,       (* where each invocation is                                     *)
  ok,       (* did Execute return without error?                            *)
  todo,     (* pages its Range has still to visit                           *)
  tgt,      (* the page it is sending to                                    *)
  t,        (* its variable t: a table, named by the call that created it   *)
  reg,      (* the value an increment has read                              *)
  table,    (* StatisticsTable                                              *)
  heap,     (* the counters of each table                                   *)
  rest,     (* getStatistics: the keys it has still to marshal              *)
  row,      (*   the table it is marshalling, Absent between two            *)
  shown,    (*   the counters of that table, in the order they were read    *)
  busy,     (*   is it running?                                             *)
  chans,    (* keys of TxChans                                              *)
  ws,       (* the handlers transaction: where each one is                  *)
  alive,    (* FALSE: the runtime has ended the process                     *)
  raced,    (* bookkeeping: did two invocations count at the same time?     *)
  watched   (*   did a reader and an invocation?                            *)

locals == <<ok, todo, tgt, t, reg>>
counts == <<table, heap>>
reader == <<rest, row, shown, busy>>
hub    == <<chans, ws>>
notes  == <<raced, watched>>
vars   == <<pc, locals, counts, reader, hub, alive, notes>>

-----------------------------------------------------------------------------
Transfers == {c \in Calls : Sender[c] # "muma"}
PeerType(c) == IF Sender[c] = "invoke" THEN 1 ELSE 0

\* the fields of Statistics in the order in which they are declared, and so
\* marshalled: the counter and the peerType it is for
Fields == << <<"tx", 0>>, <<"commit", 0>>, <<"tx", 1>>, <<"commit", 1>> >>
Field  == {"tx", "commit"} \X {0, 1}
Zero   == [f \in Field |-> 0]

\* a successful attack counts as committed only above the threshold
CommitsAbove(c) == ok[c] /\ (PeerType(c) = 0 \/ Byzantine[c] > 7) \* (mutant)
Commits(c) == ok[c] /\ (PeerType(c) = 0 \/ Byzantine[c] >= 7)

Section  == {"tx", "txStore", "commit", "commitStore", "assign", "insert", "put"}
Counting == {c \in Calls : pc[c] \in Section}
Writing  == {c \in Calls : pc[c] = "insert"}     \* between the two ends of mapassign

Init ==
  /\ pc = [c \in Calls |-> "execute"]
  /\ ok = [c \in Calls |-> FALSE]
  /\ todo = [c \in Calls |-> {}]
  /\ tgt = [c \in Calls |-> NoPage]
  /\ t = [c \in Calls |-> Absent]
  /\ reg = [c \in Calls |-> 0]
  /\ table = [n \in 0..10 |-> Absent]
  /\ heap = [c \in Calls |-> Zero]
  /\ rest = {} /\ row = Absent /\ shown = <<>> /\ busy = FALSE
  /\ chans = {} /\ ws = [s \in Pages |-> "off"]
  /\ alive = TRUE /\ raced = FALSE /\ watched = FALSE

Goto(c, l) == pc' = [pc EXCEPT ![c] = l]

\* a goroutine about to use the map finds the runtime's mark of a write
Throws ==
  /\ Writing # {}
  /\ alive' = FALSE

-----------------------------------------------------------------------------
(* The answer of Execute and the broadcast of a failure.                   *)

\* without an error: a transfer is counted, muma starts ByzantineNum
Succeed(c) ==
  /\ pc[c] = "execute"
  /\ ok' = [ok EXCEPT ![c] = TRUE]
  /\ Goto(c, IF c \in Transfers THEN "lookup" ELSE "peek")
  /\ UNCHANGED <<todo, tgt, t, reg, counts, reader, hub, alive, notes>>

\* with an error: TxChans.Range visits the keys the map has when it starts
Fail(c) ==
  /\ pc[c] = "execute"
  /\ todo' = [todo EXCEPT ![c] = chans]
  /\ Goto(c, "range")
  /\ UNCHANGED <<ok, tgt, t, reg, counts, reader, hub, alive, notes>>

\* a key that is gone is passed over
VisitAgain(c) ==                     \* (mutant) starts over after every key
  /\ pc[c] = "range" /\ tgt[c] = NoPage
  /\ \E s \in todo[c] :
       /\ tgt' = [tgt EXCEPT ![c] = IF s \in chans THEN s ELSE NoPage]
  /\ UNCHANGED <<pc, ok, todo, t, reg, counts, reader, hub, alive, notes>>

Visit(c) ==
  /\ pc[c] = "range" /\ tgt[c] = NoPage
  /\ \E s \in todo[c] :
       /\ todo' = [todo EXCEPT ![c] = @ \ {s}]
       /\ tgt' = [tgt EXCEPT ![c] = IF s \in chans THEN s ELSE NoPage]
  /\ UNCHANGED <<pc, ok, t, reg, counts, reader, hub, alive, notes>>

Send(c) ==
  /\ pc[c] = "range" /\ tgt[c] # NoPage
  /\ ws[tgt[c]] = "ready"
  /\ ws' = [ws EXCEPT ![tgt[c]] = "writing"]
  /\ tgt' = [tgt EXCEPT ![c] = NoPage]
  /\ UNCHANGED <<pc, ok, todo, t, reg, counts, reader, chans, alive, notes>>

EndRange(c) ==
  /\ pc[c] = "range" /\ tgt[c] = NoPage /\ todo[c] = {}
  /\ Goto(c, IF c \in Transfers THEN "lookup" ELSE "done")
  /\ UNCHANGED <<locals, counts, reader, hub, alive, notes>>

-----------------------------------------------------------------------------
(* Counting a transfer.                                                    *)

\* GetTable: the pointer in the map, or a new table that is not in the map.
\* A lookup during a write is noticed by the runtime, or may miss a key.
LookupFresh(c) ==                    \* (mutant) never looks into the map
  /\ pc[c] = "lookup"
  /\ raced' = (raced \/ Counting # {})
  /\ watched' = (watched \/ busy)
  /\ t' = [t EXCEPT ![c] = c] /\ Goto(c, "tx")
  /\ UNCHANGED <<ok, todo, tgt, reg, counts, reader, hub, alive>>

LookupNil(c) ==                      \* (mutant) a miss returns the zero value
  /\ pc[c] = "lookup"
  /\ raced' = (raced \/ Counting # {})
  /\ watched' = (watched \/ busy)
  /\ t' = [t EXCEPT ![c] = IF table[Byzantine[c]] = Absent THEN Nil
                           ELSE table[Byzantine[c]]]
  /\ Goto(c, "tx")
  /\ UNCHANGED <<ok, todo, tgt, reg, counts, reader, hub, alive>>

Lookup(c) ==
  /\ pc[c] = "lookup"
  /\ raced' = (raced \/ Counting # {})
  /\ watched' = (watched \/ busy)
  /\ \/ /\ \/ /\ table[Byzantine[c]] # Absent
              /\ t' = [t EXCEPT ![c] = table[Byzantine[c]]]
           \/ /\ table[Byzantine[c]] = Absent \/ Writing # {}
              /\ t' = [t EXCEPT ![c] = c]
        /\ Goto(c, "tx")
        /\ UNCHANGED alive
     \/ Throws /\ UNCHANGED <<pc, t>>
  /\ UNCHANGED <<ok, todo, tgt, reg, counts, reader, hub>>

\* t.NormalTx++ and the three like it: a read and a write of memory.  Through
\* a nil pointer the read panics: net/http recovers from a panic in a handler,
\* a panic in the goroutine of timerTask ends the process.
AtField(c) == << IF pc[c] \in {"tx", "txStore"} THEN "tx" ELSE "commit", PeerType(c) >>

Load(c) ==
  /\ pc[c] \in {"tx", "commit"}
  /\ \/ /\ t[c] # Nil
        /\ reg' = [reg EXCEPT ![c] = heap[t[c]][AtField(c)]]
        /\ Goto(c, IF pc[c] = "tx" THEN "txStore" ELSE "commitStore")
        /\ UNCHANGED alive
     \/ /\ t[c] = Nil /\ PeerType(c) = 1
        /\ Goto(c, "panicked")
        /\ UNCHANGED <<reg, alive>>
     \/ /\ t[c] = Nil /\ PeerType(c) = 0
        /\ alive' = FALSE
        /\ UNCHANGED <<pc, reg>>
  /\ UNCHANGED <<ok, todo, tgt, t, counts, reader, hub, notes>>

StoreByTwo(c) ==                                               \* (mutant)
  /\ pc[c] \in {"txStore", "commitStore"}
  /\ heap' = [heap EXCEPT ![t[c]][AtField(c)] = reg[c] + 2]
  /\ Goto(c, IF pc[c] = "txStore" /\ Commits(c) THEN "commit" ELSE "assign")
  /\ UNCHANGED <<locals, table, reader, hub, alive, notes>>

Store(c) ==
  /\ pc[c] \in {"txStore", "commitStore"}
  /\ heap' = [heap EXCEPT ![t[c]][AtField(c)] = reg[c] + 1]
  /\ Goto(c, IF pc[c] = "txStore" /\ Commits(c) THEN "commit" ELSE "assign")
  /\ UNCHANGED <<locals, table, reader, hub, alive, notes>>

\* StatisticsTable[num] = t: the runtime marks the map as written, finds or
\* makes the key, removes the mark, and only then the pointer is stored.  Two
\* writes at once are noticed, or leave a map of which nothing can be said:
\* the model ends there in either case.
Assign(c) ==
  /\ pc[c] = "assign"
  /\ \/ /\ Writing = {}
        /\ Goto(c, "insert")
        /\ UNCHANGED alive
     \/ Throws /\ UNCHANGED pc
  /\ UNCHANGED <<locals, counts, reader, hub, notes>>

Insert(c) ==
  /\ pc[c] = "insert"
  /\ table' = [table EXCEPT ![Byzantine[c]] = IF @ = Absent THEN Nil ELSE @]
  /\ Goto(c, "put")
  /\ UNCHANGED <<locals, heap, reader, hub, alive, notes>>

Put(c) ==
  /\ pc[c] = "put"
  /\ table' = [table EXCEPT ![Byzantine[c]] = t[c]]
  /\ Goto(c, "done")
  /\ UNCHANGED <<locals, heap, reader, hub, alive, notes>>

\* ByzantineNum, in a goroutine muma starts: a lookup whose result is dropped
Peek(c) ==
  /\ pc[c] = "peek"
  /\ watched' = (watched \/ Counting # {})
  /\ \/ Goto(c, "done") /\ UNCHANGED alive
     \/ Throws /\ UNCHANGED pc
  /\ UNCHANGED <<locals, counts, reader, hub, raced>>

Count(c) == Lookup(c) \/ Load(c) \/ Store(c) \/ Assign(c) \/ Insert(c) \/ Put(c)

InvokeCC(c) == Visit(c) \/ Send(c) \/ EndRange(c) \/ Count(c) \/ Peek(c)

-----------------------------------------------------------------------------
(* getStatistics: json.Marshal takes the keys of the map, then looks each  *)
(* one up and reads the counters one after the other.  Two requests do not *)
(* disturb each other, so one at a time is enough.                         *)

Request ==
  /\ ~busy
  /\ watched' = (Counting # {})
  /\ \/ /\ busy' = TRUE
        /\ rest' = {n \in 0..10 : table[n] # Absent}
        /\ UNCHANGED alive
     \/ Throws /\ UNCHANGED <<busy, rest>>
  /\ UNCHANGED <<pc, locals, counts, row, shown, hub, raced>>

\* a nil pointer is marshalled as null
MarshalRow ==
  /\ busy /\ row = Absent
  /\ \E n \in rest :
       /\ rest' = rest \ {n}
       /\ \/ /\ row' = IF table[n] = Nil THEN Absent ELSE table[n]
             /\ UNCHANGED alive
          \/ Throws /\ UNCHANGED row
  /\ UNCHANGED <<pc, locals, counts, shown, busy, hub, notes>>

MarshalField ==
  /\ row # Absent /\ Len(shown) < Len(Fields)
  /\ shown' = Append(shown, heap[row][Fields[Len(shown) + 1]])
  /\ UNCHANGED <<pc, locals, counts, rest, row, busy, hub, alive, notes>>

EndRow ==
  /\ Len(shown) = Len(Fields)
  /\ row' = Absent /\ shown' = <<>>
  /\ UNCHANGED <<pc, locals, counts, rest, busy, hub, alive, notes>>

Respond ==
  /\ busy /\ row = Absent /\ rest = {}
  /\ busy' = FALSE
  /\ UNCHANGED <<pc, locals, counts, rest, row, shown, hub, alive, notes>>

GetStatistics == Request \/ MarshalRow \/ MarshalField \/ EndRow \/ Respond

-----------------------------------------------------------------------------
(* The handler transaction of main.go.                                     *)

Subscribe(s) ==
  /\ ws[s] = "off"
  /\ ws' = [ws EXCEPT ![s] = "ready"]
  /\ chans' = chans \cup {s}
  /\ UNCHANGED <<pc, locals, counts, reader, alive, notes>>

\* an updateBlock goroutine sends it a transaction of its block
Hear(s) ==
  /\ ws[s] = "ready"
  /\ ws' = [ws EXCEPT ![s] = "writing"]
  /\ UNCHANGED <<pc, locals, counts, reader, chans, alive, notes>>

\* the write may fail, and then the handler returns
Written(s) ==
  /\ ws[s] = "writing"
  /\ \E l \in {"ready", "failed"} : ws' = [ws EXCEPT ![s] = l]
  /\ UNCHANGED <<pc, locals, counts, reader, chans, alive, notes>>

Unsubscribe(s) ==
  /\ ws[s] = "failed"
  /\ ws' = [ws EXCEPT ![s] = "gone"]
  /\ chans' = chans \ {s}
  /\ UNCHANGED <<pc, locals, counts, reader, alive, notes>>

Serve(s) == Written(s) \/ Unsubscribe(s)

-----------------------------------------------------------------------------
Next ==
  /\ alive
  /\ \/ \E c \in Calls : Succeed(c) \/ Fail(c) \/ InvokeCC(c)
     \/ GetStatistics
     \/ \E s \in Pages : Subscribe(s) \/ Hear(s) \/ Serve(s)

\* the Go scheduler runs every goroutine that can run, and the senders that
\* wait at a channel are served in turn; that Execute returns, that requests
\* arrive and that pages are opened is not assumed
Fairness ==
  /\ \A c \in Calls : WF_vars(alive /\ InvokeCC(c)) /\ SF_vars(alive /\ Send(c))
  /\ \A s \in Pages : WF_vars(alive /\ Serve(s))

Spec     == Init /\ [][Next]_vars
FairSpec == Spec /\ Fairness

-----------------------------------------------------------------------------
(* Properties                                                              *)

Table   == Calls \cup {Absent, Nil}
CallPc  == {"execute", "range", "lookup", "peek", "done", "panicked"} \cup Section
Storing == {"txStore", "commitStore"}

\* only transfers look up a table; who is past the lookup has one, who is past the first read has one that
\* is not nil, and who counts a commit counts a success
Positions ==
  /\ \A c \in Calls : /\ pc[c] = "lookup" => c \in Transfers
                      /\ pc[c] = "peek" => c \notin Transfers
  /\ \A c \in Counting :
       /\ c \in Transfers
       /\ t[c] \in Calls \/ (t[c] = Nil /\ pc[c] = "tx")
       /\ pc[c] \in {"commit", "commitStore"} => Commits(c)

\* Every variable holds a value of its type, and an invocation that counts has
\* what it needs to count (Positions).
TypeOK ==
  /\ pc \in [Calls -> CallPc]
  /\ ok \in [Calls -> BOOLEAN]
  /\ todo \in [Calls -> SUBSET Pages]
  /\ tgt \in [Calls -> Pages \cup {NoPage}]
  /\ t \in [Calls -> Table]
  /\ Positions
  /\ reg \in [Calls -> Nat]
  /\ table \in [0..10 -> Table]
  /\ heap \in [Calls -> [Field -> Nat]]
  /\ rest \in SUBSET (0..10)
  /\ row \in Calls \cup {Absent}
  /\ shown \in Seq(Nat) /\ Len(shown) <= Len(Fields)
  /\ row = Absent => shown = <<>>
  /\ busy \in BOOLEAN
  /\ ~busy => row = Absent
  /\ chans \in SUBSET Pages
  /\ ws \in [Pages -> {"off", "ready", "writing", "failed", "gone"}]
  /\ alive \in BOOLEAN /\ raced \in BOOLEAN /\ watched \in BOOLEAN

\* the transfers with n byzantine peers that field f is about and that have
\* incremented it: successes only for a commit, and of the attacks only those
\* that seven or more byzantine peers carried
Past(f) == IF f[1] = "tx"
           THEN {"commit", "commitStore", "assign", "insert", "put", "done"}
           ELSE {"assign", "insert", "put", "done"}
Counted(n, f) ==
  {c \in Transfers : /\ Byzantine[c] = n /\ PeerType(c) = f[2]
                     /\ pc[c] \in Past(f)
                     /\ f[1] = "commit" => ok[c] /\ (f[2] = 1 => n >= 7)}

Value(n, f) == IF table[n] \in Calls THEN heap[table[n]][f] ELSE 0

\* Races on StatisticsTable and its counters lose counts and never invent one:
\* no counter exceeds the number of transfers that have incremented it, with
\* the peers and of the kind it is for.
NeverOvercounts ==
  \A n \in 0..10 : \A f \in Field : Value(n, f) <= Cardinality(Counted(n, f))

\* If no two invocations ever counted at the same time, then between two of
\* them every counter is exact.
ExactAlone ==
  ~raced /\ Counting = {} =>
    \A n \in 0..10 : \A f \in Field : Value(n, f) = Cardinality(Counted(n, f))

\* What /statistics shows of a row is never more than was counted, and is exact
\* if neither two invocations nor this request and an invocation overlapped.
ShownTrue ==
  \A i \in 1..Len(shown) :
    LET n == Cardinality(Counted(Byzantine[row], Fields[i]))
    IN  /\ shown[i] <= n
        /\ ~raced /\ ~watched => shown[i] = n

\* Counting alone never ends the process and never panics: the first takes a
\* reader or another invocation at the statistics at the same time, the second
\* another invocation.
SafeAlone ==
  /\ ~alive => raced \/ watched
  /\ (\E c \in Calls : pc[c] = "panicked") => raced

\* A failed invocation does not start to send to a page whose handler has
\* returned.
NoSendToDeparted ==
  [][\A c \in Calls : tgt[c] = NoPage /\ tgt'[c] # NoPage => ws[tgt'[c]] # "gone"]_vars

Stranded(c) == tgt[c] # NoPage /\ ws[tgt[c]] = "gone"

\* Every invocation that has its answer returns to its caller, unless it sends
\* to a page that closes, or the process ends.
CallsSettle ==
  \A c \in Calls :
    (pc[c] # "execute") ~> (pc[c] \in {"done", "panicked"} \/ Stranded(c) \/ ~alive)

-----------------------------------------------------------------------------
(* The inductive invariant, beyond types.                                  *)

\* a table is used for one number of byzantine peers
OneRow ==
  /\ \A c \in Counting : t[c] \in Calls => Byzantine[t[c]] = Byzantine[c]
  /\ \A n \in 0..10 : table[n] \in Calls => Byzantine[table[n]] = n

\* a table holds no more than was counted for its row, and what an increment
\* has read leaves room for it
Bounded ==
  /\ \A d \in Calls : \A f \in Field :
       heap[d][f] <= Cardinality(Counted(Byzantine[d], f))
  /\ \A c \in Calls : pc[c] \in Storing =>
       reg[c] <= Cardinality(Counted(Byzantine[c], AtField(c)))

\* what a response holds was in the counters when it was read
ShownBounded ==
  \A i \in 1..Len(shown) :
    shown[i] <= Cardinality(Counted(Byzantine[row], Fields[i]))

\* who overlaps is noted
Noted ==
  /\ \A c, d \in Counting : c # d => raced
  /\ busy /\ Counting # {} => watched
  /\ \A c \in Counting : t[c] = Nil => raced
  /\ \A n \in 0..10 : table[n] = Nil => \E c \in Counting : pc[c] = "put" /\ Byzantine[c] = n
  /\ SafeAlone

\* a table belongs to a call that has made its lookup; before, it is unused
Before == {"execute", "range", "lookup", "peek"}
Fresh ==
  /\ \A c \in Counting : t[c] \in Calls => pc[t[c]] \notin Before
  /\ \A n \in 0..10 : table[n] \in Calls => pc[table[n]] \notin Before
  /\ \A d \in Calls : pc[d] \in Before => heap[d] = Zero

\* without races: a row nobody counts in is exact, and who counts works on the
\* table of the row, or on a new one if there is none
Exact ==
  ~raced =>
    /\ \A n \in 0..10 : (\A c \in Counting : Byzantine[c] # n) =>
         \A f \in Field : Value(n, f) = Cardinality(Counted(n, f))
    /\ \A c \in Counting :
         /\ table[Byzantine[c]] \in {Absent, Nil, t[c]}
         /\ \A f \in Field : heap[t[c]][f] = Cardinality(Counted(Byzantine[c], f))
         /\ pc[c] \in Storing => reg[c] = Cardinality(Counted(Byzantine[c], AtField(c)))

ShownExact ==
  ~raced /\ ~watched =>
    /\ row # Absent => table[Byzantine[row]] = row
    /\ \A i \in 1..Len(shown) :
         shown[i] = Cardinality(Counted(Byzantine[row], Fields[i]))

IInv == /\ TypeOK /\ OneRow /\ Bounded /\ ShownBounded /\ Noted
        /\ Fresh /\ Exact /\ ShownExact

=============================================================================
