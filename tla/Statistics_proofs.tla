--------------------------- MODULE Statistics_proofs ---------------------------
(***************************************************************************)
(* Proofs about Statistics, for every finite set of invocations, whoever   *)
(* calls them and however many peers are byzantine.                        *)
(***************************************************************************)
EXTENDS Statistics, FiniteSetTheorems, TLAPS

\* What was counted is a finite number.
LEMMA CountedFinite ==
  ASSUME NEW n, NEW f
  PROVE  IsFiniteSet(Counted(n, f)) /\ Cardinality(Counted(n, f)) \in Nat
<1>1. Counted(n, f) \subseteq Calls
  BY DEF Counted, Transfers
<1> QED
  BY <1>1, StatisticsAssumption, FS_Subset, FS_CardinalityType

\* The fields of a table.
LEMMA FieldType ==
  /\ \A c \in Calls : AtField(c) \in Field /\ PeerType(c) \in {0, 1}
  /\ Len(Fields) = 4 /\ \A i \in 1..4 : Fields[i] \in Field
<1>1. \A c \in Calls : PeerType(c) \in {0, 1}
  BY DEF PeerType
<1>2. \A c \in Calls : AtField(c) \in Field
  BY <1>1 DEF AtField, Field
<1>3. Len(Fields) = 4 /\ \A i \in 1..4 : Fields[i] \in Field
  BY DEF Fields, Field
<1> QED
  BY <1>1, <1>2, <1>3

-----------------------------------------------------------------------------
(* Types.                                                                  *)

LEMMA TypeInit == Init => TypeOK
<1> SUFFICES ASSUME Init PROVE TypeOK
  OBVIOUS
<1>1. heap \in [Calls -> [Field -> Nat]]
  BY DEF Init, Zero
<1>2. shown \in Seq(Nat) /\ Len(shown) <= Len(Fields)
  BY FieldType DEF Init
<1>3. Positions
  BY DEF Init, Positions, Counting, Section
<1>4. pc \in [Calls -> CallPc]
  BY DEF Init, CallPc
<1> QED
  BY <1>1, <1>2, <1>3, <1>4 DEF Init, TypeOK, Table

\* The steps of an invocation that has not begun to count.
LEMMA TypeAnswer ==
  ASSUME TypeOK, NEW c \in Calls,
         Succeed(c) \/ Fail(c) \/ Visit(c) \/ Send(c) \/ EndRange(c) \/ Peek(c)
  PROVE  TypeOK'
<1> USE DEF TypeOK, Positions, Counting, Section, CallPc, Goto, locals, counts, reader, hub, notes
<1>1. CASE Succeed(c)
  BY <1>1 DEF Succeed, Commits
<1>2. CASE Fail(c)
  BY <1>2 DEF Fail, Commits
<1>3. CASE Visit(c)
  BY <1>3 DEF Visit, Commits
<1>4. CASE Send(c)
  BY <1>4 DEF Send, Commits
<1>5. CASE EndRange(c)
  BY <1>5 DEF EndRange, Commits
<1>6. CASE Peek(c)
  BY <1>6 DEF Peek, Throws, Commits
<1> QED
  BY <1>1, <1>2, <1>3, <1>4, <1>5, <1>6

\* The steps that count.
LEMMA TypeCount ==
  ASSUME TypeOK, NEW c \in Calls, Count(c)
  PROVE  TypeOK'
<1> USE DEF TypeOK, CallPc, Section, Goto, locals, counts, reader, hub, notes
<1>0. Byzantine[c] \in 0..10 /\ AtField(c) \in Field
  BY StatisticsAssumption, FieldType
<1>1. CASE Lookup(c)
  <2>1. table[Byzantine[c]] \in Table
    BY <1>0
  <2>2. \/ \E d \in Calls \cup {Nil} : /\ t' = [t EXCEPT ![c] = d]
                                      /\ pc' = [pc EXCEPT ![c] = "tx"]
        \/ UNCHANGED <<pc, t>>
    BY <1>1, <2>1 DEF Lookup, Table
  <2>3. pc' \in [Calls -> CallPc] /\ t' \in [Calls -> Table]
    <3>1. "tx" \in CallPc /\ Calls \cup {Nil} \subseteq Table
      BY DEF Table
    <3> HIDE DEF CallPc, Table
    <3> QED
      BY <2>2, <3>1
  <2>4. Positions'
    <3>1. pc[c] = "lookup" /\ ok' = ok
      BY <1>1 DEF Lookup
    <3>2. c \in Transfers
      BY <3>1 DEF Positions
    <3> QED
      BY <2>2, <3>1, <3>2 DEF Positions, Counting, Commits
  <2>5. alive' \in BOOLEAN /\ raced' \in BOOLEAN /\ watched' \in BOOLEAN
    BY <1>1 DEF Lookup, Throws
  <2> QED
    BY <1>1, <2>3, <2>4, <2>5 DEF Lookup
<1>2. CASE Load(c)
  <2>1. t[c] \in Calls \/ t[c] = Nil
    BY <1>2 DEF Load, Positions, Counting
  <2>2. reg' \in [Calls -> Nat]
    <3>1. t[c] \in Calls => heap[t[c]][AtField(c)] \in Nat
      BY <1>0
    <3> QED
      BY <1>2, <2>1, <3>1 DEF Load
  <2>5. pc' \in [Calls -> CallPc]
    BY <1>2 DEF Load
  <2>3. Positions'
    <3>1. ok' = ok /\ t' = t /\ \A d \in Calls \ {c} : pc'[d] = pc[d]
      BY <1>2 DEF Load
    <3>2. /\ pc[c] \in {"tx", "commit"}
          /\ \/ pc'[c] = pc[c]
             \/ pc'[c] = "panicked"
             \/ t[c] # Nil /\ pc'[c] = IF pc[c] = "tx" THEN "txStore" ELSE "commitStore"
      BY <1>2 DEF Load
    <3>3. \A d \in Calls : /\ pc'[d] = "lookup" => pc[d] = "lookup"
                           /\ pc'[d] = "peek" => pc[d] = "peek"
                           /\ pc'[d] \in Section => pc[d] \in Section
                           /\ pc'[d] \in {"commit", "commitStore"} => pc[d] \in {"commit", "commitStore"}
                           /\ t[d] = Nil /\ pc'[d] \in Section => pc'[d] = pc[d]
      BY <3>1, <3>2
    <3> QED
      BY <3>1, <3>3 DEF Positions, Counting, Commits
  <2>4. alive' \in BOOLEAN
    BY <1>2 DEF Load
  <2> QED
    BY <1>2, <2>2, <2>3, <2>4, <2>5 DEF Load
<1>3. CASE Store(c)
  <2>1. t[c] \in Calls
    BY <1>3 DEF Store, Positions, Counting
  <2>2. heap' \in [Calls -> [Field -> Nat]]
    BY <1>3, <1>0, <2>1 DEF Store
  <2>3. Positions'
    BY <1>3, <2>1 DEF Store, Positions, Counting, Commits
  <2>4. pc' \in [Calls -> CallPc]
    BY <1>3 DEF Store
  <2> QED
    BY <1>3, <2>2, <2>3, <2>4 DEF Store
<1>4. CASE Assign(c)
  <2>1. pc' \in [Calls -> CallPc] /\ alive' \in BOOLEAN
    BY <1>4 DEF Assign, Throws
  <2>2. Positions'
    BY <1>4 DEF Assign, Positions, Counting, Commits
  <2> QED
    BY <1>4, <2>1, <2>2 DEF Assign
<1>5. CASE Insert(c)
  <2>1. pc' \in [Calls -> CallPc] /\ table' \in [0..10 -> Table]
    BY <1>5, <1>0 DEF Insert, Table
  <2>2. Positions'
    BY <1>5 DEF Insert, Positions, Counting, Commits
  <2> QED
    BY <1>5, <2>1, <2>2 DEF Insert
<1>6. CASE Put(c)
  BY <1>6, <1>0 DEF Put, Table, Positions, Counting, Commits
<1> QED
  BY <1>1, <1>2, <1>3, <1>4, <1>5, <1>6 DEF Count

LEMMA NextField ==
  ASSUME NEW s \in Seq(Nat), Len(s) < Len(Fields)
  PROVE  Len(s) \in Nat /\ Len(s) + 1 \in 1..4
BY FieldType

\* The reader and the pages.
LEMMA TypeOthers ==
  ASSUME TypeOK, GetStatistics \/ (\E s \in Pages : Subscribe(s) \/ Hear(s) \/ Serve(s))
  PROVE  TypeOK'
<1> USE DEF TypeOK, locals, counts, reader, hub, notes
<1>0. (pc' = pc /\ ok' = ok /\ t' = t) => Positions'
  BY DEF Positions, Counting, Commits
<1>1. CASE Request
  BY <1>0, <1>1 DEF Request, Throws
<1>2. CASE MarshalRow
  BY <1>0, <1>2 DEF MarshalRow, Throws, Table
<1>3. CASE MarshalField
  <2>0. shown \in Seq(Nat) /\ Len(shown) < Len(Fields)
    BY <1>3 DEF MarshalField
  <2>1. Len(shown) \in Nat /\ Len(shown) + 1 \in 1..4
    BY <2>0, NextField, Zenon
  <2>2. heap[row][Fields[Len(shown) + 1]] \in Nat
    BY <1>3, <2>1, FieldType DEF MarshalField
  <2>3. shown' \in Seq(Nat) /\ Len(shown') <= Len(Fields)
    BY <1>3, <2>1, <2>2, FieldType DEF MarshalField
  <2> QED
    BY <1>0, <1>3, <2>3 DEF MarshalField
<1>4. CASE EndRow
  <2>1. shown' \in Seq(Nat) /\ Len(shown') = 0
    BY <1>0, <1>4 DEF EndRow
  <2> QED
    BY <1>0, <1>4, <2>1, FieldType DEF EndRow
<1>5. CASE Respond
  BY <1>0, <1>5 DEF Respond
<1>6. CASE \E s \in Pages : Subscribe(s) \/ Hear(s) \/ Serve(s)
  <2>1. PICK s \in Pages : Subscribe(s) \/ Hear(s) \/ Serve(s)
    BY <1>6
  <2>2. ws' \in [Pages -> {"off", "ready", "writing", "failed", "gone"}]
    BY <2>1 DEF Subscribe, Hear, Serve, Written, Unsubscribe
  <2>3. chans' \in SUBSET Pages
    BY <2>1 DEF Subscribe, Hear, Serve, Written, Unsubscribe
  <2>4. UNCHANGED <<pc, locals, counts, reader, alive, notes>>
    BY <2>1 DEF Subscribe, Hear, Serve, Written, Unsubscribe
  <2> QED
    BY <1>0, <2>2, <2>3, <2>4
<1> QED
  BY <1>0, <1>1, <1>2, <1>3, <1>4, <1>5, <1>6 DEF GetStatistics

LEMMA TypeNext == TypeOK /\ [Next]_vars => TypeOK'
<1> SUFFICES ASSUME TypeOK, [Next]_vars PROVE TypeOK'
  OBVIOUS
<1>1. CASE UNCHANGED vars
  BY <1>1 DEF vars, TypeOK, locals, counts, reader, hub, notes, Positions, Counting, Commits
<1>2. CASE Next
  BY <1>2, TypeAnswer, TypeCount, TypeOthers DEF Next, InvokeCC
<1> QED
  BY <1>1, <1>2

-----------------------------------------------------------------------------
(* The counts.                                                             *)

LEMMA InvInit == Init => IInv
<1> SUFFICES ASSUME Init PROVE IInv
  OBVIOUS
<1>1. Counting = {} /\ \A c \in Calls : pc[c] = "execute"
  BY DEF Init, Counting, Section
<1>2. OneRow
  BY <1>1, StatisticsAssumption DEF Init, OneRow
<1>3. Bounded
  <2>1. \A d \in Calls : \A f \in Field : heap[d][f] = 0
    BY DEF Init, Zero
  <2> QED
    BY <2>1, <1>1, CountedFinite DEF Bounded, Storing
<1>4. ShownBounded
  BY DEF Init, ShownBounded
<1>5. Noted
  BY <1>1, StatisticsAssumption DEF Init, Noted, SafeAlone
<1>6. Fresh
  BY <1>1, StatisticsAssumption DEF Init, Fresh
<1>7. Exact
  <2>1. \A n \in 0..10 : \A f \in Field : Value(n, f) = 0
    BY StatisticsAssumption DEF Init, Value
  <2>2. \A n \in 0..10 : \A f \in Field : Counted(n, f) = {}
    BY <1>1 DEF Counted, Past, Transfers
  <2> QED
    BY <1>1, <2>1, <2>2, FS_EmptySet DEF Exact
<1>8. ShownExact
  BY DEF Init, ShownExact
<1> QED
  BY TypeInit, <1>2, <1>3, <1>4, <1>5, <1>6, <1>7, <1>8 DEF IInv

\* An invocation that has counted stays one that has.
LEMMA Moves ==
  ASSUME TypeOK, [Next]_vars, NEW d \in Calls
  PROVE  /\ pc[d] \in {"commit", "commitStore", "assign", "insert", "put", "done"} =>
              pc'[d] \in {"commit", "commitStore", "assign", "insert", "put", "done"}
         /\ pc[d] \in {"assign", "insert", "put", "done"} =>
              pc'[d] \in {"assign", "insert", "put", "done"}
         /\ pc[d] # "execute" => ok'[d] = ok[d]
<1> USE DEF Goto, locals, counts, reader, hub, notes
<1>0. \A c \in Counting : t[c] \in Calls \/ pc[c] = "tx"
  BY DEF TypeOK, Positions
<1>1. CASE UNCHANGED vars
  BY <1>1 DEF vars
<1>2. ASSUME NEW c \in Calls, Succeed(c) \/ Fail(c) PROVE UNCHANGED pc \/ (pc[c] = "execute" /\ \A e \in Calls \ {c} : pc'[e] = pc[e] /\ ok'[e] = ok[e])
  BY <1>2 DEF Succeed, Fail, TypeOK
<1>3. ASSUME NEW c \in Calls, InvokeCC(c) PROVE ok' = ok
  BY <1>3 DEF InvokeCC, Visit, Send, EndRange, Peek, Count, Lookup, Load, Store, Assign, Insert, Put
<1>4. ASSUME NEW c \in Calls, Visit(c) \/ Send(c) \/ EndRange(c) \/ Peek(c) \/ Lookup(c)
      PROVE  \/ UNCHANGED pc
             \/ /\ pc[c] \in {"range", "peek", "lookup"}
                /\ \A e \in Calls \ {c} : pc'[e] = pc[e]
  BY <1>4 DEF Visit, Send, EndRange, Peek, Lookup, TypeOK
<1>5. ASSUME NEW c \in Calls, Load(c) \/ Store(c) \/ Assign(c) \/ Insert(c) \/ Put(c)
      PROVE  \/ UNCHANGED pc
             \/ /\ \A e \in Calls \ {c} : pc'[e] = pc[e]
                /\ <<pc[c], pc'[c]>> \in
                     {<<"tx", "txStore">>, <<"tx", "panicked">>, <<"commit", "commitStore">>,
                      <<"txStore", "commit">>, <<"txStore", "assign">>,
                      <<"commitStore", "assign">>, <<"assign", "insert">>,
                      <<"insert", "put">>, <<"put", "done">>}
  <2>1. CASE Load(c)
    BY <2>1, <1>0, StatisticsAssumption DEF Load, TypeOK, Counting, Section
  <2>2. CASE Store(c)
    BY <2>2 DEF Store, TypeOK
  <2>3. CASE Assign(c) \/ Insert(c) \/ Put(c)
    BY <2>3 DEF Assign, Insert, Put, TypeOK
  <2> QED
    BY <1>5, <2>1, <2>2, <2>3
<1>6. CASE GetStatistics
  BY <1>6 DEF GetStatistics, Request, MarshalRow, MarshalField, EndRow, Respond
<1>7. CASE \E s \in Pages : Subscribe(s) \/ Hear(s) \/ Serve(s)
  BY <1>7 DEF Subscribe, Hear, Serve, Written, Unsubscribe
<1>8. CASE \E c \in Calls : Succeed(c) \/ Fail(c)
  <2>1. PICK c \in Calls : Succeed(c) \/ Fail(c)
    BY <1>8
  <2>2. CASE UNCHANGED pc
    <3>1. pc[c] = "execute" /\ \A e \in Calls \ {c} : ok'[e] = ok[e]
      BY <2>1 DEF Succeed, Fail, TypeOK
    <3> QED
      BY <2>2, <3>1
  <2> QED
    BY <2>1, <2>2, <1>2
<1>9. CASE \E c \in Calls : InvokeCC(c)
  BY <1>9, <1>3, <1>4, <1>5 DEF InvokeCC, Count
<1> QED
  BY <1>1, <1>6, <1>7, <1>8, <1>9 DEF Next

\* No step takes back what was counted.
LEMMA Monotone ==
  ASSUME TypeOK, [Next]_vars, NEW n, NEW f \in Field
  PROVE  /\ Counted(n, f) \subseteq Counted(n, f)'
         /\ Cardinality(Counted(n, f)) <= Cardinality(Counted(n, f)')
<1>1. Counted(n, f) \subseteq Counted(n, f)'
  BY Moves DEF Counted, Past, Transfers, PeerType
<1>2. IsFiniteSet(Counted(n, f)')
  <2>1. Counted(n, f)' \subseteq Calls
    BY DEF Counted, Transfers
  <2> QED
    BY <2>1, StatisticsAssumption, FS_Subset
<1> QED
  BY <1>1, <1>2, FS_Subset

\* An increment adds the invocation that makes it.
LEMMA StoreCounts ==
  ASSUME TypeOK, [Next]_vars, NEW c \in Calls, Store(c), NEW f, f = AtField(c)
  PROVE  Cardinality(Counted(Byzantine[c], f)) + 1 <= Cardinality(Counted(Byzantine[c], f)')
<1> DEFINE n == Byzantine[c]
           A == Counted(n, f)
<1>0. f \in Field /\ f[2] = PeerType(c) /\ f[1] = IF pc[c] = "txStore" THEN "tx" ELSE "commit"
  BY FieldType DEF AtField, Store
<1>1. c \notin A
  BY <1>0 DEF Counted, Past, Store
<1>2. c \in Transfers /\ (pc[c] = "commitStore" => Commits(c))
  BY DEF Store, TypeOK, Positions, Counting, Section
<1>3. c \in Counted(n, f)'
  <2>1. /\ ok' = ok /\ pc[c] \in {"txStore", "commitStore"}
        /\ pc[c] = "txStore" => pc'[c] \in {"commit", "assign"}
        /\ pc[c] = "commitStore" => pc'[c] = "assign"
    BY DEF Store, Goto, TypeOK, locals
  <2> QED
    BY <2>1, <1>0, <1>2, StatisticsAssumption DEF Counted, Past, Commits, PeerType
<1>4. A \subseteq Counted(n, f)' /\ Counted(n, f)' \subseteq Calls
  BY <1>0, Monotone DEF Counted, Transfers
<1>5. IsFiniteSet(A) /\ Cardinality(A) \in Nat /\ IsFiniteSet(Counted(n, f)')
  BY <1>4, CountedFinite, StatisticsAssumption, FS_Subset
<1>6. Cardinality(A \cup {c}) = Cardinality(A) + 1
  BY <1>5, <1>1, FS_AddElement
<1> QED
  BY <1>3, <1>4, <1>5, <1>6, FS_Subset

-----------------------------------------------------------------------------
(* The steps that count, and the others.                                   *)

Other ==
  \/ UNCHANGED vars
  \/ \E c \in Calls : Succeed(c) \/ Fail(c) \/ Visit(c) \/ Send(c) \/ EndRange(c) \/ Peek(c)
  \/ GetStatistics
  \/ \E s \in Pages : Subscribe(s) \/ Hear(s) \/ Serve(s)

LEMMA Cases == [Next]_vars => Other \/ \E c \in Calls : Count(c)
BY DEF Next, InvokeCC, Other

\* What counting sees is left alone by the others.
LEMMA Others ==
  ASSUME TypeOK, Other
  PROVE  /\ UNCHANGED <<t, reg, table, heap, raced>>
         /\ Counting' = Counting
         /\ \A c \in Counting : pc'[c] = pc[c]
         /\ \A c \in Calls : pc'[c] \in Before => pc[c] \in Before
         /\ \A n : \A f \in Field : Counted(n, f)' = Counted(n, f)
<1> USE DEF Goto, locals, counts, reader, hub, notes
<1>1. UNCHANGED <<t, reg, table, heap, raced>>
  BY DEF Other, vars, Succeed, Fail, Visit, Send, EndRange, Peek, GetStatistics, Request,
         MarshalRow, MarshalField, EndRow, Respond, Subscribe, Hear, Serve, Written, Unsubscribe
<1>2. \/ UNCHANGED <<pc, ok>>
      \/ \E c \in Calls :
           /\ pc[c] \in {"execute", "range", "peek"}
           /\ pc'[c] \in {"range", "lookup", "peek", "done"}
           /\ pc'[c] = "done" => c \notin Transfers
           /\ \A d \in Calls \ {c} : pc'[d] = pc[d] /\ ok'[d] = ok[d]
  <2>1. CASE UNCHANGED vars
    BY <2>1 DEF vars
  <2>2. ASSUME NEW c \in Calls,
               Succeed(c) \/ Fail(c) \/ EndRange(c) \/ (Peek(c) /\ ~UNCHANGED pc)
        PROVE  /\ pc[c] \in {"execute", "range", "peek"}
               /\ pc'[c] \in {"range", "lookup", "peek", "done"}
               /\ pc'[c] = "done" => c \notin Transfers
               /\ \A d \in Calls \ {c} : pc'[d] = pc[d] /\ ok'[d] = ok[d]
    <3>1. pc[c] = "peek" => c \notin Transfers
      BY DEF TypeOK, Positions
    <3> USE DEF TypeOK
    <3>2. CASE Succeed(c) \/ Fail(c)
      BY <3>2 DEF Succeed, Fail
    <3>3. CASE EndRange(c)
      BY <3>3 DEF EndRange
    <3>4. CASE Peek(c) /\ ~UNCHANGED pc
      BY <3>1, <3>4 DEF Peek
    <3> QED
      BY <2>2, <3>2, <3>3, <3>4
  <2>3. ASSUME NEW c \in Calls, Visit(c) \/ Send(c) \/ (Peek(c) /\ UNCHANGED pc)
        PROVE  UNCHANGED <<pc, ok>>
    BY <2>3 DEF Visit, Send, Peek
  <2>4. CASE GetStatistics
    BY <2>4 DEF GetStatistics, Request, MarshalRow, MarshalField, EndRow, Respond
  <2>5. CASE \E s \in Pages : Subscribe(s) \/ Hear(s) \/ Serve(s)
    BY <2>5 DEF Subscribe, Hear, Serve, Written, Unsubscribe
  <2> QED
    BY <2>1, <2>2, <2>3, <2>4, <2>5 DEF Other
<1>3. Counting' = Counting /\ \A c \in Counting : pc'[c] = pc[c]
  BY <1>2 DEF Counting, Section
<1>4. \A c \in Calls : pc'[c] \in Before => pc[c] \in Before
  BY <1>2 DEF Before
<1>5. \A n : \A f \in Field : Counted(n, f)' = Counted(n, f)
  BY <1>2 DEF Counted, Past, Transfers, PeerType
<1> QED
  BY <1>1, <1>3, <1>4, <1>5

\* A step that counts moves one invocation and not the reader.
LEMMA Counts ==
  ASSUME TypeOK, NEW c \in Calls, Count(c)
  PROVE  /\ c \in Transfers /\ pc[c] \in Section \cup {"lookup"}
         /\ UNCHANGED <<ok, rest, row, shown, busy>>
         /\ \A d \in Calls \ {c} : pc'[d] = pc[d] /\ t'[d] = t[d] /\ reg'[d] = reg[d]
         /\ pc'[c] \in Section \cup {"done", "panicked"} \/ UNCHANGED <<pc, t, reg, table, heap>>
<1> USE DEF Goto, locals, counts, reader, hub, notes
<1>1. c \in Transfers /\ pc[c] \in Section \cup {"lookup"}
  <2>1. pc[c] \in Section \cup {"lookup"}
    BY DEF Count, Lookup, Load, Store, Assign, Insert, Put, Section
  <2> QED
    BY <2>1 DEF TypeOK, Positions, Counting
<1>2. UNCHANGED <<ok, rest, row, shown, busy>>
  BY DEF Count, Lookup, Load, Store, Assign, Insert, Put
<1> USE DEF TypeOK
<1>3. CASE Lookup(c)
  <2>1. \/ UNCHANGED <<pc, t>>
        \/ /\ pc' = [pc EXCEPT ![c] = "tx"]
           /\ \E d : t' = [t EXCEPT ![c] = d]
    BY <1>3 DEF Lookup
  <2>2. UNCHANGED <<reg, table, heap>>
    BY <1>3 DEF Lookup
  <2> QED
    BY <1>1, <1>2, <2>1, <2>2 DEF Section
<1>4. CASE Load(c)
  BY <1>1, <1>2, <1>4 DEF Load, Section
<1>5. CASE Store(c)
  BY <1>1, <1>2, <1>5 DEF Store, Section
<1>6. CASE Assign(c)
  BY <1>1, <1>2, <1>6 DEF Assign, Section
<1>7. CASE Insert(c) \/ Put(c)
  BY <1>1, <1>2, <1>7 DEF Insert, Put, Section
<1> QED
  BY <1>3, <1>4, <1>5, <1>6, <1>7 DEF Count

-----------------------------------------------------------------------------
(* Which table is used for which row.                                      *)

\* What a lookup may find.
LEMMA Found ==
  ASSUME IInv, NEW c \in Calls, Lookup(c), ~UNCHANGED <<pc, t>>
  PROVE  /\ pc'[c] = "tx" /\ t'[c] \in Calls \cup {Nil}
         /\ t'[c] = table[Byzantine[c]] \/ t'[c] = c
         /\ t'[c] = c => table[Byzantine[c]] = c \/ table[Byzantine[c]] = Absent \/ Writing # {}
BY StatisticsAssumption DEF IInv, TypeOK, Lookup, Goto, Table

LEMMA OneRowNext == IInv /\ [Next]_vars => OneRow'
<1> SUFFICES ASSUME IInv, [Next]_vars PROVE OneRow'
  OBVIOUS
<1>0. TypeOK /\ OneRow
  BY DEF IInv
<1>1. CASE Other
  BY <1>0, <1>1, Others DEF OneRow
<1>2. ASSUME NEW c \in Calls, Count(c) PROVE OneRow'
  <2> USE DEF Goto, locals, counts
  <2>0. /\ \A d \in Calls \ {c} : pc'[d] = pc[d] /\ t'[d] = t[d]
        /\ Byzantine[c] \in 0..10
    BY <1>0, <1>2, Counts, StatisticsAssumption
  <2>1. CASE UNCHANGED <<pc, t, table>>
    BY <1>0, <2>1 DEF OneRow, Counting
  <2>2. CASE Lookup(c) /\ ~UNCHANGED <<pc, t>>
    <3>1. table' = table
      BY <2>2 DEF Lookup
    <3>2. t'[c] \in Calls => Byzantine[t'[c]] = Byzantine[c]
      BY <2>0, <2>2, <1>0, Found DEF OneRow
    <3> QED
      BY <1>0, <2>0, <3>1, <3>2 DEF OneRow, Counting
  <2>3. CASE Load(c) \/ Store(c) \/ Assign(c)
    <3>1. t' = t /\ table' = table /\ pc[c] \in Section
      BY <2>3 DEF Load, Store, Assign, Section
    <3> QED
      BY <1>0, <2>0, <3>1 DEF OneRow, Counting
  <2>4. CASE Insert(c) \/ Put(c)
    <3>1. t' = t /\ pc[c] \in Section
      BY <2>4 DEF Insert, Put, Section
    <3>2. ASSUME NEW n \in 0..10
          PROVE  \/ table'[n] = table[n]
                 \/ table'[n] = Nil
                 \/ n = Byzantine[c] /\ table'[n] = t[c]
      <4>0. table \in [0..10 -> Table]
        BY <1>0 DEF TypeOK
      <4>1. CASE Insert(c)
        BY <4>0, <4>1 DEF Insert
      <4>2. CASE Put(c)
        BY <4>0, <4>2 DEF Put
      <4> QED
        BY <2>4, <4>1, <4>2
    <3> QED
      BY <1>0, <2>0, <3>1, <3>2, StatisticsAssumption DEF OneRow, Counting
  <2> QED
    BY <1>2, <2>1, <2>2, <2>3, <2>4 DEF Count, Lookup
<1> QED
  BY <1>1, <1>2, Cases

LEMMA FreshNext == IInv /\ [Next]_vars => Fresh'
<1> SUFFICES ASSUME IInv, [Next]_vars PROVE Fresh'
  OBVIOUS
<1>0. TypeOK /\ Fresh
  BY DEF IInv
<1>1. CASE Other
  BY <1>0, <1>1, Others DEF Fresh, Before, Counting, Section, TypeOK, Table
<1>2. ASSUME NEW c \in Calls, Count(c) PROVE Fresh'
  <2> USE DEF Goto, locals, counts
  <2>0. /\ \A d \in Calls \ {c} : pc'[d] = pc[d] /\ t'[d] = t[d]
        /\ Byzantine[c] \in 0..10
    BY <1>0, <1>2, Counts, StatisticsAssumption
  <2>1. CASE UNCHANGED <<pc, t, reg, table, heap>>
    BY <1>0, <2>1 DEF Fresh, Counting
  <2>2. CASE ~UNCHANGED <<pc, t, reg, table, heap>>
    <3>1. pc'[c] \in Section \cup {"done", "panicked"}
      BY <1>0, <1>2, <2>2, Counts
    <3>2. \A d \in Calls : pc'[d] \in Before => pc[d] \in Before /\ d # c
      BY <2>0, <3>1 DEF Before, Section
    <3>3. CASE Lookup(c)
      <4>1. table' = table /\ heap' = heap /\ reg' = reg
        BY <3>3 DEF Lookup
      <4>2. t'[c] \in Calls => pc'[t'[c]] \notin Before
        BY <1>0, <2>0, <2>2, <3>2, <3>3, <4>1, Found DEF Fresh
      <4> QED
        BY <1>0, <2>0, <3>2, <4>1, <4>2 DEF Fresh, Counting, TypeOK, Table
    <3>4. CASE Load(c) \/ Assign(c)
      <4>1. UNCHANGED <<table, heap, t>> /\ pc[c] \in Section
        BY <3>4 DEF Load, Assign, Section
      <4> QED
        BY <1>0, <2>0, <3>2, <4>1 DEF Fresh, Counting
    <3>5. CASE Store(c)
      <4>1. UNCHANGED <<table, t>> /\ pc[c] \in Section /\ c \in Counting
        BY <3>5 DEF Store, Section, Counting
      <4>2. \A d \in Calls : heap'[d] # heap[d] => d = t[c]
        BY <1>0, <3>5 DEF Store, TypeOK
      <4> QED
        BY <1>0, <2>0, <3>2, <4>1, <4>2 DEF Fresh, Counting
    <3>6. CASE Insert(c) \/ Put(c)
      <4>1. UNCHANGED <<heap, t>> /\ pc[c] \in Section /\ c \in Counting
        BY <3>6 DEF Insert, Put, Section, Counting
      <4>2. \A n \in 0..10 : table'[n] = table[n] \/ table'[n] = Nil \/ table'[n] = t[c]
        BY <1>0, <3>6 DEF Insert, Put, TypeOK
      <4> QED
        BY <1>0, <2>0, <3>2, <4>1, <4>2, StatisticsAssumption DEF Fresh, Counting
    <3> QED
      BY <1>2, <3>3, <3>4, <3>5, <3>6 DEF Count
  <2> QED
    BY <2>1, <2>2
<1> QED
  BY <1>1, <1>2, Cases

-----------------------------------------------------------------------------
(* Counters are bounded by what was counted.                               *)

LEMMA Cards ==
  ASSUME TypeOK, [Next]_vars
  PROVE  \A n : \A f \in Field : /\ Cardinality(Counted(n, f)) \in Nat
                               /\ Cardinality(Counted(n, f)') \in Nat
                               /\ Cardinality(Counted(n, f)) <= Cardinality(Counted(n, f)')
<1> SUFFICES ASSUME NEW n, NEW f \in Field
             PROVE  /\ Cardinality(Counted(n, f)) \in Nat
                    /\ Cardinality(Counted(n, f)') \in Nat
                    /\ Cardinality(Counted(n, f)) <= Cardinality(Counted(n, f)')
  OBVIOUS
<1>1. Counted(n, f)' \subseteq Calls
  BY DEF Counted, Transfers
<1>2. Cardinality(Counted(n, f)') \in Nat
  BY <1>1, StatisticsAssumption, FS_Subset, FS_CardinalityType
<1> QED
  BY <1>2, CountedFinite, Monotone

LEMMA BoundedNext == IInv /\ [Next]_vars => Bounded'
<1> SUFFICES ASSUME IInv, [Next]_vars PROVE Bounded'
  OBVIOUS
<1>0. TypeOK /\ Bounded /\ OneRow
  BY DEF IInv
<1>a. \A n : \A f \in Field : /\ Cardinality(Counted(n, f)) \in Nat
                            /\ Cardinality(Counted(n, f)') \in Nat
                            /\ Cardinality(Counted(n, f)) <= Cardinality(Counted(n, f)')
  BY <1>0, Cards
<1>b. TypeOK'
  BY <1>0, TypeNext
<1>1. \A d \in Calls : \A f \in Field : heap'[d][f] <= Cardinality(Counted(Byzantine[d], f)')
  <2> SUFFICES ASSUME NEW d \in Calls, NEW f \in Field
               PROVE  heap'[d][f] <= Cardinality(Counted(Byzantine[d], f)')
    OBVIOUS
  <2>0. heap[d][f] \in Nat /\ heap[d][f] <= Cardinality(Counted(Byzantine[d], f))
    BY <1>0 DEF Bounded, TypeOK
  <2>1. CASE heap'[d][f] = heap[d][f]
    BY <2>0, <2>1, <1>a
  <2>2. ASSUME NEW c \in Calls, Store(c), heap'[d][f] # heap[d][f]
        PROVE  heap'[d][f] <= Cardinality(Counted(Byzantine[d], f)')
    <3>1. t[c] \in Calls /\ c \in Counting
      BY <2>2, <1>0 DEF Store, TypeOK, Positions, Counting, Section
    <3>2. d = t[c] /\ f = AtField(c) /\ heap'[d][f] = reg[c] + 1
      BY <2>2, <3>1, <1>0, FieldType DEF Store, TypeOK
    <3>3. Byzantine[d] = Byzantine[c]
      BY <3>1, <3>2, <1>0 DEF OneRow
    <3>4. reg[c] \in Nat /\ reg[c] <= Cardinality(Counted(Byzantine[c], f))
      BY <2>2, <3>2, <1>0 DEF Bounded, Store, Storing, TypeOK
    <3>5. Cardinality(Counted(Byzantine[c], f)) + 1 <= Cardinality(Counted(Byzantine[c], f)')
      BY <2>2, <3>2, <1>0, StoreCounts
    <3> QED
      BY <3>2, <3>3, <3>4, <3>5, <1>a
  <2>3. heap' = heap \/ \E c \in Calls : Store(c)
    <3>1. CASE Other
      BY <3>1, <1>0, Others
    <3>2. CASE \E c \in Calls : Count(c)
      BY <3>2 DEF Count, Lookup, Load, Assign, Insert, Put, counts
    <3> QED
      BY <3>1, <3>2, Cases
  <2> QED
    BY <2>1, <2>2, <2>3
<1>2. \A c \in Calls : pc'[c] \in Storing =>
         reg'[c] <= Cardinality(Counted(Byzantine[c], AtField(c))')
  <2> SUFFICES ASSUME NEW c \in Calls, pc'[c] \in Storing,
                      NEW f, f = AtField(c)'
               PROVE  reg'[c] <= Cardinality(Counted(Byzantine[c], f)')
    OBVIOUS
  <2>0. f \in Field
    <3>1. f \in {"tx", "commit"} \X {0, 1}
      BY FieldType DEF AtField, PeerType
    <3> QED
      BY <3>1 DEF Field
  <2>1. CASE pc'[c] = pc[c] /\ reg'[c] = reg[c]
    <3>1. f = AtField(c)
      BY <2>1 DEF AtField, PeerType
    <3>2. reg[c] \in Nat /\ reg[c] <= Cardinality(Counted(Byzantine[c], f))
      BY <2>1, <3>1, <1>0 DEF Bounded, TypeOK
    <3> QED
      BY <2>0, <2>1, <3>2, <1>a
  <2>2. CASE Load(c)
    <3>1. pc[c] \in {"tx", "commit"} /\ pc'[c] = (IF pc[c] = "tx" THEN "txStore" ELSE "commitStore")
          /\ t[c] # Nil /\ reg'[c] = heap[t[c]][AtField(c)]
      BY <2>2, <1>0 DEF Load, Goto, Storing, TypeOK
    <3>2. f = AtField(c)
      BY <3>1 DEF AtField, PeerType
    <3>3. t[c] \in Calls /\ Byzantine[t[c]] = Byzantine[c]
      BY <3>1, <1>0 DEF OneRow, TypeOK, Positions, Counting, Section
    <3>4. reg'[c] \in Nat /\ reg'[c] <= Cardinality(Counted(Byzantine[c], f))
      BY <2>0, <3>1, <3>2, <3>3, <1>0 DEF Bounded, TypeOK
    <3> QED
      BY <2>0, <3>4, <1>a
  <2>3. (pc'[c] = pc[c] /\ reg'[c] = reg[c]) \/ Load(c)
    <3>1. CASE Other
      <4>1. c \in Counting
        BY <3>1, <1>0, Others DEF Storing, Section, Counting
      <4> QED
        BY <3>1, <4>1, <1>0, Others
    <3>2. ASSUME NEW d \in Calls, Count(d) PROVE (pc'[c] = pc[c] /\ reg'[c] = reg[c]) \/ Load(c)
      <4>1. CASE d # c
        BY <3>2, <4>1, <1>0, Counts
      <4>2. CASE d = c /\ ~Load(c)
        BY <3>2, <4>2, <1>0 DEF Count, Lookup, Store, Assign, Insert, Put, Goto, Storing, TypeOK, locals
      <4> QED
        BY <4>1, <4>2
    <3> QED
      BY <3>1, <3>2, Cases
  <2> QED
    BY <2>1, <2>2, <2>3
<1> QED
  BY <1>1, <1>2 DEF Bounded

\* How the response grows.
LEMMA Reads ==
  ASSUME IInv, [Next]_vars
  PROVE  \/ UNCHANGED <<row, shown>>
         \/ shown' = <<>>
         \/ MarshalField
<1> USE DEF locals, counts, reader, hub, notes
<1>1. CASE UNCHANGED vars
  BY <1>1 DEF vars
<1>2. CASE \E c \in Calls : Succeed(c) \/ Fail(c) \/ Visit(c) \/ Send(c) \/ EndRange(c) \/ Peek(c)
  BY <1>2 DEF Succeed, Fail, Visit, Send, EndRange, Peek
<1>3. CASE GetStatistics
  BY <1>3 DEF GetStatistics, Request, MarshalRow, EndRow, Respond, IInv, TypeOK
<1>4. CASE \E s \in Pages : Subscribe(s) \/ Hear(s) \/ Serve(s)
  BY <1>4 DEF Subscribe, Hear, Serve, Written, Unsubscribe
<1>5. CASE \E c \in Calls : Count(c)
  BY <1>5, Counts DEF IInv
<1> QED
  BY <1>1, <1>2, <1>3, <1>4, <1>5, Cases DEF Other

\* The field MarshalField reads.
LEMMA ReadsField ==
  ASSUME IInv, MarshalField
  PROVE  /\ row \in Calls /\ row' = row /\ heap' = heap /\ table' = table
         /\ shown \in Seq(Nat) /\ Len(shown') = Len(shown) + 1 /\ Len(shown') \in 1..4
         /\ \A i \in 1..Len(shown) : shown'[i] = shown[i]
         /\ shown'[Len(shown')] = heap[row][Fields[Len(shown')]]
<1>0. shown \in Seq(Nat) /\ Len(shown) < Len(Fields) /\ row \in Calls
  BY DEF IInv, TypeOK, MarshalField
<1>1. shown \in Seq(Nat) /\ Len(shown) \in Nat /\ Len(shown) + 1 \in 1..4 /\ row \in Calls
  BY <1>0, NextField, Zenon
<1>2. heap[row][Fields[Len(shown) + 1]] \in Nat
  BY <1>1, FieldType DEF IInv, TypeOK
<1> QED
  BY <1>1, <1>2 DEF MarshalField, counts

LEMMA ShownBoundedNext == IInv /\ [Next]_vars => ShownBounded'
<1> SUFFICES ASSUME IInv, [Next]_vars PROVE ShownBounded'
  OBVIOUS
<1>0. TypeOK /\ Bounded /\ ShownBounded
  BY DEF IInv
<1>a. \A n : \A f \in Field : /\ Cardinality(Counted(n, f)) \in Nat
                            /\ Cardinality(Counted(n, f)') \in Nat
                            /\ Cardinality(Counted(n, f)) <= Cardinality(Counted(n, f)')
  BY <1>0, Cards
<1>b. shown \in Seq(Nat) /\ \A i \in 1..Len(shown) : Fields[i] \in Field /\ shown[i] \in Nat
  <2>1. shown \in Seq(Nat) /\ Len(shown) <= Len(Fields)
    BY <1>0 DEF TypeOK
  <2>2. ASSUME NEW i \in 1..Len(shown) PROVE i \in 1..4 /\ shown[i] \in Nat
    BY <2>1, FieldType
  <2> QED
    BY <2>1, <2>2, FieldType
<1>1. CASE UNCHANGED <<row, shown>>
  <2> SUFFICES ASSUME NEW i \in 1..Len(shown), NEW n, n = Byzantine[row]
               PROVE  shown[i] <= Cardinality(Counted(n, Fields[i])')
    BY <1>1 DEF ShownBounded
  <2>1. Fields[i] \in Field /\ shown[i] \in Nat
    BY <1>b
  <2>2. shown[i] <= Cardinality(Counted(n, Fields[i]))
    BY <1>0 DEF ShownBounded
  <2> QED
    BY <2>1, <2>2, <1>a
<1>2. CASE shown' = <<>>
  BY <1>2 DEF ShownBounded
<1>3. CASE MarshalField
  <2> SUFFICES ASSUME NEW i \in 1..Len(shown'), NEW n, n = Byzantine[row]
               PROVE  shown'[i] <= Cardinality(Counted(n, Fields[i])')
    BY <1>3, ReadsField DEF ShownBounded
  <2>1. Fields[i] \in Field
    <3>1. i \in 1..4
      BY <1>3, ReadsField
    <3> QED
      BY <3>1, FieldType
  <2>2. shown'[i] \in Nat /\ shown'[i] <= Cardinality(Counted(n, Fields[i]))
    <3>1. CASE i \in 1..Len(shown)
      BY <1>0, <1>b, <1>3, <3>1, ReadsField DEF ShownBounded
    <3>2. CASE i = Len(shown')
      BY <1>0, <1>3, <2>1, <3>2, ReadsField DEF Bounded, TypeOK
    <3> QED
      BY <1>3, <3>1, <3>2, ReadsField
  <2> QED
    BY <2>1, <2>2, <1>a
<1> QED
  BY <1>1, <1>2, <1>3, Reads

-----------------------------------------------------------------------------
(* Overlaps are noted.                                                     *)

LEMMA NotedNext == IInv /\ [Next]_vars => Noted'
<1> SUFFICES ASSUME IInv, [Next]_vars PROVE Noted'
  OBVIOUS
<1>0. TypeOK /\ Noted /\ SafeAlone
  BY DEF IInv, Noted
<1>w. Writing \subseteq Counting
  BY DEF Writing, Counting, Section
<1>1. CASE Other
  <2>1. /\ UNCHANGED <<t, table, raced>> /\ Counting' = Counting
        /\ \A c \in Counting : pc'[c] = pc[c]
    BY <1>0, <1>1, Others
  <2>2. \A c \in Calls : pc'[c] = "panicked" => pc[c] = "panicked"
    <3> USE DEF Goto, TypeOK
    <3>1. ASSUME NEW d \in Calls, Succeed(d) \/ Fail(d) \/ EndRange(d) \/ Peek(d)
          PROVE  \A c \in Calls : pc'[c] = "panicked" => pc[c] = "panicked"
      BY <1>0, <3>1 DEF Succeed, Fail, EndRange, Peek
    <3>2. ASSUME NEW d \in Calls, Visit(d) \/ Send(d) PROVE pc' = pc
      BY <3>2 DEF Visit, Send
    <3>3. CASE GetStatistics \/ UNCHANGED vars
      BY <3>3 DEF GetStatistics, Request, MarshalRow, MarshalField, EndRow, Respond, vars
    <3>4. CASE \E s \in Pages : Subscribe(s) \/ Hear(s) \/ Serve(s)
      BY <3>4 DEF Subscribe, Hear, Serve, Written, Unsubscribe
    <3> QED
      BY <1>1, <3>1, <3>2, <3>3, <3>4 DEF Other
  <2>3. (busy' /\ Counting # {} => watched') /\ (~alive' => raced \/ watched')
    <3> USE DEF locals, counts, reader, hub, notes
    <3>0. (busy /\ Counting # {} => watched) /\ (~alive => raced \/ watched)
      BY <1>0 DEF Noted, SafeAlone
    <3>1. CASE UNCHANGED vars
      BY <3>0, <3>1 DEF vars
    <3>2. ASSUME NEW c \in Calls, Succeed(c) \/ Fail(c) \/ Visit(c) \/ Send(c) \/ EndRange(c)
          PROVE  UNCHANGED <<busy, watched, alive>>
      BY <3>2 DEF Succeed, Fail, Visit, Send, EndRange
    <3>3. ASSUME NEW c \in Calls, Peek(c), alive
          PROVE  (busy' /\ Counting # {} => watched') /\ (~alive' => raced \/ watched')
      BY <3>0, <3>3, <1>w DEF Peek, Throws
    <3>4. CASE GetStatistics /\ alive
      <4>1. CASE Request
        BY <3>4, <4>1, <1>w DEF Request, Throws
      <4>2. CASE MarshalRow
        BY <3>0, <3>4, <4>2, <1>w DEF MarshalRow, Throws
      <4>3. CASE MarshalField \/ EndRow \/ Respond
        BY <3>0, <4>3 DEF MarshalField, EndRow, Respond
      <4> QED
        BY <3>4, <4>1, <4>2, <4>3 DEF GetStatistics
    <3>5. CASE \E s \in Pages : Subscribe(s) \/ Hear(s) \/ Serve(s)
      BY <3>0, <3>5 DEF Subscribe, Hear, Serve, Written, Unsubscribe
    <3>6. alive \/ UNCHANGED vars
      BY DEF Next
    <3> QED
      BY <1>1, <3>0, <3>1, <3>2, <3>3, <3>4, <3>5, <3>6 DEF Other
  <2> QED
    BY <1>0, <2>1, <2>2, <2>3 DEF Noted, SafeAlone
<1>2. ASSUME NEW c \in Calls, Count(c) PROVE Noted'
  <2> USE DEF Goto, locals, counts, reader, hub, notes
  <2>0. /\ \A d \in Calls \ {c} : pc'[d] = pc[d] /\ t'[d] = t[d]
        /\ busy' = busy /\ Byzantine[c] \in 0..10 /\ c \in Transfers
    BY <1>0, <1>2, Counts, StatisticsAssumption
  <2>a. /\ \A d, e \in Counting : d # e => raced
        /\ busy /\ Counting # {} => watched
        /\ \A d \in Counting : t[d] = Nil => raced
        /\ \A n \in 0..10 : table[n] = Nil => \E d \in Counting : pc[d] = "put" /\ Byzantine[d] = n
        /\ ~alive => raced \/ watched
        /\ \A d \in Calls : pc[d] = "panicked" => raced
    BY <1>0 DEF Noted, SafeAlone
  <2>1. CASE Lookup(c)
    <3>1. raced' = (raced \/ Counting # {}) /\ watched' = (watched \/ busy) /\ table' = table
          /\ pc[c] = "lookup" /\ c \notin Counting
      BY <2>1 DEF Lookup, Counting, Section
    <3>2. \/ UNCHANGED <<pc, t>>
          \/ pc'[c] = "tx" /\ (t'[c] = Nil => Counting # {})
      <4>1. ~UNCHANGED <<pc, t>> => pc'[c] = "tx" /\ (t'[c] = table[Byzantine[c]] \/ t'[c] = c)
        BY <2>1, Found
      <4> QED
        BY <2>0, <2>a, <4>1, StatisticsAssumption
    <3>3. Counting' \subseteq Counting \cup {c}
      BY <2>0 DEF Counting
    <3>4. ~alive' => ~alive \/ Counting # {}
      BY <2>1, <1>w DEF Lookup, Throws
    <3>5. \A n \in 0..10 : table'[n] = Nil =>
            \E d \in Counting' : pc'[d] = "put" /\ Byzantine[d] = n
      BY <2>0, <2>a, <3>1 DEF Counting
    <3>6. \A d \in Calls : pc'[d] = "panicked" => raced
      BY <2>0, <2>a, <3>1, <3>2
    <3>7. \A d, e \in Counting' : d # e => raced'
      BY <2>a, <3>1, <3>3
    <3>8. ASSUME NEW d \in Counting', t'[d] = Nil PROVE raced'
      <4>1. CASE d = c
        BY <3>1, <3>2, <3>8, <4>1 DEF Counting, Section
      <4>2. CASE d # c
        BY <2>0, <2>a, <3>1, <3>3, <3>8, <4>2 DEF Counting
      <4> QED
        BY <4>1, <4>2
    <3>9. busy' /\ Counting' # {} => watched'
      BY <2>0, <2>a, <3>1
    <3>10. SafeAlone'
      BY <2>a, <3>1, <3>4, <3>6 DEF SafeAlone
    <3> QED
      BY <3>5, <3>7, <3>8, <3>9, <3>10 DEF Noted
  <2>2. CASE Load(c) \/ Store(c) \/ Assign(c)
    <3>1. UNCHANGED <<t, table, raced, watched, busy>> /\ c \in Counting /\ pc[c] # "put"
      BY <2>2, <2>0 DEF Load, Store, Assign, Counting, Section
    <3>2. Counting' \subseteq Counting
      BY <2>0, <3>1 DEF Counting
    <3>3. \A d \in Calls : pc'[d] = "panicked" => raced
      <4>1. pc'[c] = "panicked" => t[c] = Nil
        BY <1>0, <2>2, <3>1, <2>a DEF Load, Store, Assign, TypeOK, Counting, Section
      <4> QED
        BY <2>0, <2>a, <3>1, <4>1
    <3>4. ~alive' => raced \/ watched
      <4>1. CASE Load(c)
        BY <2>a, <3>1, <4>1 DEF Load
      <4>2. CASE Store(c)
        BY <2>a, <4>2 DEF Store
      <4>3. CASE Assign(c)
        <5>1. Writing # {} => \E d \in Counting : d # c
          BY <4>3 DEF Assign, Writing, Counting, Section
        <5> QED
          BY <2>a, <3>1, <4>3, <5>1 DEF Assign, Throws
      <4> QED
        BY <2>2, <4>1, <4>2, <4>3
    <3>5. \A n \in 0..10 : table'[n] = Nil =>
            \E d \in Counting' : pc'[d] = "put" /\ Byzantine[d] = n
      BY <2>0, <2>a, <3>1 DEF Counting, Section
    <3> QED
      BY <2>0, <2>a, <3>1, <3>2, <3>3, <3>4, <3>5 DEF Noted, SafeAlone
  <2>3. CASE Insert(c) \/ Put(c)
    <3>1. /\ UNCHANGED <<t, raced, watched, busy, alive>> /\ c \in Counting
          /\ pc'[c] \in {"put", "done"} /\ Counting' \subseteq Counting
      <4>1. UNCHANGED <<t, raced, watched, busy, alive>> /\ c \in Counting
            /\ pc'[c] \in {"put", "done"}
        BY <1>0, <2>3 DEF Insert, Put, Counting, Section, TypeOK
      <4> QED
        BY <2>0, <4>1 DEF Counting
    <3>2. \A d \in Calls : pc'[d] = "panicked" => raced
      BY <2>0, <2>a, <3>1
    <3>3. ASSUME NEW n \in 0..10, table'[n] = Nil
          PROVE  \E d \in Counting' : pc'[d] = "put" /\ Byzantine[d] = n
      <4>1. CASE n # Byzantine[c]
        <5>1. table[n] = Nil
          BY <1>0, <2>3, <3>3, <4>1 DEF Insert, Put, TypeOK
        <5> QED
          BY <2>0, <2>a, <4>1, <5>1 DEF Counting, Section
      <4>2. CASE n = Byzantine[c] /\ Insert(c)
        <5>1. pc'[c] = "put"
          BY <1>0, <4>2 DEF Insert, TypeOK
        <5> QED
          BY <4>2, <5>1 DEF Counting, Section
      <4>3. CASE n = Byzantine[c] /\ Put(c)
        <5>1. table'[n] = t[c] /\ t[c] \in Calls
          BY <1>0, <4>3 DEF Put, TypeOK, Positions, Counting, Section
        <5> QED
          BY <3>3, <5>1, StatisticsAssumption
      <4> QED
        BY <2>3, <4>1, <4>2, <4>3
    <3> QED
      BY <2>0, <2>a, <3>1, <3>2, <3>3 DEF Noted, SafeAlone
  <2> QED
    BY <1>2, <2>1, <2>2, <2>3 DEF Count
<1> QED
  BY <1>1, <1>2, Cases

-----------------------------------------------------------------------------
(* Without overlaps the counters are exact.                                *)

\* Only an increment changes what was counted,
LEMMA SameCounted ==
  ASSUME TypeOK, NEW c \in Calls, Count(c), ~Store(c)
  PROVE  \A n : \A f \in Field : Counted(n, f)' = Counted(n, f)
<1>1. ok' = ok /\ \A d \in Calls \ {c} : pc'[d] = pc[d]
  BY Counts
<1>2. pc[c] \in {"commit", "commitStore", "assign", "insert", "put", "done"} <=>
      pc'[c] \in {"commit", "commitStore", "assign", "insert", "put", "done"}
  <2> USE DEF TypeOK, Goto
  <2>1. CASE Lookup(c)
    BY <2>1 DEF Lookup
  <2>2. CASE Load(c)
    <3>1. pc[c] = "commit" => t[c] \in Calls
      BY DEF Positions, Counting, Section
    <3> QED
      BY <2>2, <3>1, StatisticsAssumption DEF Load
  <2>3. CASE Assign(c)
    BY <2>3 DEF Assign
  <2>4. CASE Insert(c) \/ Put(c)
    BY <2>4 DEF Insert, Put
  <2> QED
    BY <2>1, <2>2, <2>3, <2>4 DEF Count
<1>3. pc[c] \in {"assign", "insert", "put", "done"} <=> pc'[c] \in {"assign", "insert", "put", "done"}
  <2> USE DEF TypeOK, Goto
  <2>1. CASE Lookup(c)
    BY <2>1 DEF Lookup
  <2>2. CASE Load(c)
    BY <2>2 DEF Load
  <2>3. CASE Assign(c)
    BY <2>3 DEF Assign
  <2>4. CASE Insert(c) \/ Put(c)
    BY <2>4 DEF Insert, Put
  <2> QED
    BY <2>1, <2>2, <2>3, <2>4 DEF Count
<1> QED
  BY <1>1, <1>2, <1>3 DEF Counted, Past, Transfers, PeerType

\* and it adds one.
LEMMA StoreAdds ==
  ASSUME TypeOK, NEW c \in Calls, Store(c), NEW g, g = AtField(c)
  PROVE  /\ \A n : \A f \in Field : n # Byzantine[c] \/ f # g => Counted(n, f)' = Counted(n, f)
         /\ Cardinality(Counted(Byzantine[c], g)') = Cardinality(Counted(Byzantine[c], g)) + 1
<1>0. g \in Field /\ g = <<g[1], g[2]>> /\ g[2] = PeerType(c)
      /\ g[1] = IF pc[c] = "txStore" THEN "tx" ELSE "commit"
  BY FieldType DEF AtField, Store
<1>1. c \in Transfers /\ (pc[c] = "commitStore" => Commits(c)) /\ pc[c] \in {"txStore", "commitStore"}
  BY DEF Store, TypeOK, Positions, Counting, Section
<1>2. /\ ok' = ok /\ \A d \in Calls \ {c} : pc'[d] = pc[d]
      /\ pc'[c] = IF pc[c] = "txStore" /\ Commits(c) THEN "commit" ELSE "assign"
  BY DEF Store, Goto, TypeOK, locals
<1>3. \A f \in Field : f = <<f[1], f[2]>> /\ f[1] \in {"tx", "commit"} /\ f[2] \in {0, 1}
  BY DEF Field
<1>4. ASSUME NEW n, NEW f \in Field, n # Byzantine[c] \/ f # g
      PROVE  Counted(n, f)' = Counted(n, f)
  <2>1. c \in Counted(n, f)' <=> c \in Counted(n, f)
    <3>1. CASE n # Byzantine[c] \/ f[2] # PeerType(c)
      BY <3>1 DEF Counted, PeerType
    <3>2. CASE n = Byzantine[c] /\ f[2] = PeerType(c) /\ f[1] # g[1]
      <4>1. CASE f[1] = "tx"
        BY <1>0, <1>1, <1>2, <3>2, <4>1 DEF Counted, Past
      <4>2. CASE f[1] = "commit"
        BY <1>0, <1>1, <1>2, <3>2, <4>2 DEF Counted, Past, Commits, PeerType
      <4> QED
        BY <1>3, <4>1, <4>2
    <3> QED
      BY <1>0, <1>3, <1>4, <3>1, <3>2
  <2>2. \A d \in Calls \ {c} : d \in Counted(n, f)' <=> d \in Counted(n, f)
    BY <1>2 DEF Counted, Past, PeerType
  <2> QED
    BY <2>1, <2>2 DEF Counted, Transfers
<1>5. Counted(Byzantine[c], g)' = Counted(Byzantine[c], g) \cup {c} /\ c \notin Counted(Byzantine[c], g)
  <2>1. c \notin Counted(Byzantine[c], g)
    BY <1>0, <1>1 DEF Counted, Past
  <2>2. c \in Counted(Byzantine[c], g)'
    BY <1>0, <1>1, <1>2, StatisticsAssumption DEF Counted, Past, Commits, PeerType
  <2>3. \A d \in Calls \ {c} : d \in Counted(Byzantine[c], g)' <=> d \in Counted(Byzantine[c], g)
    BY <1>2 DEF Counted, Past, PeerType
  <2> QED
    BY <2>1, <2>2, <2>3 DEF Counted, Transfers
<1>6. Cardinality(Counted(Byzantine[c], g) \cup {c}) = Cardinality(Counted(Byzantine[c], g)) + 1
  BY <1>5, CountedFinite, FS_AddElement
<1> QED
  BY <1>4, <1>5, <1>6

\* Exact, with the row and the field as constants.
LEMMA ExactParts ==
  ASSUME Exact, ~raced
  PROVE  /\ \A n \in 0..10 : (\A c \in Counting : Byzantine[c] # n) =>
              \A f \in Field : Value(n, f) = Cardinality(Counted(n, f))
         /\ \A c \in Counting :
              /\ table[Byzantine[c]] \in {Absent, Nil, t[c]}
              /\ \A f \in Field : heap[t[c]][f] = Cardinality(Counted(Byzantine[c], f))
              /\ pc[c] \in Storing => reg[c] = Cardinality(Counted(Byzantine[c], AtField(c)))
BY DEF Exact

\* The rows nobody counts in are left alone by a step that counts.
LEMMA RowsElsewhere ==
  ASSUME IInv, NEW c \in Calls, Count(c), NEW n \in 0..10, n # Byzantine[c], NEW f \in Field
  PROVE  Value(n, f)' = Value(n, f) /\ Counted(n, f)' = Counted(n, f)
<1>0. TypeOK /\ OneRow
  BY DEF IInv
<1>1. Counted(n, f)' = Counted(n, f)
  <2>1. CASE Store(c)
    BY <1>0, <2>1, StoreAdds
  <2>2. CASE ~Store(c)
    BY <1>0, <2>2, SameCounted
  <2> QED
    BY <2>1, <2>2
<1>2. table'[n] = table[n]
  BY <1>0 DEF Count, Lookup, Load, Store, Assign, Insert, Put, TypeOK, counts
<1>3. table[n] \in Calls => heap'[table[n]] = heap[table[n]]
  <2>1. CASE Store(c)
    <3>1. c \in Counting /\ t[c] \in Calls
      BY <1>0, <2>1 DEF Store, TypeOK, Positions, Counting, Section
    <3>2. table[n] \in Calls => table[n] # t[c]
      BY <1>0, <3>1 DEF OneRow
    <3> QED
      BY <1>0, <2>1, <3>2 DEF Store, TypeOK
  <2>2. CASE ~Store(c)
    BY <2>2 DEF Count, Lookup, Load, Assign, Insert, Put, counts
  <2> QED
    BY <2>1, <2>2
<1> QED
  BY <1>1, <1>2, <1>3 DEF Value

LEMMA ExactNext == IInv /\ [Next]_vars => Exact'
<1> SUFFICES ASSUME IInv, [Next]_vars, raced' = FALSE PROVE Exact'
  <2>1. IInv /\ [Next]_vars => raced' \in BOOLEAN
    BY TypeNext DEF IInv, TypeOK
  <2> QED
    BY <2>1 DEF Exact
<1>0. TypeOK /\ OneRow /\ Noted /\ Fresh /\ Exact
  BY DEF IInv
<1>r. raced = FALSE
  <2>1. CASE Other
    BY <2>1, <1>0, Others
  <2>2. CASE \E c \in Calls : Count(c)
    BY <1>0, <2>2 DEF Count, Lookup, Load, Store, Assign, Insert, Put, notes, TypeOK
  <2> QED
    BY <2>1, <2>2, Cases
<1>1. CASE Other
  <2>1. /\ UNCHANGED <<t, reg, table, heap>> /\ Counting' = Counting
        /\ \A c \in Counting : pc'[c] = pc[c]
        /\ \A n : \A f \in Field : Counted(n, f)' = Counted(n, f)
    BY <1>0, <1>1, Others
  <2>2. \A n : \A f \in Field : Value(n, f)' = Value(n, f)
    BY <2>1 DEF Value
  <2>3. ASSUME NEW c \in Counting, pc[c] \in Storing, NEW f, f = AtField(c)'
        PROVE  reg[c] = Cardinality(Counted(Byzantine[c], f)')
    <3>1. f = AtField(c) /\ f \in Field
      BY <2>1, <2>3, FieldType DEF AtField, PeerType, Counting
    <3> QED
      BY <1>0, <1>r, <2>1, <2>3, <3>1, ExactParts
  <2>4. \A c \in Counting : pc'[c] \in Storing =>
          reg'[c] = Cardinality(Counted(Byzantine[c], AtField(c))')
    BY <2>1, <2>3
  <2> QED
    BY <1>0, <1>r, <2>1, <2>2, <2>4, ExactParts DEF Exact
<1>2. ASSUME NEW c \in Calls, Count(c) PROVE Exact'
  <2> USE DEF Goto, locals, counts
  <2> DEFINE m == Byzantine[c]
  <2>0. /\ \A d \in Calls \ {c} : pc'[d] = pc[d] /\ t'[d] = t[d]
        /\ m \in 0..10 /\ c \in Transfers
    BY <1>0, <1>2, Counts, StatisticsAssumption
  <2>1. \A d \in Counting : d = c
    <3>1. CASE c \in Counting
      BY <1>0, <1>r, <3>1 DEF Noted
    <3>2. CASE c \notin Counting
      <4>1. Lookup(c)
        BY <1>2, <3>2 DEF Count, Load, Store, Assign, Insert, Put, Counting, Section
      <4> QED
        BY <4>1 DEF Lookup
    <3> QED
      BY <3>1, <3>2
  <2>2. \A d \in Counting' : d = c
    BY <2>0, <2>1 DEF Counting
  <2>3. ASSUME NEW n \in 0..10, n # m, NEW f \in Field
        PROVE  Value(n, f)' = Cardinality(Counted(n, f)')
    BY <1>0, <1>2, <1>r, <2>1, <2>3, RowsElsewhere, ExactParts
  <2>p. /\ \A n \in 0..10 : (\A d \in Counting : Byzantine[d] # n) =>
             \A f \in Field : Value(n, f) = Cardinality(Counted(n, f))
        /\ c \in Counting =>
             /\ table[m] \in {Absent, Nil, t[c]}
             /\ \A f \in Field : heap[t[c]][f] = Cardinality(Counted(m, f))
             /\ pc[c] \in Storing => reg[c] = Cardinality(Counted(m, AtField(c)))
    BY <1>0, <1>r, ExactParts
  <2>4. SUFFICES
          /\ c \in Counting' =>
               /\ table'[m] \in {Absent, Nil, t'[c]}
               /\ \A f \in Field : heap'[t'[c]][f] = Cardinality(Counted(m, f)')
               /\ pc'[c] \in Storing => reg'[c] = Cardinality(Counted(m, AtField(c))')
          /\ c \notin Counting' => \A f \in Field : Value(m, f)' = Cardinality(Counted(m, f)')
    BY <2>0, <2>2, <2>3 DEF Exact
  <2>5. CASE Lookup(c) /\ UNCHANGED <<pc, t>>
    <3>1. c \notin Counting' /\ c \notin Counting /\ table' = table /\ heap' = heap
      BY <2>5 DEF Lookup, Counting, Section
    <3>2. \A f \in Field : Value(m, f)' = Value(m, f) /\ Counted(m, f)' = Counted(m, f)
      BY <1>0, <1>2, <2>5, <3>1, SameCounted DEF Value, Lookup, Store
    <3> QED
      BY <2>0, <2>1, <2>p, <3>1, <3>2
  <2>6. CASE Lookup(c) /\ ~UNCHANGED <<pc, t>>
    <3>1. /\ Counting = {} /\ Writing = {} /\ table' = table /\ heap' = heap
          /\ pc[c] = "lookup"
      BY <2>1, <2>6 DEF Lookup, Counting, Section, Writing
    <3>2. \A f \in Field : Counted(m, f)' = Counted(m, f) /\ Value(m, f) = Cardinality(Counted(m, f))
      BY <1>0, <1>2, <2>0, <2>p, <3>1, SameCounted DEF Store
    <3>3. table[m] # Nil
      BY <1>0, <2>0, <3>1 DEF Noted
    <3>4. pc'[c] = "tx" /\ t'[c] \in Calls /\ table[m] \in {Absent, t'[c]}
          /\ (table[m] = Absent => t'[c] = c)
      BY <2>0, <2>6, <3>1, <3>3, Found, StatisticsAssumption
    <3>5. ASSUME NEW f \in Field PROVE heap[t'[c]][f] = Value(m, f)
      <4>1. CASE table[m] = Absent
        <5>1. heap[c] = Zero
          BY <1>0, <3>1 DEF Fresh, Before
        <5> QED
          BY <3>4, <4>1, <5>1, StatisticsAssumption DEF Value, Zero
      <4>2. CASE table[m] = t'[c]
        BY <3>4, <4>2 DEF Value
      <4> QED
        BY <3>4, <4>1, <4>2
    <3>6. c \in Counting'
      BY <3>4 DEF Counting, Section
    <3> QED
      BY <3>1, <3>2, <3>4, <3>5, <3>6 DEF Storing
  <2>7. CASE Load(c)
    <3>1. c \in Counting /\ UNCHANGED <<table, heap, t>> /\ pc[c] \in {"tx", "commit"}
      BY <2>7 DEF Load, Counting, Section
    <3>2. t[c] # Nil /\ (UNCHANGED pc \/ pc'[c] = (IF pc[c] = "tx" THEN "txStore" ELSE "commitStore"))
          /\ reg'[c] = heap[t[c]][AtField(c)]
      BY <1>0, <1>r, <2>7, <3>1 DEF Noted, Load, TypeOK
    <3>3. pc'[c] = IF pc[c] = "tx" THEN "txStore" ELSE "commitStore"
      BY <1>0, <2>7, <3>2 DEF Load, TypeOK
    <3>4. \A f \in Field : Counted(m, f)' = Counted(m, f)
      BY <1>0, <1>2, <3>1, SameCounted DEF Store
    <3>5. ASSUME NEW f, f = AtField(c)' PROVE reg'[c] = Cardinality(Counted(m, f)')
      <4>1. f = AtField(c) /\ f \in Field
        BY <3>1, <3>3, <3>5, FieldType DEF AtField, PeerType
      <4> QED
        BY <2>p, <3>1, <3>2, <3>4, <4>1
    <3>6. c \in Counting'
      BY <3>3 DEF Counting, Section
    <3> QED
      BY <2>p, <3>1, <3>4, <3>5, <3>6
  <2>8. CASE Store(c)
    <3>1. c \in Counting /\ t[c] \in Calls /\ UNCHANGED <<table, t>> /\ pc[c] \in Storing
      BY <1>0, <2>8 DEF Store, TypeOK, Positions, Counting, Section, Storing
    <3>2. pc'[c] \in {"commit", "assign"} /\ c \in Counting'
      BY <1>0, <2>8 DEF Store, TypeOK, Counting, Section
    <3>3. ASSUME NEW f \in Field PROVE heap'[t[c]][f] = Cardinality(Counted(m, f)')
      <4>1. CASE f = AtField(c)
        <5>1. heap'[t[c]][f] = reg[c] + 1
          BY <1>0, <2>8, <3>1, <4>1 DEF Store, TypeOK
        <5>2. Cardinality(Counted(m, f)') = Cardinality(Counted(m, f)) + 1
          BY <1>0, <2>8, <4>1, StoreAdds
        <5> QED
          BY <2>p, <3>1, <4>1, <5>1, <5>2
      <4>2. CASE f # AtField(c)
        <5>1. heap'[t[c]][f] = heap[t[c]][f]
          BY <1>0, <2>8, <3>1, <4>2 DEF Store, TypeOK
        <5>2. PICK g : g = AtField(c)
          OBVIOUS
        <5>3. Counted(m, f)' = Counted(m, f)
          BY <1>0, <2>8, <4>2, <5>2, StoreAdds
        <5> QED
          BY <2>p, <3>1, <5>1, <5>3
      <4> QED
        BY <4>1, <4>2
    <3> QED
      BY <2>p, <3>1, <3>2, <3>3 DEF Storing
  <2>9. CASE Assign(c)
    <3>1. /\ c \in Counting /\ UNCHANGED <<table, heap, t>> /\ pc'[c] \in {"assign", "insert"}
      BY <1>0, <2>9 DEF Assign, Counting, Section, TypeOK
    <3>2. c \in Counting' /\ \A f \in Field : Counted(m, f)' = Counted(m, f)
      BY <1>0, <1>2, <2>9, <3>1, SameCounted DEF Counting, Section, Assign, Store
    <3> QED
      BY <2>p, <3>1, <3>2 DEF Storing
  <2>10. CASE Insert(c) \/ Put(c)
    <3>1. c \in Counting /\ UNCHANGED <<heap, t>>
      BY <2>10 DEF Insert, Put, Counting, Section
    <3>2. \A f \in Field : Counted(m, f)' = Counted(m, f)
      BY <1>0, <1>2, <2>10, SameCounted DEF Insert, Put, Store
    <3>3. CASE Insert(c)
      <4>1. pc'[c] = "put" /\ c \in Counting'
        BY <1>0, <3>3 DEF Insert, TypeOK, Counting, Section
      <4>2. table'[m] \in {Nil, table[m]} /\ (table[m] = Absent => table'[m] = Nil)
        BY <1>0, <2>0, <3>3 DEF Insert, TypeOK
      <4> QED
        BY <2>p, <3>1, <3>2, <4>1, <4>2 DEF Storing
    <3>4. CASE Put(c)
      <4>1. c \notin Counting' /\ table'[m] = t[c] /\ t[c] \in Calls
        BY <1>0, <2>0, <3>1, <3>4 DEF Put, TypeOK, Positions, Counting, Section
      <4>2. \A f \in Field : Value(m, f)' = heap[t[c]][f]
        BY <3>1, <4>1 DEF Value
      <4> QED
        BY <2>p, <3>1, <3>2, <4>1, <4>2
    <3> QED
      BY <2>10, <3>3, <3>4
  <2> QED
    BY <1>2, <2>5, <2>6, <2>7, <2>8, <2>9, <2>10 DEF Count
<1> QED
  BY <1>1, <1>2, Cases

LEMMA ShownExactNext == IInv /\ [Next]_vars => ShownExact'
<1> SUFFICES ASSUME IInv, [Next]_vars, raced' = FALSE, watched' = FALSE, row' # Absent
             PROVE  /\ table'[Byzantine[row']] = row'
                    /\ \A n : n = Byzantine[row'] =>
                         \A i \in 1..Len(shown') : shown'[i] = Cardinality(Counted(n, Fields[i])')
  <2> SUFFICES ASSUME IInv, [Next]_vars, raced' = FALSE, watched' = FALSE PROVE ShownExact'
    <3>1. IInv /\ [Next]_vars => raced' \in BOOLEAN /\ watched' \in BOOLEAN
      BY TypeNext DEF IInv, TypeOK
    <3> QED
      BY <3>1 DEF ShownExact
  <2>1. CASE row' = Absent
    <3>1. shown' = <<>>
      BY <2>1, TypeNext DEF IInv, TypeOK
    <3> QED
      BY <2>1, <3>1 DEF ShownExact
  <2>2. CASE row' # Absent
    <3>1. PICK n : n = Byzantine[row']
      OBVIOUS
    <3> QED
      BY <2>2, <3>1 DEF ShownExact
  <2> QED
    BY <2>1, <2>2
<1>0. TypeOK /\ OneRow /\ Noted /\ Exact /\ ShownExact
  BY DEF IInv
<1>1. TypeOK' /\ Noted'
  BY <1>0, TypeNext, NotedNext
<1>2. busy' /\ Counting' = {}
  BY <1>1 DEF TypeOK, Noted
<1>r. raced = FALSE
  <2>1. CASE Other
    BY <2>1, <1>0, Others
  <2>2. CASE \E c \in Calls : Count(c)
    BY <1>0, <2>2 DEF Count, Lookup, Load, Store, Assign, Insert, Put, notes, TypeOK
  <2> QED
    BY <2>1, <2>2, Cases
<1> USE DEF locals, counts, reader, hub, notes
<1>3. CASE MarshalRow
  <2>1. PICK n \in rest : row' = table[n]
    BY <1>3 DEF MarshalRow
  <2>2. n \in 0..10 /\ table[n] \in Calls
    BY <1>0, <1>1, <2>1 DEF TypeOK
  <2>3. table' = table /\ shown' = <<>>
    BY <1>0, <1>3 DEF MarshalRow, TypeOK
  <2> QED
    BY <1>0, <2>1, <2>2, <2>3 DEF OneRow
<1>4. CASE MarshalField
  <2>1. /\ table' = table /\ heap' = heap /\ row' = row /\ row \in Calls
        /\ watched = FALSE /\ Counting = {}
    BY <1>0, <1>2, <1>4, ReadsField DEF MarshalField, Counting
  <2>2. table[Byzantine[row]] = row /\ Byzantine[row] \in 0..10
    BY <1>0, <1>r, <2>1, StatisticsAssumption DEF ShownExact
  <2>3. \A f \in Field : heap[row][f] = Cardinality(Counted(Byzantine[row], f))
    BY <1>0, <1>r, <2>1, <2>2, ExactParts DEF Value
  <2>4. \A n : \A f \in Field : Counted(n, f)' = Counted(n, f)
    BY <1>0, <1>4, Others DEF Other, GetStatistics
  <2>5. ASSUME NEW i \in 1..Len(shown'), NEW n, n = Byzantine[row]
        PROVE  shown'[i] = Cardinality(Counted(n, Fields[i])')
    <3>1. Fields[i] \in Field
      <4>1. Len(shown') \in 1..4
        BY <1>0, <1>4, ReadsField
      <4>2. \A m \in 1..4 : 1..m \subseteq 1..4
        OBVIOUS
      <4>3. i \in 1..4
        BY <4>1, <4>2, Zenon
      <4> QED
        BY <4>3, FieldType
    <3>2. CASE i \in 1..Len(shown)
      BY <1>0, <1>4, <1>r, <2>1, <2>4, <2>5, <3>1, <3>2, ReadsField DEF ShownExact
    <3>3. CASE i = Len(shown')
      BY <1>4, <2>3, <2>4, <2>5, <3>1, <3>3, ReadsField
    <3> QED
      BY <1>4, <3>2, <3>3, ReadsField
  <2> QED
    BY <2>1, <2>2, <2>5
<1>5. CASE ~MarshalRow /\ ~MarshalField
  <2>1. /\ watched = FALSE /\ UNCHANGED <<row, shown, table, heap>>
        /\ \A n : \A f \in Field : Counted(n, f)' = Counted(n, f)
    <3>1. CASE UNCHANGED vars
      BY <1>0, <3>1, Others DEF vars, Other
    <3>2. CASE \E c \in Calls : Succeed(c) \/ Fail(c) \/ Visit(c) \/ Send(c) \/ EndRange(c) \/ Peek(c)
      <4>1. UNCHANGED <<row, shown, table, heap>> /\ watched = FALSE
        BY <1>0, <3>2 DEF Succeed, Fail, Visit, Send, EndRange, Peek, TypeOK
      <4> QED
        BY <1>0, <3>2, <4>1, Others DEF Other
    <3>3. CASE Request \/ EndRow \/ Respond
      <4>1. UNCHANGED <<row, shown, table, heap>> /\ watched = FALSE
        BY <1>0, <1>2, <3>3 DEF Request, EndRow, Respond, TypeOK
      <4> QED
        BY <1>0, <3>3, <4>1, Others DEF Other, GetStatistics
    <3>4. CASE \E s \in Pages : Subscribe(s) \/ Hear(s) \/ Serve(s)
      <4>1. UNCHANGED <<row, shown, table, heap>> /\ watched = FALSE
        BY <3>4 DEF Subscribe, Hear, Serve, Written, Unsubscribe
      <4> QED
        BY <1>0, <3>4, <4>1, Others DEF Other
    <3>5. ASSUME NEW c \in Calls, Count(c) PROVE FALSE
      <4>1. busy' = busy
        BY <1>0, <3>5, Counts
      <4>2. CASE Lookup(c)
        <5>1. watched' = (watched \/ busy)
          BY <4>2 DEF Lookup
        <5> QED
          BY <1>2, <4>1, <5>1
      <4>3. CASE ~Lookup(c)
        <5>1. c \in Counting /\ watched' = watched
          BY <3>5, <4>3 DEF Count, Load, Store, Assign, Insert, Put, Counting, Section
        <5> QED
          BY <1>0, <1>2, <4>1, <5>1 DEF Noted
      <4> QED
        BY <4>2, <4>3
    <3> QED
      BY <1>5, <3>1, <3>2, <3>3, <3>4, <3>5, Cases DEF Other, GetStatistics
  <2>2. row \in Calls /\ table[Byzantine[row]] = row
    BY <1>0, <1>1, <1>r, <2>1 DEF ShownExact, TypeOK
  <2>3. ASSUME NEW i \in 1..Len(shown), NEW n, n = Byzantine[row]
        PROVE  shown[i] = Cardinality(Counted(n, Fields[i])')
    <3>1. Fields[i] \in Field
      <4>1. shown \in Seq(Nat) /\ Len(shown) <= Len(Fields)
        BY <1>0 DEF TypeOK
      <4>2. i \in 1..4
        BY <4>1, FieldType
      <4> QED
        BY <4>2, FieldType
    <3> QED
      BY <1>0, <1>r, <2>1, <2>3, <3>1 DEF ShownExact
  <2> QED
    BY <2>1, <2>2, <2>3
<1> QED
  BY <1>3, <1>4, <1>5

-----------------------------------------------------------------------------
(* Theorems                                                                *)

\* The inductive invariant holds: tables belong to rows, counters and what an
\* increment has read are bounded by what was counted, overlaps are noted, and
\* without them all is exact.
THEOREM StatisticsInductive == Spec => []IInv
<1>1. Init => IInv
  BY InvInit
<1>2. IInv /\ [Next]_vars => IInv'
  <2>1. IInv /\ [Next]_vars => TypeOK'
    BY TypeNext DEF IInv
  <2> QED
    BY <2>1, OneRowNext, FreshNext, BoundedNext, ShownBoundedNext, NotedNext, ExactNext,
       ShownExactNext DEF IInv
<1> QED
  BY <1>1, <1>2, PTL DEF Spec

\* Races between InvokeCC's increments and map accesses never make a counter
\* exceed the number of transfers that have incremented it.
THEOREM NoOvercount == Spec => []NeverOvercounts
<1>1. IInv => NeverOvercounts
  <2> SUFFICES ASSUME IInv, NEW n \in 0..10, NEW f \in Field
               PROVE  Value(n, f) <= Cardinality(Counted(n, f))
    BY DEF NeverOvercounts
  <2>1. CASE table[n] \in Calls
    BY <2>1 DEF IInv, OneRow, Bounded, Value
  <2>2. CASE table[n] \notin Calls
    BY <2>2, CountedFinite DEF Value
  <2> QED
    BY <2>1, <2>2
<1> QED
  BY <1>1, StatisticsInductive, PTL

\* When no two invocations counted at the same time, StatisticsTable is exact
\* whenever none is counting.
THEOREM AloneExact == Spec => []ExactAlone
<1>1. IInv => ExactAlone
  BY DEF IInv, Exact, ExactAlone
<1> QED
  BY <1>1, StatisticsInductive, PTL

\* What getStatistics has marshalled of a row is never too much, and is exact
\* when nothing overlapped.
THEOREM ShownIsTrue == Spec => []ShownTrue
<1>1. IInv => ShownTrue
  BY DEF IInv, ShownBounded, ShownExact, ShownTrue
<1> QED
  BY <1>1, StatisticsInductive, PTL

\* A nil pointer in StatisticsTable and the runtime's check of the map are met
\* only by goroutines that overlap.
THEOREM AloneIsSafe == Spec => []SafeAlone
<1>1. IInv => SafeAlone
  BY DEF IInv, Noted
<1> QED
  BY <1>1, StatisticsInductive, PTL

\* Every variable of the statistics keeps its type.
THEOREM StatisticsTypes == Spec => []TypeOK
<1>1. IInv => TypeOK
  BY DEF IInv
<1> QED
  BY <1>1, StatisticsInductive, PTL

\* what TxChans holds: channels of handlers that have not returned
Registered == \A s \in chans : ws[s] # "gone"

\* A handler leaves the map before it returns, and never comes back.
LEMMA RegisteredNext == TypeOK /\ Registered /\ [Next]_vars => Registered'
<1> SUFFICES ASSUME TypeOK, Registered, [Next]_vars
             PROVE  Registered'
  OBVIOUS
<1> USE DEF Registered, TypeOK, hub
<1>1. CASE UNCHANGED hub
  BY <1>1
<1>2. ASSUME NEW c \in Calls, Succeed(c) \/ Fail(c) \/ InvokeCC(c)
      PROVE  Registered'
  <2>1. CASE Send(c)
    BY <2>1 DEF Send
  <2>2. CASE ~Send(c)
    BY <1>1, <1>2, <2>2 DEF Succeed, Fail, InvokeCC, Visit, EndRange, Count, Lookup, Load,
       Store, Assign, Insert, Put, Peek
  <2> QED
    BY <2>1, <2>2
<1>3. CASE GetStatistics \/ UNCHANGED vars
  BY <1>1, <1>3 DEF GetStatistics, Request, MarshalRow, MarshalField, EndRow, Respond, vars
<1>4. ASSUME NEW s \in Pages, Subscribe(s) \/ Hear(s) \/ Serve(s)
      PROVE  Registered'
  BY <1>4 DEF Subscribe, Hear, Serve, Written, Unsubscribe
<1> QED
  BY <1>2, <1>3, <1>4 DEF Next

\* The error path of InvokeCC picks only channels of handlers that have not returned.
THEOREM NobodyDeparted == Spec => NoSendToDeparted
<1> DEFINE Sound == \A c \in Calls : tgt[c] = NoPage /\ tgt'[c] # NoPage => ws[tgt'[c]] # "gone"
<1>1. Init => Registered
  BY DEF Init, Registered
<1>2. TypeOK /\ Registered /\ [Next]_vars => [Sound]_vars
  <2> SUFFICES ASSUME TypeOK, Registered, [Next]_vars, NEW c \in Calls,
                      tgt[c] = NoPage, tgt'[c] # NoPage
               PROVE  ws[tgt'[c]] # "gone"
    BY DEF Sound
  <2> USE DEF TypeOK
  <2>1. ASSUME NEW d \in Calls, Succeed(d) \/ Fail(d) \/ InvokeCC(d)
        PROVE  ws[tgt'[c]] # "gone"
    <3>1. CASE Visit(d)
      BY <3>1 DEF Visit, Registered, hub
    <3>2. CASE Send(d)
      BY <3>2 DEF Send
    <3>3. CASE ~Visit(d) /\ ~Send(d)
      BY <2>1, <3>3 DEF Succeed, Fail, InvokeCC, EndRange, Count, Lookup, Load,
         Store, Assign, Insert, Put, Peek, locals
    <3> QED
      BY <3>1, <3>2, <3>3
  <2>2. CASE \/ GetStatistics \/ UNCHANGED vars
             \/ \E s \in Pages : Subscribe(s) \/ Hear(s) \/ Serve(s)
    BY <2>2 DEF GetStatistics, Request, MarshalRow, MarshalField, EndRow, Respond,
       Subscribe, Hear, Serve, Written, Unsubscribe, locals, vars
  <2> QED
    BY <2>1, <2>2 DEF Next
<1> HIDE DEF Sound
<1>3. Spec => [][Sound]_vars
  BY <1>1, <1>2, RegisteredNext, StatisticsTypes, PTL DEF Spec
<1> QED
  BY <1>3 DEF NoSendToDeparted, Sound

=============================================================================
