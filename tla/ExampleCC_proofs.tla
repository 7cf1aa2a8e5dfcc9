--------------------------- MODULE ExampleCC_proofs ---------------------------
(***************************************************************************)
(* Proofs about ExampleCC, for any transactions, entities and amounts.     *)
(***************************************************************************)
EXTENDS ExampleCC, TLAPS

Holding == Int \cup {Nil}
Writes  == UNION {[S -> Holding] : S \in SUBSET Names}
Sims    == [ok : BOOLEAN, reads : SUBSET Names, writes : Writes, answer : Holding]
States  == [holds : [Names -> Holding], by : [Names -> Txs \cup {Nil}]]
Entries == Calls \X Holding

TypeInv ==
  /\ chain \in Seq(States) /\ log \in Seq(Entries) /\ Len(chain) = Len(log) + 1
  /\ op \in [Txs -> Calls \cup {None}]
  /\ sim \in [Txs -> Sims]
  /\ at \in [Txs -> Nat]
  /\ status \in [Txs -> {"new", "endorsed", "failed", "valid", "invalid"}]
  /\ \A t \in Txs : at[t] <= Len(chain)

\* A transaction that is endorsed or further was run on a state of the channel.
RunOnState ==
  \A t \in Txs : status[t] \notin {"new", "failed"} =>
    /\ op[t] \in Calls /\ at[t] \in 1..Len(chain)
    /\ sim[t].ok /\ sim[t] = Invoke(chain[at[t]].holds, op[t])

\* What a key holds is what the transaction wrote whose version it carries.
Versions ==
  \A h \in 1..Len(chain), n \in Names :
    /\ chain[h].holds[n] = Nil <=> chain[h].by[n] = Nil
    /\ chain[h].by[n] # Nil =>
         /\ status[chain[h].by[n]] = "valid"
         /\ n \in DOMAIN sim[chain[h].by[n]].writes
         /\ chain[h].holds[n] = sim[chain[h].by[n]].writes[n]

IInv == TypeInv /\ RunOnState /\ Versions

-----------------------------------------------------------------------------
(* The chaincode.                                                          *)

LEMMA CallKinds ==
  ASSUME NEW o \in Calls
  PROVE  \/ \E a, b \in Names, x, y \in Amounts \cup {Junk} : o = <<"init", a, x, b, y>>
         \/ \E a, b \in Names, x \in Amounts \cup {Junk} : o = <<"move", a, b, x>>
         \/ \E a \in Names : o = <<"delete", a>>
         \/ \E a \in Names : o = <<"query", a>>
         \/ o = <<"other">>
BY DEF Calls

LEMMA SimFields ==
  ASSUME NEW reads \in SUBSET Names, NEW writes \in Writes, NEW answer \in Holding
  PROVE  /\ Ran(reads, writes, answer) \in Sims
         /\ Ran(reads, writes, answer).ok
         /\ Ran(reads, writes, answer).reads = reads
         /\ Ran(reads, writes, answer).writes = writes
         /\ Ran(reads, writes, answer).answer = answer
BY DEF Ran, Sims

LEMMA FailedType == Failed \in Sims /\ ~Failed.ok
<1>1. [n \in {} |-> 0] \in [{} -> Holding]
  BY DEF Holding
<1>2. [n \in {} |-> 0] \in Writes
  BY <1>1 DEF Writes
<1> QED
  BY <1>2 DEF Failed, Sims, Holding

\* What each function writes.
LEMMA InitWrites ==
  ASSUME NEW a \in Names, NEW b \in Names, NEW x \in Int, NEW y \in Int
  PROVE  [n \in {a, b} |-> IF n = b THEN y ELSE x] \in Writes
<1>1. {a, b} \in SUBSET Names
  OBVIOUS
<1>2. [n \in {a, b} |-> IF n = b THEN y ELSE x] \in [{a, b} -> Holding]
  BY DEF Holding
<1> QED
  BY <1>1, <1>2 DEF Writes

LEMMA OtherWrites ==
  ASSUME NEW a \in Names
  PROVE  [n \in {a} |-> Nil] \in Writes /\ [n \in {} |-> 0] \in Writes
<1>1. {a} \in SUBSET Names /\ {} \in SUBSET Names
  OBVIOUS
<1>2. [n \in {a} |-> Nil] \in [{a} -> Holding] /\ [n \in {} |-> 0] \in [{} -> Holding]
  BY DEF Holding
<1> QED
  BY <1>1, <1>2 DEF Writes

LEMMA InvokeType ==
  ASSUME NEW s \in [Names -> Holding], NEW o \in Calls
  PROVE  Invoke(s, o) \in Sims
<1>0. Nil \in Holding /\ Amounts \subseteq Int
  BY ExampleAssumption DEF Holding
<1>1. ASSUME NEW a \in Names, NEW b \in Names, NEW x \in Amounts \cup {Junk},
             NEW y \in Amounts \cup {Junk}, o = <<"init", a, x, b, y>>
      PROVE  Invoke(s, o) \in Sims
  <2>1. Invoke(s, o) = InitLedger(a, x, b, y)
    BY <1>1 DEF Invoke
  <2>2. CASE Junk \in {x, y}
    BY <2>1, <2>2, FailedType DEF InitLedger
  <2>3. CASE Junk \notin {x, y}
    <3>1. x \in Int /\ y \in Int
      BY <2>3, <1>0
    <3>2. [n \in {a, b} |-> IF n = b THEN y ELSE x] \in Writes
      BY ONLY <3>1, a \in Names, b \in Names, InitWrites
    <3> QED
      BY <2>1, <2>3, <3>2, <1>0, SimFields DEF InitLedger
  <2> QED
    BY <2>2, <2>3
<1>2. ASSUME NEW a \in Names, NEW b \in Names, NEW x \in Amounts \cup {Junk},
             o = <<"move", a, b, x>>
      PROVE  Invoke(s, o) \in Sims
  <2>1. Invoke(s, o) = Move(s, a, b, x)
    BY <1>2 DEF Invoke
  <2>2. CASE Nil \in {s[a], s[b]} \/ x = Junk
    BY <2>1, <2>2, FailedType DEF Move
  <2>3. CASE ~(Nil \in {s[a], s[b]} \/ x = Junk)
    <3>1. s[a] - x \in Int /\ s[b] + x \in Int
      BY <2>3, <1>0 DEF Holding
    <3>2. [n \in {a, b} |-> IF n = b THEN s[b] + x ELSE s[a] - x] \in Writes
      BY ONLY <3>1, a \in Names, b \in Names, InitWrites
    <3> QED
      BY <2>1, <2>3, <3>2, <1>0, SimFields DEF Move
  <2> QED
    BY <2>2, <2>3
<1>3. ASSUME NEW a \in Names, o = <<"delete", a>> PROVE Invoke(s, o) \in Sims
  <2>1. Invoke(s, o) = Delete(a) /\ [n \in {a} |-> Nil] \in Writes
    BY <1>3, OtherWrites DEF Invoke
  <2> QED
    BY <2>1, <1>0, SimFields DEF Delete
<1>4. ASSUME NEW a \in Names, o = <<"query", a>> PROVE Invoke(s, o) \in Sims
  <2>1. Invoke(s, o) = Query(s, a) /\ [n \in {} |-> 0] \in Writes
    BY <1>4, OtherWrites DEF Invoke
  <2>2. s[a] \in Holding
    OBVIOUS
  <2> QED
    BY <2>1, <2>2, SimFields, FailedType DEF Query
<1>5. CASE o = <<"other">>
  BY <1>5, FailedType DEF Invoke
<1> QED
  BY <1>1, <1>2, <1>3, <1>4, <1>5, CallKinds

\* What a call does depends only on what it reads.
LEMMA Rerun ==
  ASSUME NEW s \in [Names -> Holding], NEW z \in [Names -> Holding], NEW o \in Calls,
         Invoke(s, o).ok, \A n \in Invoke(s, o).reads : z[n] = s[n]
  PROVE  Invoke(z, o) = Invoke(s, o)
<1>1. ASSUME NEW a \in Names, NEW b \in Names, NEW x \in Amounts \cup {Junk},
             NEW y \in Amounts \cup {Junk}, o = <<"init", a, x, b, y>>
      PROVE  Invoke(z, o) = Invoke(s, o)
  BY <1>1 DEF Invoke
<1>2. ASSUME NEW a \in Names, NEW b \in Names, NEW x \in Amounts \cup {Junk},
             o = <<"move", a, b, x>>
      PROVE  Invoke(z, o) = Invoke(s, o)
  <2>1. Invoke(s, o) = Move(s, a, b, x) /\ Invoke(z, o) = Move(z, a, b, x)
    BY <1>2 DEF Invoke
  <2>2. ~(Nil \in {s[a], s[b]} \/ x = Junk)
    BY <2>1, FailedType DEF Move
  <2>3. Invoke(s, o).reads = {a, b}
    BY <2>1, <2>2 DEF Move, Ran
  <2>4. z[a] = s[a] /\ z[b] = s[b]
    BY <2>3
  <2> QED
    BY <2>1, <2>4 DEF Move
<1>3. ASSUME NEW a \in Names, o = <<"delete", a>> PROVE Invoke(z, o) = Invoke(s, o)
  BY <1>3 DEF Invoke
<1>4. ASSUME NEW a \in Names, o = <<"query", a>> PROVE Invoke(z, o) = Invoke(s, o)
  <2>1. Invoke(s, o) = Query(s, a) /\ Invoke(z, o) = Query(z, a)
    BY <1>4 DEF Invoke
  <2>2. s[a] # Nil
    BY <2>1, FailedType DEF Query
  <2>3. z[a] = s[a]
    BY <2>1, <2>2 DEF Query, Ran
  <2> QED
    BY <2>1, <2>3 DEF Query
<1>5. CASE o = <<"other">>
  BY <1>5, FailedType DEF Invoke
<1> QED
  BY <1>1, <1>2, <1>3, <1>4, <1>5, CallKinds

-----------------------------------------------------------------------------
(* The states of the channel.                                              *)

LEMMA TypeInit == Init => IInv
<1> SUFFICES ASSUME Init PROVE IInv
  OBVIOUS
<1>1. [holds |-> [n \in Names |-> Nil], by |-> [n \in Names |-> Nil]] \in States
  BY DEF States, Holding
<1>2. /\ chain \in Seq(States) /\ Len(chain) = 1
      /\ chain[1] = [holds |-> [n \in Names |-> Nil], by |-> [n \in Names |-> Nil]]
      /\ log \in Seq(Entries) /\ Len(log) = 0
  BY <1>1 DEF Init
<1>3. TypeInv
  BY <1>2, FailedType DEF Init, TypeInv
<1>4. RunOnState
  BY DEF Init, RunOnState
<1>5. Versions
  BY <1>2 DEF Versions
<1> QED
  BY <1>3, <1>4, <1>5 DEF IInv

LEMMA StateType ==
  ASSUME TypeInv, NEW h \in 1..Len(chain)
  PROVE  /\ chain[h] \in States
         /\ chain[h].holds \in [Names -> Holding]
         /\ chain[h].by \in [Names -> Txs \cup {Nil}]
<1>1. chain[h] \in States
  BY DEF TypeInv
<1> QED
  BY <1>1 DEF States

LEMMA LastState ==
  ASSUME TypeInv
  PROVE  Len(chain) \in Nat /\ Len(chain) \in 1..Len(chain) /\ holds \in [Names -> Holding]
<1>1. Len(chain) \in Nat /\ Len(chain) >= 1
  BY DEF TypeInv
<1> QED
  BY <1>1, StateType DEF holds

\* What is current when it is committed is what an execution now would do.
LEMMA RunNow ==
  ASSUME IInv, NEW t \in Txs, status[t] = "endorsed", Current(t)
  PROVE  sim[t] = Invoke(holds, op[t]) /\ sim[t].ok /\ op[t] \in Calls
<1> DEFINE s == chain[at[t]].holds
<1>1. op[t] \in Calls /\ at[t] \in 1..Len(chain) /\ sim[t].ok /\ sim[t] = Invoke(s, op[t])
  BY DEF IInv, RunOnState
<1>2. s \in [Names -> Holding] /\ holds \in [Names -> Holding] /\ Len(chain) \in 1..Len(chain)
  BY <1>1, StateType, LastState DEF IInv
<1>3. sim[t].reads \subseteq Names
  BY DEF IInv, TypeInv, Sims
<1>4. \A n \in sim[t].reads : holds[n] = s[n]
  BY <1>1, <1>2, <1>3 DEF IInv, Versions, Current, holds
<1> QED
  BY <1>1, <1>2, <1>4, Rerun

LEMMA EndorseKeeps ==
  ASSUME IInv, NEW t \in Txs, Endorse(t)
  PROVE  IInv'
<1> USE DEF IInv
<1>1. PICK o \in Calls, h \in 1..Len(chain) :
        /\ op' = [op EXCEPT ![t] = o]
        /\ sim' = [sim EXCEPT ![t] = Invoke(chain[h].holds, o)]
        /\ at' = [at EXCEPT ![t] = h]
        /\ status' = [status EXCEPT ![t] =
                        IF Invoke(chain[h].holds, o).ok THEN "endorsed" ELSE "failed"]
  BY DEF Endorse
<1>2. UNCHANGED <<chain, log>> /\ status[t] = "new"
  BY DEF Endorse
<1>3. Invoke(chain[h].holds, o) \in Sims
  BY StateType, InvokeType
<1>4. h \in Nat /\ h <= Len(chain)
  BY DEF TypeInv
<1>5. TypeInv'
  BY <1>1, <1>2, <1>3, <1>4 DEF TypeInv
<1>6. RunOnState'
  BY <1>1, <1>2 DEF RunOnState, TypeInv
<1>7. Versions'
  <2> SUFFICES ASSUME NEW k \in 1..Len(chain), NEW n \in Names PROVE Versions!(k, n)'
    BY <1>2 DEF Versions
  <2>1. chain[k].by[n] \in Txs \cup {Nil}
    BY StateType
  <2>2. chain[k].by[n] # Nil => chain[k].by[n] # t
    BY <1>2 DEF Versions
  <2>3. chain[k].by[n] # Nil =>
          /\ sim'[chain[k].by[n]] = sim[chain[k].by[n]]
          /\ status'[chain[k].by[n]] = status[chain[k].by[n]]
    BY <1>1, <2>1, <2>2 DEF TypeInv
  <2> QED
    BY <1>2, <2>3 DEF Versions
<1> QED
  BY <1>5, <1>6, <1>7

LEMMA InvalidateKeeps ==
  ASSUME IInv, NEW t \in Txs, Invalidate(t)
  PROVE  IInv'
<1> USE DEF IInv
<1>1. /\ UNCHANGED <<chain, op, sim, at, log>> /\ status[t] = "endorsed"
      /\ status' = [status EXCEPT ![t] = "invalid"]
  BY DEF Invalidate
<1>2. TypeInv'
  BY <1>1 DEF TypeInv
<1>3. RunOnState'
  BY <1>1 DEF RunOnState, TypeInv
<1>4. Versions'
  <2> SUFFICES ASSUME NEW k \in 1..Len(chain), NEW n \in Names PROVE Versions!(k, n)'
    BY <1>1 DEF Versions
  <2>1. chain[k].by[n] \in Txs \cup {Nil}
    BY StateType
  <2>2. chain[k].by[n] # Nil => status'[chain[k].by[n]] = status[chain[k].by[n]]
    BY <1>1, <2>1 DEF TypeInv, Versions
  <2> QED
    BY <1>1, <2>2 DEF Versions
<1> QED
  BY <1>2, <1>3, <1>4

LEMMA CommitKeeps ==
  ASSUME IInv, NEW t \in Txs, Commit(t)
  PROVE  IInv'
<1> USE DEF IInv
<1> DEFINE w == sim[t].writes
           new == [holds |-> [n \in Names |-> IF n \in DOMAIN w THEN w[n]
                                              ELSE chain[Len(chain)].holds[n]],
                   by |-> [n \in Names |-> IF n \notin DOMAIN w THEN chain[Len(chain)].by[n]
                                           ELSE IF w[n] = Nil THEN Nil ELSE t]]
           entry == <<op[t], sim[t].answer>>
<1>1. /\ status[t] = "endorsed" /\ status' = [status EXCEPT ![t] = "valid"]
      /\ chain' = Append(chain, new) /\ log' = Append(log, entry)
      /\ UNCHANGED <<op, sim, at>>
  BY DEF Commit
<1>2. /\ w \in Writes /\ sim[t].answer \in Holding /\ op[t] \in Calls
  BY <1>1 DEF TypeInv, Sims, RunOnState
<1>3. \A n \in DOMAIN w : w[n] \in Holding
  BY <1>2 DEF Writes
<1>4. Len(chain) \in Nat /\ Len(chain) \in 1..Len(chain)
  BY LastState
<1>5. new \in States
  BY <1>3, <1>4, StateType DEF States
<1>6. entry \in Entries
  BY <1>2 DEF Entries, Holding
<1> HIDE DEF new, entry
<1>7. /\ chain' \in Seq(States) /\ Len(chain') = Len(chain) + 1
      /\ \A h \in 1..Len(chain) : chain'[h] = chain[h]
      /\ chain'[Len(chain) + 1] = new
      /\ log' \in Seq(Entries) /\ Len(log') = Len(log) + 1
  BY <1>1, <1>4, <1>5, <1>6 DEF TypeInv
<1>8. TypeInv'
  BY <1>1, <1>4, <1>7 DEF TypeInv
<1>9. RunOnState'
  <2> SUFFICES ASSUME NEW u \in Txs, status'[u] \notin {"new", "failed"}
               PROVE  /\ op[u] \in Calls /\ at[u] \in 1..Len(chain')
                      /\ sim[u].ok /\ sim[u] = Invoke(chain'[at[u]].holds, op[u])
    BY <1>1 DEF RunOnState
  <2>1. status[u] \notin {"new", "failed"}
    BY <1>1 DEF TypeInv
  <2>2. /\ op[u] \in Calls /\ at[u] \in 1..Len(chain)
        /\ sim[u].ok /\ sim[u] = Invoke(chain[at[u]].holds, op[u])
    BY <2>1 DEF RunOnState
  <2>3. chain'[at[u]] = chain[at[u]]
    BY <1>7, <2>2
  <2> QED
    BY <1>4, <1>7, <2>2, <2>3
<1>10. Versions'
  <2> SUFFICES ASSUME NEW h \in 1..(Len(chain) + 1), NEW n \in Names PROVE Versions!(h, n)'
    BY <1>7 DEF Versions
  <2>1. CASE h \in 1..Len(chain)
    <3>1. chain'[h] = chain[h] /\ sim' = sim
      BY <1>1, <1>7, <2>1
    <3>2. chain[h].by[n] \in Txs \cup {Nil}
      BY StateType, <2>1
    <3>3. chain[h].by[n] # Nil => status'[chain[h].by[n]] = "valid"
      BY <1>1, <3>2, <2>1 DEF Versions, TypeInv
    <3> QED
      BY <2>1, <3>1, <3>3 DEF Versions
  <2>2. CASE h = Len(chain) + 1
    <3>1. chain'[h] = new /\ sim' = sim /\ status'[t] = "valid" /\ t # Nil
      BY <1>1, <1>7, <2>2, ExampleAssumption DEF TypeInv
    <3>2. CASE n \in DOMAIN w
      BY <3>1, <3>2 DEF new
    <3>3. CASE n \notin DOMAIN w
      <4>1. /\ chain'[h].holds[n] = chain[Len(chain)].holds[n]
            /\ chain'[h].by[n] = chain[Len(chain)].by[n]
        BY <3>1, <3>3 DEF new
      <4>2. chain[Len(chain)].by[n] \in Txs \cup {Nil}
        BY <1>4, StateType
      <4>3. chain[Len(chain)].by[n] # Nil => status'[chain[Len(chain)].by[n]] = "valid"
        BY <1>1, <1>4, <4>2 DEF Versions, TypeInv
      <4> QED
        BY <1>4, <3>1, <4>1, <4>3 DEF Versions
    <3> QED
      BY <3>2, <3>3
  <2> QED
    BY <1>4, <2>1, <2>2
<1> QED
  BY <1>8, <1>9, <1>10

LEMMA InvStep == IInv /\ [Next]_vars => IInv'
<1> SUFFICES ASSUME IInv, [Next]_vars PROVE IInv'
  OBVIOUS
<1>1. ASSUME NEW t \in Txs, Endorse(t) \/ Commit(t) \/ Invalidate(t) PROVE IInv'
  BY <1>1, EndorseKeeps, CommitKeeps, InvalidateKeeps
<1>2. CASE UNCHANGED vars
  BY <1>2 DEF vars, IInv, TypeInv, RunOnState, Versions
<1> QED
  BY <1>1, <1>2 DEF Next

\* The channel has states that carry, for each key, who wrote what it holds.
THEOREM Invariance == Spec => []IInv
<1> QED
  BY TypeInit, InvStep, PTL DEF Spec

\* The states of the channel, and what was executed on them, have their types; a key
\* holds nothing exactly if nobody has written it.
THEOREM ExampleTypes == Spec => []TypeOK
<1>1. IInv => TypeOK
  <2> SUFFICES ASSUME IInv PROVE TypeOK
    OBVIOUS
  <2> USE DEF IInv
  <2>1. \A h \in 1..Len(chain) :
          /\ chain[h].holds \in [Names -> Int \cup {Nil}]
          /\ chain[h].by \in [Names -> Txs \cup {Nil}]
    BY StateType DEF Holding
  <2>2. \A h \in 1..Len(chain) :
          \A n \in Names : chain[h].holds[n] = Nil <=> chain[h].by[n] = Nil
    BY DEF Versions
  <2>3. \A t \in Txs : /\ at[t] \in 0..Len(chain) /\ sim[t].reads \subseteq Names
                       /\ DOMAIN sim[t].writes \subseteq Names
    <3> TAKE t \in Txs
    <3>1. at[t] \in 0..Len(chain)
      BY LastState DEF TypeInv
    <3>2. sim[t].reads \subseteq Names /\ sim[t].writes \in Writes
      BY DEF TypeInv, Sims
    <3> QED
      BY <3>1, <3>2 DEF Writes
  <2> QED
    BY <2>1, <2>2, <2>3 DEF TypeOK, TypeInv
<1> QED
  BY <1>1, Invariance, PTL

-----------------------------------------------------------------------------
(* What a commit does.                                                     *)

\* The call that is committed does to the last state what it would do if it were
\* executed on it now.
LEMMA CommitEffect ==
  ASSUME IInv, NEW t \in Txs, Commit(t)
  PROVE  LET run == Invoke(holds, op[t])
         IN  /\ run.ok /\ op[t] \in Calls
             /\ holds' = [n \in Names |-> IF n \in DOMAIN run.writes THEN run.writes[n]
                                          ELSE holds[n]]
             /\ log' = Append(log, <<op[t], run.answer>>)
<1>1. sim[t] = Invoke(holds, op[t]) /\ sim[t].ok /\ op[t] \in Calls
  BY RunNow DEF Commit
<1> DEFINE w == sim[t].writes
           new == [holds |-> [n \in Names |-> IF n \in DOMAIN w THEN w[n]
                                              ELSE chain[Len(chain)].holds[n]],
                   by |-> [n \in Names |-> IF n \notin DOMAIN w THEN chain[Len(chain)].by[n]
                                           ELSE IF w[n] = Nil THEN Nil ELSE t]]
<1>2. chain' = Append(chain, new)
  BY DEF Commit
<1>3. chain'[Len(chain')] = new
  <2> HIDE DEF new
  <2> QED
    BY <1>2 DEF IInv, TypeInv
<1>4. holds' = [n \in Names |-> IF n \in DOMAIN w THEN w[n] ELSE holds[n]]
  BY <1>3 DEF holds
<1>5. log' = Append(log, <<op[t], sim[t].answer>>)
  BY DEF Commit
<1> QED
  BY <1>1, <1>4, <1>5

LEMMA CommitImplements ==
  ASSUME IInv, NEW t \in Txs, Commit(t)
  PROVE  Ledger!Next
<1> DEFINE o == op[t]
           run == Invoke(holds, o)
<1>0. /\ run.ok /\ o \in Calls
      /\ holds' = [n \in Names |-> IF n \in DOMAIN run.writes THEN run.writes[n] ELSE holds[n]]
      /\ log' = Append(log, <<o, run.answer>>)
  BY CommitEffect
<1>00. holds \in [Names -> Holding] /\ Nil \notin Int
  BY LastState, ExampleAssumption DEF IInv
<1> HIDE DEF o
<1>1. ASSUME NEW a \in Names, NEW b \in Names, NEW x \in Amounts \cup {Junk},
             NEW y \in Amounts \cup {Junk}, o = <<"init", a, x, b, y>>
      PROVE  Ledger!Next
  <2>1. run = InitLedger(a, x, b, y)
    BY <1>1 DEF Invoke
  <2>2. x \in Amounts /\ y \in Amounts
    BY <2>1, <1>0, FailedType DEF InitLedger
  <2>3. run.writes = [n \in {a, b} |-> IF n = b THEN y ELSE x] /\ run.answer = Nil
    BY <2>1, <2>2, ExampleAssumption DEF InitLedger, Ran
  <2>4. holds' = [holds EXCEPT ![a] = x, ![b] = y]
    BY <1>0, <1>00, <2>3
  <2>5. log' = Append(log, <<o, Nil>>)
    BY <1>0, <2>3
  <2> QED
    BY <1>1, <2>2, <2>4, <2>5 DEF Ledger!Next, Ledger!Create, Ledger!Done
<1>2. ASSUME NEW a \in Names, NEW b \in Names, NEW x \in Amounts \cup {Junk},
             o = <<"move", a, b, x>>
      PROVE  Ledger!Next
  <2>1. run = Move(holds, a, b, x)
    BY <1>2 DEF Invoke
  <2>2. x \in Amounts /\ holds[a] # Nil /\ holds[b] # Nil
    BY <2>1, <1>0, FailedType DEF Move
  <2>3. /\ run.writes = [n \in {a, b} |-> IF n = b THEN holds[b] + x ELSE holds[a] - x]
        /\ run.answer = Nil
    BY <2>1, <2>2, ExampleAssumption DEF Move, Ran
  <2>4. log' = Append(log, <<o, Nil>>)
    BY <1>0, <2>3
  <2>5. CASE a = b
    <3>1. holds' = [holds EXCEPT ![a] = @ + x]
      BY <1>0, <1>00, <2>3, <2>5
    <3> QED
      BY <1>2, <2>2, <2>4, <2>5, <3>1 DEF Ledger!Next, Ledger!Gain, Ledger!Done
  <2>6. CASE a # b
    <3>1. holds' = [holds EXCEPT ![a] = @ - x, ![b] = @ + x]
      BY <1>0, <1>00, <2>3, <2>6
    <3> QED
      BY <1>2, <2>2, <2>4, <2>6, <3>1 DEF Ledger!Next, Ledger!Pay, Ledger!Done
  <2> QED
    BY <2>5, <2>6
<1>3. ASSUME NEW a \in Names, o = <<"delete", a>> PROVE Ledger!Next
  <2>1. run = Delete(a)
    BY <1>3 DEF Invoke
  <2>2. run.writes = [n \in {a} |-> Nil] /\ run.answer = Nil
    BY <2>1 DEF Delete, Ran
  <2>3. holds' = [holds EXCEPT ![a] = Nil] /\ log' = Append(log, <<o, Nil>>)
    BY <1>0, <1>00, <2>2
  <2> QED
    BY <1>3, <2>3 DEF Ledger!Next, Ledger!Remove, Ledger!Done
<1>4. ASSUME NEW a \in Names, o = <<"query", a>> PROVE Ledger!Next
  <2>1. run = Query(holds, a)
    BY <1>4 DEF Invoke
  <2>2. holds[a] # Nil
    BY <2>1, <1>0, FailedType DEF Query
  <2>3. run.writes = [n \in {} |-> 0] /\ run.answer = holds[a]
    BY <2>1, <2>2 DEF Query, Ran
  <2>4. holds' = holds
    BY <1>0, <1>00, <2>3
  <2>5. log' = Append(log, <<o, holds[a]>>)
    BY <1>0, <2>3
  <2> QED
    BY <1>4, <2>2, <2>4, <2>5 DEF Ledger!Next, Ledger!Read, Ledger!Done
<1>5. CASE o = <<"other">>
  BY <1>5, <1>0, FailedType DEF Invoke
<1> QED
  BY <1>0, <1>1, <1>2, <1>3, <1>4, <1>5, CallKinds

LEMMA QuietSteps ==
  ASSUME NEW t, Endorse(t) \/ Invalidate(t) \/ UNCHANGED vars
  PROVE  UNCHANGED <<holds, log>>
BY DEF Endorse, Invalidate, vars, holds

\* However executions lag behind and transactions are ordered, the calls of the
\* example chaincode do what they would have done one after the other.
THEOREM SerialExecution == Spec => Serial
<1>1. Init => Ledger!Init
  BY DEF Init, Ledger!Init, holds
<1>2. IInv /\ [Next]_vars => [Ledger!Next]_(Ledger!vars)
  <2> SUFFICES ASSUME IInv, [Next]_vars PROVE [Ledger!Next]_(Ledger!vars)
    OBVIOUS
  <2>1. ASSUME NEW t \in Txs, Commit(t) PROVE Ledger!Next
    BY <2>1, CommitImplements
  <2> QED
    BY <2>1, QuietSteps DEF Next, Ledger!vars
<1> QED
  BY <1>1, <1>2, Invariance, PTL DEF Spec, Serial, Ledger!Spec

\* A deleted entity comes back only by Init: a move that read it before is invalid.
THEOREM DeletedStays == Spec => OnlyInitCreates
<1> DEFINE Created ==
      \A n \in Names :
        holds[n] = Nil /\ holds'[n] # Nil
          => \E t \in Txs : status'[t] # status[t] /\ op[t][1] = "init"
<1>1. IInv /\ [Next]_vars => [Created]_vars
  <2> SUFFICES ASSUME IInv, [Next]_vars, NEW n \in Names, holds[n] = Nil, holds'[n] # Nil
               PROVE  \E t \in Txs : status'[t] # status[t] /\ op[t][1] = "init"
    OBVIOUS
  <2>1. PICK t \in Txs : Commit(t)
    BY QuietSteps DEF Next
  <2>2. status'[t] # status[t]
    BY <2>1 DEF Commit, IInv, TypeInv
  <2> DEFINE run == Invoke(holds, op[t])
  <2>3. /\ run.ok /\ op[t] \in Calls
        /\ holds' = [m \in Names |-> IF m \in DOMAIN run.writes THEN run.writes[m]
                                     ELSE holds[m]]
    BY <2>1, CommitEffect
  <2>4. n \in DOMAIN run.writes /\ run.writes[n] # Nil
    BY <2>3
  <2>5. op[t][1] = "init"
    <3>1. ASSUME NEW a \in Names, NEW b \in Names, NEW x \in Amounts \cup {Junk},
                 op[t] = <<"move", a, b, x>>
          PROVE  FALSE
      <4>1. run = Move(holds, a, b, x)
        BY <3>1 DEF Invoke
      <4>2. holds[a] # Nil /\ holds[b] # Nil
        BY <4>1, <2>3, FailedType DEF Move
      <4>3. DOMAIN run.writes = {a, b}
        BY <4>1, <2>3, FailedType DEF Move, Ran
      <4> QED
        BY <4>2, <4>3, <2>4
    <3>2. ASSUME NEW a \in Names, op[t] = <<"delete", a>> PROVE FALSE
      BY <3>2, <2>4 DEF Invoke, Delete, Ran
    <3>3. ASSUME NEW a \in Names, op[t] = <<"query", a>> PROVE FALSE
      <4>1. run = Query(holds, a)
        BY <3>3 DEF Invoke
      <4>2. DOMAIN run.writes = {}
        BY <4>1, <2>3, FailedType DEF Query, Ran
      <4> QED
        BY <4>2, <2>4
    <3>4. CASE op[t] = <<"other">>
      BY <3>4, <2>3, FailedType DEF Invoke
    <3> QED
      BY <2>3, <3>1, <3>2, <3>3, <3>4, CallKinds
  <2> QED
    BY <2>2, <2>5
<1> QED
  BY <1>1, Invariance, PTL DEF Spec, OnlyInitCreates
=============================================================================
