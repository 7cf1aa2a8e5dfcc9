------------------------------ MODULE ExampleCC ------------------------------
(***************************************************************************)
(* The chaincode example_cc: Init, move, delete and query, run by a peer   *)
(* on the state it has reached, which may be behind, and committed in the  *)
(* order the transactions were put into blocks, each only if what it read  *)
(* has not been written since.                                             *)
(*                                                                         *)
(* A definition marked (mutant) is the next one with a bug the properties  *)
(* have to notice.                                                         *)
(***************************************************************************)
EXTENDS Integers, Sequences

CONSTANTS
  Txs,      (* transactions                                            *)
  Names,    (* the entities                                            *)
  Amounts,  (* what is held at first, and what is moved                *)
  Nil,      (* the state of a key that does not exist                  *)
  Junk      (* an argument that strconv.Atoi refuses                   *)

ASSUME ExampleAssumption ==
  /\ Amounts \subseteq Int
  /\ Nil \notin Int \cup Txs /\ Junk \notin Int

VARIABLES
  chain,    (* the states of the channel: what each key holds and the  *)
            (* transaction that wrote it                               *)
  op,       (* what each transaction calls                             *)
  sim,      (* what its execution read, wrote and answered             *)
  at,       (* the state it was executed on                            *)
  status,   (* how far it is                                           *)
  log       (* bookkeeping: the valid transactions with their answers  *)

vars == <<chain, op, sim, at, status, log>>

None   == <<"none">>
Failed == [ok |-> FALSE, reads |-> {}, writes |-> [n \in {} |-> 0], answer |-> Nil]
Ran(reads, writes, answer) ==
  [ok |-> TRUE, reads |-> reads, writes |-> writes, answer |-> answer]

\* "other" is a function there is not, or a wrong number of arguments
Calls ==
  {<<"init", a, x, b, y>> : a, b \in Names, x, y \in Amounts \cup {Junk}}
    \cup {<<"move", a, b, x>> : a, b \in Names, x \in Amounts \cup {Junk}}
    \cup {<<"delete", a>> : a \in Names}
    \cup {<<"query", a>> : a \in Names}
    \cup {<<"other">>}

(****************************** the chaincode ******************************)

\* the second PutState of a key replaces the first
InitLedger(a, x, b, y) ==
  IF Junk \in {x, y} THEN Failed
  ELSE Ran({}, [n \in {a, b} |-> IF n = b THEN y ELSE x], Nil)

\* (mutant) reads B after it has written A
MoveInOrder(s, a, b, x) ==
  IF Nil \in {s[a], s[b]} \/ x = Junk THEN Failed
  ELSE Ran({a, b},
           [n \in {a, b} |-> IF a = b THEN s[a] ELSE IF n = b THEN s[b] + x ELSE s[a] - x],
           Nil)

\* both are read before one is written: of a move to oneself the gain remains.
\* Nothing bounds what is moved, below or above
Move(s, a, b, x) ==
  IF Nil \in {s[a], s[b]} \/ x = Junk THEN Failed
  ELSE Ran({a, b}, [n \in {a, b} |-> IF n = b THEN s[b] + x ELSE s[a] - x], Nil)

\* deletes without a look
Delete(a) == Ran({}, [n \in {a} |-> Nil], Nil)

Query(s, a) == IF s[a] = Nil THEN Failed ELSE Ran({a}, [n \in {} |-> 0], s[a])

Invoke(s, o) ==
  CASE o[1] = "init"   -> InitLedger(o[2], o[3], o[4], o[5])
    [] o[1] = "move"   -> Move(s, o[2], o[3], o[4])
    [] o[1] = "delete" -> Delete(o[2])
    [] o[1] = "query"  -> Query(s, o[2])
    [] OTHER           -> Failed

(******************************* the network *******************************)

Init ==
  /\ chain = << [holds |-> [n \in Names |-> Nil], by |-> [n \in Names |-> Nil]] >>
  /\ op = [t \in Txs |-> None]
  /\ sim = [t \in Txs |-> Failed]
  /\ at = [t \in Txs |-> 0]
  /\ status = [t \in Txs |-> "new"]
  /\ log = <<>>

\* a peer runs the chaincode on a state it has, old or new
Endorse(t) ==
  /\ status[t] = "new"
  /\ \E o \in Calls, h \in 1..Len(chain) :
       LET run == Invoke(chain[h].holds, o)
       IN  /\ op' = [op EXCEPT ![t] = o]
           /\ sim' = [sim EXCEPT ![t] = run]
           /\ at' = [at EXCEPT ![t] = h]
           /\ status' = [status EXCEPT ![t] = IF run.ok THEN "endorsed" ELSE "failed"]
  /\ UNCHANGED <<chain, log>>

\* the versions that were read are those of the state now
Current(t) ==
  \A n \in sim[t].reads : chain[at[t]].by[n] = chain[Len(chain)].by[n]

\* the next transaction of a block, at every peer
Commit(t) ==
  /\ status[t] = "endorsed" /\ Current(t)
  /\ status' = [status EXCEPT ![t] = "valid"]
  /\ LET last == chain[Len(chain)]
         w    == sim[t].writes
     IN  chain' = Append(chain,
           [holds |-> [n \in Names |-> IF n \in DOMAIN w THEN w[n] ELSE last.holds[n]],
            by    |-> [n \in Names |-> IF n \notin DOMAIN w THEN last.by[n]
                                       ELSE IF w[n] = Nil THEN Nil ELSE t]])
  /\ log' = Append(log, <<op[t], sim[t].answer>>)
  /\ UNCHANGED <<op, sim, at>>

Invalidate(t) ==
  /\ status[t] = "endorsed" /\ ~Current(t)
  /\ status' = [status EXCEPT ![t] = "invalid"]
  /\ UNCHANGED <<chain, op, sim, at, log>>

Next == \E t \in Txs : Endorse(t) \/ Commit(t) \/ Invalidate(t)

Spec == Init /\ [][Next]_vars

(******************************** properties *******************************)

holds == chain[Len(chain)].holds

TypeOK ==
  /\ \A h \in 1..Len(chain) :
       /\ chain[h].holds \in [Names -> Int \cup {Nil}]
       /\ chain[h].by \in [Names -> Txs \cup {Nil}]
       /\ \A n \in Names : chain[h].holds[n] = Nil <=> chain[h].by[n] = Nil
  /\ op \in [Txs -> Calls \cup {None}]
  /\ status \in [Txs -> {"new", "endorsed", "failed", "valid", "invalid"}]
  /\ \A t \in Txs : at[t] \in 0..Len(chain) /\ sim[t].reads \subseteq Names
                    /\ DOMAIN sim[t].writes \subseteq Names
  /\ Len(chain) = Len(log) + 1

\* What the transactions do together is what they would have done one after the
\* other, in the order they were committed, on whatever states they were run; a query
\* that is committed has answered what it would have answered then.
Ledger == INSTANCE ExampleLedger
Serial == Ledger!Spec

\* An entity that was deleted comes back only by Init, never by a move that had read
\* it before.
OnlyInitCreates ==
  [][\A n \in Names :
       holds[n] = Nil /\ holds'[n] # Nil
         => \E t \in Txs : status'[t] # status[t] /\ op[t][1] = "init"]_vars
=============================================================================
