--------------------------- MODULE InvokeCC_proofs ---------------------------
(***************************************************************************)
(* Proofs about InvokeCC, for every set of accounts, invocations and       *)
(* lagging peers and every policy.                                         *)
(***************************************************************************)
EXTENDS InvokeCC, SetLemmas, FiniteSetTheorems, SequenceTheorems

\* What the chaincode writes is a token, with the flag of the request.
LEMMA InvokeType ==
  ASSUME NEW t \in Token, NEW r \in Transfers \cup SetPeers, Invoke(t, r).ok
  PROVE  Invoke(t, r).payload \in Token /\ Invoke(t, r).payload.flag = r.flag
<1>1. t # NoToken
  BY NoTokenAssumption
<1>2. CASE r \in Transfers
  <2>1. Invoke(t, r) = Transfer(t, r.from, r.to, r.amount, r.flag)
    BY <1>2 DEF Transfers, Invoke
  <2>2. r.amount > 0
    BY <2>1, <1>2 DEF Transfer, Error, Transfers
  <2>3. Move(t.balance, r.from, r.to, r.amount) \in [Accounts -> Int]
    BY <1>2 DEF Move, Token, Transfers
  <2>4. Invoke(t, r).payload =
          [supply |-> t.supply, byz |-> t.byz, flag |-> r.flag,
           balance |-> Move(t.balance, r.from, r.to, r.amount)]
    BY <2>1, <2>2, <1>1, <1>2 DEF Transfer, Success, Transfers
  <2> QED
    BY <2>3, <2>4, <1>2 DEF Token, Transfers
<1>3. CASE r \in SetPeers
  <2>1. Invoke(t, r) = SetPeer(t, r.good, r.bad, r.flag)
    BY <1>3 DEF SetPeers, Invoke
  <2>2. r.good \cup r.bad \subseteq Orgs
    BY <2>1 DEF SetPeer, Error
  <2>3. Invoke(t, r).payload =
          [supply |-> t.supply, balance |-> t.balance, flag |-> r.flag,
           byz |-> (t.byz \ r.good) \cup r.bad]
    BY <2>1, <2>2, <1>1 DEF SetPeer, Success
  <2> QED
    BY <2>2, <2>3, <1>3 DEF Token, SetPeers
<1> QED
  BY <1>2, <1>3

LEMMA ForgedType ==
  ASSUME NEW t \in Token
  PROVE  Forged(t) \in Token
BY DEF Forged, Token

-----------------------------------------------------------------------------
(* Counting peers.                                                         *)

\* There are ten peers; a set of them is finite and no larger than one that
\* contains it.
LEMMA Peers10 ==
  /\ IsFiniteSet(Orgs) /\ Cardinality(Orgs) = 10
  /\ \A S \in SUBSET Orgs : IsFiniteSet(S) /\ Cardinality(S) \in 0..10
  /\ \A S \in SUBSET Orgs : \A R \in SUBSET S : Cardinality(R) <= Cardinality(S)
<1>1. IsFiniteSet(Orgs) /\ Cardinality(Orgs) = 10
  <2>1. IsFiniteSet(1..10) /\ Cardinality(1..10) = IF 1 > 10 THEN 0 ELSE 10 - 1 + 1
    <3>1. 1 \in Int /\ 10 \in Int
      OBVIOUS
    <3> QED
      BY <3>1, FS_Interval, Zenon
  <2> QED
    BY <2>1 DEF Orgs
<1>2. \A S \in SUBSET Orgs : IsFiniteSet(S) /\ Cardinality(S) <= 10 /\ Cardinality(S) \in Nat
  BY <1>1, FS_Subset, FS_CardinalityType
<1>3. \A S \in SUBSET Orgs : \A R \in SUBSET S : Cardinality(R) <= Cardinality(S)
  BY <1>2, FS_Subset
<1> QED
  BY <1>1, <1>2, <1>3

\* What remains of a set of peers without some of them.
LEMMA Remainder ==
  ASSUME NEW S \in SUBSET Orgs, NEW R \in SUBSET S
  PROVE  Cardinality(S \ R) = Cardinality(S) - Cardinality(R)
<1>1. IsFiniteSet(S)
  BY Peers10
<1>2. S \cap R = R
  OBVIOUS
<1> QED
  BY <1>1, <1>2, FS_Difference

-----------------------------------------------------------------------------
(* Endorsement.                                                            *)

\* An answer is what the chaincode says or, from a byzantine peer to a request
\* with the flag, what that peer makes of it; it is a token if it is no error.
LEMMA AnswerIs ==
  ASSUME InvokeAssumption, NEW c \in Clients, NEW p, NEW v, states[v] \in Token,
         Invoke(states[v], Request[c]).ok
  PROVE  LET r == Invoke(states[v], Request[c]).payload
             a == AnswerAt(v, p, c).payload
         IN  /\ a = r \/ (a = Forged(r) /\ p \in states[v].byz /\ Request[c].flag)
             /\ p \in states[v].byz /\ Request[c].flag => a = Forged(r)
             /\ a \in Token
<1> DEFINE r == Invoke(states[v], Request[c]).payload
<1>1. Request[c] \in Transfers \cup SetPeers
  BY DEF InvokeAssumption
<1>2. r \in Token /\ r.flag = Request[c].flag
  BY <1>1, InvokeType
<1>3. Forged(r) \in Token
  BY <1>2, ForgedType
<1>4. AnswerAt(v, p, c).payload =
        IF p \in states[v].byz /\ r.flag THEN Forged(r) ELSE r
  BY DEF AnswerAt
<1> QED
  BY <1>2, <1>3, <1>4

\* A transaction that Execute hands to the orderer is endorsed.
LEMMA ExecuteEndorses ==
  ASSUME InvokeAssumption, TypeOK, NEW c \in Clients,
         Execute(c), pc'[c] = "wait"
  PROVE  read'[c] \in 1..Len(states) /\ Endorsed(c)'
<1> DEFINE T == Targets(nPeers[c], bPeers[c])
<1>1. pc[c] = "execute" /\ {c} \subseteq DOMAIN pc \cap DOMAIN read \cap DOMAIN write \cap DOMAIN matching
  BY DEF Execute, TypeOK
<1>2. PICK v \in Answering(c), first \in T :
        /\ Accepted(c, T, v, first)
        /\ read' = [read EXCEPT ![c] = v[first]]
        /\ write' = [write EXCEPT ![c] = AnswerAt(v[first], first, c).payload]
        /\ matching' = [matching EXCEPT ![c] = Agreeing(c, T, v, first)]
  BY <1>1 DEF Execute
<1>3. T \subseteq Orgs
  BY DEF Targets, TypeOK
<1>4. first \in Orgs /\ v[first] \in 1..Len(states)
  <2>1. v \in [Orgs -> 1..Len(states)]
    BY DEF Answering, TypeOK
  <2> QED
    BY <1>3, <2>1
<1>5. /\ read'[c] = v[first]
      /\ write'[c] = AnswerAt(v[first], first, c).payload
      /\ matching'[c] = Agreeing(c, T, v, first)
  BY <1>1, <1>2
<1>6. UNCHANGED <<states, nPeers, bPeers>>
  BY DEF Execute, chain
<1>7. states[v[first]] \in Token
  BY <1>4, ElementOfSeq DEF TypeOK
<1>8. Invoke(states[v[first]], Request[c]).ok
  BY <1>2 DEF Accepted, AnswerAt
<1>9. Intended(c)' = Invoke(states[v[first]], Request[c])
  BY <1>5, <1>6 DEF Intended
<1>10. \A p \in matching'[c] : write'[c] = AnswerAt(v[first], p, c).payload
  <2> SUFFICES ASSUME NEW p \in Agreeing(c, T, v, first)
               PROVE  write'[c] = AnswerAt(v[first], p, c).payload
    BY <1>5
  <2>1. AnswerAt(v[p], p, c) = AnswerAt(v[first], first, c)
    BY DEF Agreeing
  <2>2. v[p] = v[first]
    BY <2>1 DEF AnswerAt
  <2> QED
    BY <2>1, <2>2, <1>5
<1>11. write'[c] \in Token
  BY <1>5, <1>7, <1>8, AnswerIs
<1>12. /\ matching'[c] \subseteq T
       /\ ~Mismatch(Cardinality(T \ matching'[c]))
  BY <1>2, <1>5 DEF Accepted, Agreeing
<1>13. T' = T
  BY <1>6 DEF Targets
<1>14. \A p \in matching'[c] : write'[c] = AnswerAt(read[c], p, c)'.payload
  <2> SUFFICES ASSUME NEW p \in matching'[c]
               PROVE  write'[c] = AnswerAt(read[c], p, c)'.payload
    OBVIOUS
  <2>1. AnswerAt(read[c], p, c)' = AnswerAt(v[first], p, c)
    BY <1>5, <1>6 DEF AnswerAt
  <2> QED
    BY <2>1, <1>10
<1> QED
  BY <1>4, <1>5, <1>6, <1>8, <1>9, <1>11, <1>12, <1>13, <1>14 DEF Endorsed

-----------------------------------------------------------------------------
(* The inductive invariant.                                                *)

\* The ledger only grows.
Grows ==
  /\ Len(states') \in Nat /\ Len(states) <= Len(states')
  /\ \A i \in 1..Len(states) : states'[i] = states[i]

LEMMA StatesGrow ==
  ASSUME TypeOK, NEW t \in Token, states' = Append(states, t)
  PROVE  /\ Grows
         /\ states' \in Seq(Token)
         /\ Len(states') = Len(states) + 1
         /\ states'[Len(states) + 1] = t
BY AppendProperties DEF Grows, TypeOK

\* The steps that do not concern an invocation keep what is known of it.
LEMMA Unconcerned ==
  ASSUME TypeOK, NEW c \in Clients, Grows, InvocationInv(c),
         pc'[c] = pc[c], nPeers'[c] = nPeers[c], bPeers'[c] = bPeers[c],
         read'[c] = read[c], write'[c] = write[c], matching'[c] = matching[c],
         c \in pending' <=> c \in pending, outcome'[c] = outcome[c]
  PROVE  InvocationInv(c)'
<1>1. CASE ~Executed(c)
  BY <1>1 DEF InvocationInv, Executed
<1>2. CASE Executed(c)
  <2>1. read[c] \in 1..Len(states)
    BY <1>2 DEF Executed, TypeOK
  <2>2. states'[read[c]] = states[read[c]]
    BY <2>1 DEF Grows
  <2>3. Intended(c)' = Intended(c)
    BY <2>2 DEF Intended
  <2>4. \A p : AnswerAt(read[c], p, c)' = AnswerAt(read[c], p, c)
    BY <2>2 DEF AnswerAt
  <2>5. Targets(nPeers[c], bPeers[c])' = Targets(nPeers[c], bPeers[c])
    BY DEF Targets
  <2>6. Endorsed(c)'
    BY <1>2, <2>3, <2>4, <2>5 DEF InvocationInv, Endorsed
  <2>7. ASSUME Applied(c) PROVE Applied(c)'
    <3>1. Len(states) \in Nat /\ read[c] + 1 \in 1..Len(states)
      BY <2>1, <2>7 DEF Applied, TypeOK
    <3>2. read'[c] < Len(states') /\ states'[read'[c] + 1] = write'[c]
      BY <2>1, <2>7, <3>1 DEF Applied, Grows
    <3> QED
      BY <2>7, <3>2 DEF Applied, PolicyHolds
  <2> QED
    BY <2>6, <2>7 DEF InvocationInv, Executed
<1> QED
  BY <1>1, <1>2

LEMMA InitInv ==
  ASSUME InvokeAssumption, Init
  PROVE  IInv
<1>1. TypeOK
  <2>1. PICK t \in Initial : states = <<t>>
    BY DEF Init
  <2>2. t \in Token
    BY <2>1 DEF InvokeAssumption
  <2>3. states \in Seq(Token) /\ Len(states) = 1
    BY <2>1, <2>2
  <2>4. NotAsked \in [Laggards -> 0..Len(states)]
    BY <2>3 DEF NotAsked
  <2>5. AskedOK
    BY <2>4 DEF Init, AskedOK
  <2> QED
    BY <2>3, <2>5 DEF Init, TypeOK, InvokeAssumption
<1>2. \A c \in Clients : InvocationInv(c)
  BY DEF Init, InvocationInv, Executed
<1> QED
  BY <1>1, <1>2 DEF IInv

\* Every step grows the ledger by a token or leaves it alone.
LEMMA LedgerStep ==
  ASSUME InvokeAssumption, IInv, [Next]_vars
  PROVE  Grows /\ states' \in Seq(Token) /\ Len(states') >= 1
<1>1. CASE UNCHANGED states
  BY <1>1 DEF Grows, IInv, TypeOK
<1>2. ASSUME NEW c \in Clients, Order(c), Valid(c), states' = Append(states, write[c])
      PROVE  Grows /\ states' \in Seq(Token) /\ Len(states') >= 1
  <2>1. write[c] \in Token
    BY <1>2 DEF IInv, InvocationInv, Endorsed, Order
  <2> QED
    BY <1>2, <2>1, StatesGrow DEF IInv, TypeOK
<1>3. UNCHANGED states \/ \E c \in Clients : Order(c) /\ Valid(c) /\ states' = Append(states, write[c])
  BY DEF Next, vars, chain, AskPeers, Execute, ExecuteFails, Reply, Timeout, Order, CatchUp
<1> QED
  BY <1>1, <1>2, <1>3

LEMMA AskedStep ==
  ASSUME InvokeAssumption, IInv, [Next]_vars
  PROVE  AskedOK'
<1>1. Len(states) \in Nat /\ Len(states') \in Nat /\ Len(states) <= Len(states')
  BY LedgerStep DEF Grows, IInv, TypeOK
<1>2. at \in [Orgs -> 1..Len(states)] /\ Laggards \subseteq Orgs
  BY DEF IInv, TypeOK, InvokeAssumption
<1>3. NotAsked \in [Laggards -> 0..Len(states)]
  BY <1>1 DEF NotAsked
<1>4. [p \in Laggards |-> at[p]] \in [Laggards -> 0..Len(states)]
  BY <1>1, <1>2
<1>5. \/ asked' = asked
      \/ \E c \in Clients : \/ asked' = [asked EXCEPT ![c] = NotAsked]
                           \/ asked' = [asked EXCEPT ![c] = [p \in Laggards |-> at[p]]]
  BY DEF Next, vars, locals, AskPeers, Execute, ExecuteFails, Reply, Timeout, Order, CatchUp
<1>6. asked' \in [Clients -> [Laggards -> 0..Len(states)]]
  <2> DEFINE A == [Laggards -> 0..Len(states)]
  <2>1. asked \in [Clients -> A]
    BY DEF IInv, TypeOK, AskedOK
  <2>2. NotAsked \in A /\ [p \in Laggards |-> at[p]] \in A
    BY <1>3, <1>4
  <2>3. ASSUME NEW x \in A, NEW c \in Clients, asked' = [asked EXCEPT ![c] = x]
        PROVE  asked' \in [Clients -> A]
    <3> HIDE DEF A
    <3> QED
      BY <2>1, <2>3
  <2> HIDE DEF A
  <2>4. asked' \in [Clients -> A]
    BY <1>5, <2>1, <2>2, <2>3
  <2> QED
    BY <2>4 DEF A
<1>7. 0..Len(states) \subseteq 0..Len(states')
  BY <1>1
<1>8. [Laggards -> 0..Len(states)] \subseteq [Laggards -> 0..Len(states')]
  BY <1>7
<1> QED
  BY <1>6, <1>8 DEF AskedOK

LEMMA TypeStep ==
  ASSUME InvokeAssumption, IInv, [Next]_vars
  PROVE  TypeOK'
<1>0. Grows /\ states' \in Seq(Token) /\ Len(states') >= 1 /\ AskedOK'
  BY LedgerStep, AskedStep
<1> USE DEF TypeOK
<1>1. ASSUME UNCHANGED vars PROVE TypeOK'
  BY <1>0, <1>1 DEF vars, chain, locals, IInv
<1>2. ASSUME NEW c \in Clients, AskPeers(c) PROVE TypeOK'
  <2>1. states[at[1]] \in Token
    <3>1. at[1] \in 1..Len(states) /\ states \in Seq(Token)
      BY DEF IInv, Orgs
    <3> QED
      BY <3>1, ElementOfSeq
  <2>2. GetPeers(states[at[1]]).payload \subseteq Orgs
    BY <2>1, NoTokenAssumption DEF GetPeers, Success, Token
  <2>3. PICK n \in SUBSET Orgs, b \in SUBSET Orgs :
          /\ nPeers' = [nPeers EXCEPT ![c] = n] \/ nPeers' = nPeers
          /\ bPeers' = [bPeers EXCEPT ![c] = b] \/ bPeers' = bPeers
    BY <1>2, <2>2 DEF AskPeers
  <2>4. faults' \in 0..MaxFaults
    BY <1>2 DEF AskPeers, Fault, IInv, InvokeAssumption
  <2> QED
    BY <1>0, <1>2, <2>3, <2>4 DEF AskPeers, chain, IInv
<1>3. ASSUME NEW c \in Clients, Execute(c) PROVE TypeOK'
  <2>1. CASE pc'[c] = "wait"
    <3>1. read'[c] \in 1..Len(states) /\ Endorsed(c)'
      BY <1>3, <2>1, ExecuteEndorses DEF IInv
    <3>2. Targets(nPeers[c], bPeers[c])' \subseteq Orgs
      BY <1>3 DEF IInv, Targets, Execute
    <3>3. PICK r, w, mt : /\ read' = [read EXCEPT ![c] = r]
                          /\ write' = [write EXCEPT ![c] = w]
                          /\ matching' = [matching EXCEPT ![c] = mt]
      BY <1>3, <2>1 DEF Execute, IInv
    <3>4. r \in 1..Len(states) /\ w \in Token /\ mt \subseteq Orgs
      BY <3>1, <3>2, <3>3 DEF Endorsed, IInv
    <3>5. /\ read' \in [Clients -> 0..Len(states)]
          /\ write' \in [Clients -> Token \cup {NoToken}]
          /\ matching' \in [Clients -> SUBSET Orgs]
      BY <3>3, <3>4 DEF IInv
    <3>6. UNCHANGED <<states, at, nPeers, bPeers, outcome, faults>> /\ pending' \subseteq Clients
      BY <1>3, <2>1 DEF Execute, chain, IInv
    <3>7. pc' \in [Clients -> {"start", "execute", "wait", "ok", "error"}]
      <4>1. pc' = [pc EXCEPT ![c] = "wait"] \/ pc' = [pc EXCEPT ![c] = "error"]
        BY <1>3, Zenon DEF Execute
      <4> QED
        BY <4>1 DEF IInv
    <3> QED
      BY <1>0, <3>5, <3>6, <3>7 DEF IInv
  <2>2. CASE pc'[c] # "wait"
    BY <1>0, <1>3, <2>2 DEF Execute, chain, IInv
  <2> QED
    BY <2>1, <2>2
<1>4. ASSUME NEW c \in Clients, ExecuteFails(c) \/ Reply(c) \/ Timeout(c) PROVE TypeOK'
  <2>1. UNCHANGED <<chain, nPeers, bPeers, read, write, matching, pending, outcome>>
    BY <1>4 DEF ExecuteFails, Reply, Timeout, locals
  <2>2. faults' \in 0..MaxFaults
    BY <1>4 DEF ExecuteFails, Reply, Timeout, Fault, IInv, InvokeAssumption
  <2>3. pc' \in [Clients -> {"start", "execute", "wait", "ok", "error"}]
    BY <1>4 DEF ExecuteFails, Reply, Timeout, IInv
  <2> QED
    BY <1>0, <2>1, <2>2, <2>3 DEF chain, IInv
<1>5. ASSUME NEW c \in Clients, Order(c) PROVE TypeOK'
  <2>1. read' = read /\ read' \in [Clients -> 0..Len(states')]
    BY <1>0, <1>5 DEF Order, locals, Grows, IInv
  <2>2. at' \in [Orgs -> 1..Len(states')]
    <3>1. CASE UNCHANGED chain
      BY <3>1 DEF chain, IInv
    <3>2. CASE Valid(c)
      <4>1. write[c] \in Token
        BY <1>5 DEF IInv, InvocationInv, Endorsed, Order
      <4>2. Len(states') = Len(states) + 1
        BY <1>5, <3>2, <4>1, StatesGrow DEF Order, IInv
      <4> QED
        BY <1>5, <3>2, <4>2 DEF Order, IInv
    <3> QED
      BY <1>5, <3>1, <3>2 DEF Order
  <2> QED
    BY <1>0, <1>5, <2>1, <2>2 DEF Order, locals, IInv
<1>6. ASSUME NEW p \in Orgs, CatchUp(p) PROVE TypeOK'
  BY <1>0, <1>6 DEF CatchUp, locals, IInv
<1> QED
  BY <1>1, <1>2, <1>3, <1>4, <1>5, <1>6 DEF Next

LEMMA InvocationStep ==
  ASSUME InvokeAssumption, IInv, [Next]_vars, NEW c \in Clients
  PROVE  InvocationInv(c)'
<1>0. /\ Grows /\ TypeOK /\ InvocationInv(c)
      /\ \A d \in Clients : InvocationInv(d)
  BY LedgerStep DEF IInv
<1>1. ASSUME UNCHANGED vars PROVE InvocationInv(c)'
  BY <1>0, <1>1, Unconcerned DEF vars, chain, locals
<1>2. ASSUME NEW d \in Clients, AskPeers(d) PROVE InvocationInv(c)'
  <2>1. CASE c = d
    BY <1>0, <1>2, <2>1 DEF AskPeers, InvocationInv, Executed, TypeOK
  <2>2. CASE c # d
    <3>1. nPeers'[c] = nPeers[c] /\ bPeers'[c] = bPeers[c] /\ pc'[c] = pc[c]
      BY <1>0, <1>2, <2>2 DEF AskPeers, TypeOK
    <3> QED
      BY <1>0, <1>2, <3>1, Unconcerned DEF AskPeers
  <2> QED
    BY <2>1, <2>2
<1>3. ASSUME NEW d \in Clients, Execute(d) PROVE InvocationInv(c)'
  <2>1. CASE c = d /\ pc'[c] = "wait"
    <3>1. read'[c] \in 1..Len(states) /\ Endorsed(c)'
      BY <1>0, <1>3, <2>1, ExecuteEndorses
    <3>2. outcome'[c] = "none"
      BY <1>0, <1>3, <2>1 DEF Execute, InvocationInv
    <3> QED
      BY <2>1, <3>1, <3>2 DEF InvocationInv, Executed
  <2>2. CASE c = d /\ pc'[c] # "wait"
    <3>1. /\ pc'[c] = "error"
          /\ UNCHANGED <<read, write, matching, pending, states, nPeers, bPeers, outcome>>
      BY <1>0, <1>3, <2>2 DEF Execute, TypeOK, chain
    <3> QED
      BY <1>0, <1>3, <2>2, <3>1 DEF Execute, InvocationInv, Executed
  <2>3. CASE c # d
    <3>1. /\ read'[c] = read[c] /\ write'[c] = write[c] /\ matching'[c] = matching[c]
          /\ pc'[c] = pc[c] /\ (c \in pending' <=> c \in pending)
      BY <1>0, <1>3, <2>3 DEF Execute, TypeOK
    <3> QED
      BY <1>0, <1>3, <3>1, Unconcerned DEF Execute
  <2> QED
    BY <2>1, <2>2, <2>3
<1>4. ASSUME NEW d \in Clients, ExecuteFails(d) \/ Reply(d) \/ Timeout(d)
      PROVE  InvocationInv(c)'
  <2>1. UNCHANGED <<chain, nPeers, bPeers, read, write, matching, pending, outcome>>
    BY <1>4 DEF ExecuteFails, Reply, Timeout, locals
  <2>2. CASE c # d
    <3>1. pc'[c] = pc[c]
      BY <1>0, <1>4, <2>2 DEF ExecuteFails, Reply, Timeout, TypeOK
    <3> QED
      BY <1>0, <2>1, <3>1, Unconcerned DEF locals
  <2>3. CASE c = d
    <3>1. pc'[c] = "error" \/ (pc'[c] = "ok" /\ outcome[c] = "valid")
      BY <1>0, <1>4, <2>3 DEF ExecuteFails, Reply, Timeout, TypeOK
    <3>2. Endorsed(c) => Endorsed(c)'
      BY <2>1 DEF chain, locals, Endorsed, Intended, AnswerAt, Targets
    <3>3. Applied(c) => Applied(c)'
      BY <2>1 DEF chain, locals, Applied, PolicyHolds
    <3> QED
      BY <1>0, <2>1, <3>1, <3>2, <3>3 DEF locals, InvocationInv, Executed
  <2> QED
    BY <2>2, <2>3
<1>5. ASSUME NEW d \in Clients, Order(d) PROVE InvocationInv(c)'
  <2>1. CASE c # d
    <3>1. outcome'[c] = outcome[c] /\ (c \in pending' <=> c \in pending)
      BY <1>0, <1>5, <2>1 DEF Order, TypeOK
    <3> QED
      BY <1>0, <1>5, <2>1, <3>1, Unconcerned DEF Order, locals
  <2>2. CASE c = d
    <3>1. Executed(c) /\ Endorsed(c) /\ outcome[c] = "none" /\ c \notin pending'
      BY <1>0, <1>5, <2>2 DEF Order, InvocationInv
    <3>2. read[c] \in 1..Len(states) /\ write[c] \in Token
      BY <1>0, <3>1 DEF Executed, Endorsed, TypeOK
    <3>3. Endorsed(c)'
      <4>1. states'[read[c]] = states[read[c]]
        BY <1>0, <3>2 DEF Grows
      <4> QED
        BY <1>5, <3>1, <4>1 DEF Order, locals, Endorsed, Intended, AnswerAt, Targets
    <3>4. outcome'[c] = "valid" => Applied(c)'
      <4> SUFFICES ASSUME outcome'[c] = "valid" PROVE Applied(c)'
        OBVIOUS
      <4>1. Valid(c) /\ states' = Append(states, write[c])
        BY <1>0, <1>5, <2>2 DEF Order, TypeOK
      <4>2. /\ states'[Len(states) + 1] = write[c] /\ Len(states') = Len(states) + 1
            /\ Len(states) \in Nat
        BY <1>0, <3>2, <4>1, StatesGrow DEF TypeOK
      <4> QED
        BY <1>5, <4>1, <4>2 DEF Order, locals, Applied, Valid, PolicyHolds
    <3>5. pc'[c] = pc[c] /\ pc[c] # "ok" /\ read'[c] = read[c]
      BY <1>0, <1>5, <3>1 DEF Order, locals, InvocationInv
    <3> QED
      BY <1>0, <3>1, <3>3, <3>4, <3>5 DEF InvocationInv, Executed
  <2> QED
    BY <2>1, <2>2
<1>6. ASSUME NEW p \in Orgs, CatchUp(p) PROVE InvocationInv(c)'
  BY <1>0, <1>6, Unconcerned DEF CatchUp, locals
<1> QED
  BY <1>1, <1>2, <1>3, <1>4, <1>5, <1>6 DEF Next

-----------------------------------------------------------------------------
(* Theorems                                                                *)

\* IInv holds in every reachable state: it holds at the start and every step
\* of an invocation, of the orderer and of the peers preserves it.
THEOREM InvokeInductive == Spec => []IInv
<1>1. Init => IInv
  BY InitInv, InvokeAssumption
<1>2. IInv /\ [Next]_vars => IInv'
  BY TypeStep, InvocationStep, InvokeAssumption DEF IInv
<1> QED
  BY <1>1, <1>2, PTL DEF Spec

\* Every variable keeps its type.
THEOREM InvokeTypes == Spec => []TypeOK
<1>1. IInv => TypeOK
  BY DEF IInv
<1> QED
  BY <1>1, InvokeInductive, PTL

\* An invocation that answers with a token has put it into the ledger, whatever
\* times out and whatever conflicts (Reply of CommitTxHandler).
THEOREM AnswersTrue == Spec => []AnswerInLedger
<1>1. IInv => AnswerInLedger
  BY DEF IInv, InvocationInv, Applied, AnswerInLedger
<1> QED
  BY <1>1, InvokeInductive, PTL

\* What a transaction writes that the policy accepts: the result of the
\* chaincode if one endorser that agrees is not byzantine, and the forged one if
\* the request has the flag and one of them is.
LEMMA WhatIsWritten ==
  ASSUME InvokeAssumption, IInv, NEW c \in Clients,
         Executed(c), PolicyHolds(Cardinality(matching[c]))
  PROVE  LET v == read[c]
             r == Intended(c).payload
         IN  /\ Intended(c).ok /\ states[v].byz \in SUBSET Orgs
             /\ matching[c] \subseteq Orgs /\ matching[c] # {}
             /\ Cardinality(matching[c]) >= OutOf
             /\ ~Request[c].flag \/ ~(matching[c] \subseteq states[v].byz) => write[c] = r
             /\ Request[c].flag /\ ~(matching[c] \cap states[v].byz = {}) => write[c] = Forged(r)
<1> DEFINE v == read[c]
           r == Intended(c).payload
<1>1. Endorsed(c) /\ v \in 1..Len(states) /\ states \in Seq(Token)
  BY DEF IInv, InvocationInv, Executed, TypeOK
<1>2. states[v] \in Token
  BY <1>1, ElementOfSeq
<1>3. Invoke(states[v], Request[c]).ok
  BY <1>1 DEF Endorsed, Intended
<1>4. \A p \in matching[c] :
        /\ write[c] = r \/ (write[c] = Forged(r) /\ p \in states[v].byz /\ Request[c].flag)
        /\ p \in states[v].byz /\ Request[c].flag => write[c] = Forged(r)
  BY <1>1, <1>2, <1>3, AnswerIs DEF Endorsed, Intended
<1>5. matching[c] \subseteq Orgs /\ Cardinality(matching[c]) >= OutOf
  BY DEF IInv, TypeOK, PolicyHolds
<1>6. matching[c] # {}
  <2>1. Cardinality(matching[c]) # 0
    BY <1>5 DEF InvokeAssumption
  <2> QED
    BY <2>1, FS_EmptySet
<1> QED
  BY <1>1, <1>2, <1>4, <1>5, <1>6 DEF Endorsed, Token

\* A valid transaction was executed and has the endorsements it needs.
LEMMA ValidIsAccepted ==
  ASSUME IInv, NEW c \in Clients, outcome[c] = "valid"
  PROVE  Executed(c) /\ PolicyHolds(Cardinality(matching[c]))
BY DEF IInv, InvocationInv, Applied

\* A valid transaction wrote what the chaincode says unless OutOf peers were
\* byzantine: the endorsers that agree on anything else are byzantine, and the
\* policy of instantiateChaincode asks for OutOf of them.
THEOREM AttacksNeedPolicy == Spec => []AttackNeedsPolicy
<1>1. ASSUME IInv PROVE AttackNeedsPolicy
  <2> SUFFICES ASSUME NEW c \in Clients, outcome[c] = "valid",
                      write[c] # Intended(c).payload
               PROVE  Cardinality(states[read[c]].byz) >= OutOf
    BY <1>1, ValidIsAccepted, WhatIsWritten, InvokeAssumption DEF AttackNeedsPolicy
  <2> DEFINE byz == states[read[c]].byz
  <2>1. byz \in SUBSET Orgs /\ matching[c] \subseteq byz /\ Cardinality(matching[c]) >= OutOf
    BY <1>1, ValidIsAccepted, WhatIsWritten, InvokeAssumption
  <2>2. /\ Cardinality(matching[c]) <= Cardinality(byz)
        /\ Cardinality(byz) \in Nat /\ Cardinality(matching[c]) \in Nat
    BY <2>1, Peers10
  <2> QED
    BY <2>1, <2>2, InvokeAssumption DEF InvokeAssumption
<1> QED
  BY <1>1, InvokeInductive, PTL

\* ByzantineCommit of the statistics counts what it says, for every policy of
\* at least four peers: among 4 to 6 byzantine peers validate refuses what the
\* policy would not, below 4 and from 7 on Targets leaves one kind of peer.
THEOREM CountsRight ==
  ASSUME OutOf >= 4
  PROVE  Spec => []CountedRight
<1>1. ASSUME IInv PROVE CountedRight
  <2> SUFFICES ASSUME NEW c \in Clients, pc[c] = "ok",
                      bPeers[c] = states[read[c]].byz, nPeers[c] = Orgs \ bPeers[c]
               PROVE  write[c] = IF Counted(c) THEN Forged(Intended(c).payload)
                                               ELSE Intended(c).payload
    BY DEF CountedRight
  <2> DEFINE b == bPeers[c]
             n == nPeers[c]
             mt == matching[c]
             r == Intended(c).payload
  <2>1. outcome[c] = "valid" /\ Endorsed(c)
    BY <1>1 DEF IInv, InvocationInv
  <2>2. /\ b \in SUBSET Orgs /\ mt \subseteq Orgs /\ mt # {} /\ Cardinality(mt) >= OutOf
        /\ ~Request[c].flag \/ ~(mt \subseteq b) => write[c] = r
        /\ Request[c].flag /\ ~(mt \cap b = {}) => write[c] = Forged(r)
    BY <1>1, <2>1, ValidIsAccepted, WhatIsWritten, InvokeAssumption
  <2>3. mt \subseteq Targets(n, b) /\ ~Mismatch(Cardinality(Targets(n, b) \ mt))
    BY <2>1 DEF Endorsed
  <2>4. Cardinality(b) \in 0..10 /\ Cardinality(n) = 10 - Cardinality(b)
    BY <2>2, Peers10, Remainder
  <2>5. CASE PeerType[c] # 1
    BY <2>2, <2>5, InvokeAssumption DEF InvokeAssumption, Counted
  <2>6. CASE PeerType[c] = 1 /\ Cardinality(b) >= 7
    <3>1. Targets(n, b) = b
      BY <2>4, <2>6 DEF Targets
    <3>2. ~(mt \cap b = {})
      BY <2>2, <2>3, <3>1
    <3> QED
      BY <2>2, <2>6, <3>2, InvokeAssumption DEF InvokeAssumption, Counted
  <2>7. CASE PeerType[c] = 1 /\ Cardinality(b) <= 3
    <3>1. Targets(n, b) = n
      BY <2>4, <2>7 DEF Targets
    <3>2. ~(mt \subseteq b)
      BY <2>2, <2>3, <3>1
    <3> QED
      BY <2>2, <2>4, <2>7, <3>2 DEF Counted
  <2>8. CASE PeerType[c] = 1 /\ Cardinality(b) \in 4..6
    <3>1. Targets(n, b) = Orgs
      BY <2>4, <2>8 DEF Targets
    <3>2. Cardinality(Orgs \ mt) = 10 - Cardinality(mt) /\ Cardinality(mt) \in 0..10
      BY <2>2, Peers10, Remainder
    <3>3. Cardinality(mt) >= 7
      <4>1. ~Mismatch(10 - Cardinality(mt))
        BY <2>3, <3>1, <3>2
      <4>2. OutOf \in Int /\ OutOf >= 4 /\ Cardinality(mt) >= OutOf
        BY <2>2, InvokeAssumption DEF InvokeAssumption
      <4> HIDE DEF mt
      <4> QED
        BY <3>2, <4>1, <4>2 DEF Mismatch
    <3>4. ~(mt \subseteq b)
      BY <2>2, <2>4, <2>8, <3>2, <3>3, Peers10
    <3> QED
      BY <2>2, <2>4, <2>8, <3>4 DEF Counted
  <2> QED
    BY <2>4, <2>5, <2>6, <2>7, <2>8
<1> QED
  BY <1>1, InvokeInductive, PTL

-----------------------------------------------------------------------------
(* What the SDK accepts                                                    *)

\* a peer that does not lag commits with the orderer
UpToDate == \A p \in Orgs \ Laggards : at[p] = Len(states)

LEMMA UpToDateStep == TypeOK /\ UpToDate /\ [Next]_vars => UpToDate'
<1> SUFFICES ASSUME TypeOK, UpToDate, [Next]_vars
             PROVE  UpToDate'
  OBVIOUS
<1>1. CASE UNCHANGED chain
  BY <1>1 DEF UpToDate, chain
<1>2. ASSUME NEW c \in Clients, Order(c), Valid(c)
      PROVE  UpToDate'
  <2>1. Len(states') = Len(states) + 1
    BY <1>2 DEF Order, TypeOK
  <2> QED
    BY <1>2, <2>1 DEF Order, UpToDate
<1>3. ASSUME NEW p \in Orgs, CatchUp(p)
      PROVE  UpToDate'
  <2>1. at[p] # Len(states) /\ UNCHANGED states
    BY <1>3 DEF CatchUp, TypeOK
  <2> QED
    BY <1>3, <2>1 DEF CatchUp, UpToDate, TypeOK
<1> QED
  BY <1>1, <1>2, <1>3 DEF Next, vars, chain, AskPeers, Execute, ExecuteFails, Reply, Timeout, Order

\* Who answers from the same version agrees with everybody of his kind.
LEMMA SameKindAgrees ==
  ASSUME NEW c \in Clients, NEW T \in SUBSET Orgs, NEW v, NEW first \in T,
         \A p \in T : v[p] = v[first]
  PROVE  LET b == states[v[first]].byz
         IN  IF first \in b THEN T \cap b \subseteq Agreeing(c, T, v, first)
                            ELSE T \ b \subseteq Agreeing(c, T, v, first)
BY DEF Agreeing, AnswerAt

\* Seven or more of a kind are the only endorsers; of ten, six at most of each
\* kind, at most three may differ.
LEMMA AgreeingEnough ==
  ASSUME TypeOK, NEW c \in Clients, NEW v, NEW first \in Targets(nPeers[c], bPeers[c]),
         \A p \in Orgs : v[p] = Len(states),
         Accepted(c, Targets(nPeers[c], bPeers[c]), v, first),
         bPeers[c] = states[Len(states)].byz, nPeers[c] = Orgs \ bPeers[c]
  PROVE  Cardinality(Agreeing(c, Targets(nPeers[c], bPeers[c]), v, first)) >= 7
<1> DEFINE b == bPeers[c]
           n == nPeers[c]
           T == Targets(n, b)
           A == Agreeing(c, T, v, first)
<1>1. b \in SUBSET Orgs /\ n \in SUBSET Orgs /\ T \in SUBSET Orgs
  BY DEF TypeOK, Targets
<1>2. A \in SUBSET T /\ A \in SUBSET Orgs
  BY <1>1 DEF Agreeing
<1>3. /\ Cardinality(b) \in 0..10 /\ Cardinality(n) = 10 - Cardinality(b)
      /\ Cardinality(A) \in 0..10
  <2>1. Cardinality(Orgs \ b) = 10 - Cardinality(b)
    BY <1>1, Peers10, Remainder
  <2> QED
    BY <1>1, <1>2, <2>1, Peers10
<1>4. IF first \in b THEN T \cap b \subseteq A ELSE T \ b \subseteq A
  <2>1. first \in Orgs /\ v[first] = Len(states) /\ \A p \in T : v[p] = v[first]
    BY <1>1
  <2> QED
    BY <1>1, <2>1, SameKindAgrees
<1>5. ~Mismatch(Cardinality(T \ A))
  BY DEF Accepted
<1>6. CASE Cardinality(n) >= 7
  <2>1. T = n
    BY <1>6 DEF Targets
  <2>2. A = n
    BY <1>2, <1>4, <2>1
  <2> QED
    BY <1>6, <2>2
<1>7. CASE Cardinality(b) >= 7
  <2>1. T = b
    BY <1>3, <1>7 DEF Targets
  <2>2. A = b
    BY <1>2, <1>4, <2>1
  <2> QED
    BY <1>7, <2>2
<1>8. CASE Cardinality(b) < 7 /\ Cardinality(n) < 7
  <2>1. T = Orgs
    BY <1>3, <1>8 DEF Targets
  <2>2. Cardinality(T \ A) = 10 - Cardinality(A)
    <3> HIDE DEF T, A
    <3>1. Cardinality(Orgs \ A) = Cardinality(Orgs) - Cardinality(A)
      BY <1>2, Remainder
    <3> QED
      BY <2>1, <3>1, Peers10
  <2>3. b \subseteq A \/ n \subseteq A
    BY <1>1, <1>4, <2>1
  <2>4. Cardinality(b) <= Cardinality(A) \/ Cardinality(n) <= Cardinality(A)
    BY <1>1, <1>2, <2>3, Peers10
  <2>5. 10 - Cardinality(A) \notin 4..6
    BY <1>3, <1>5, <2>2 DEF Mismatch
  <2>6. ASSUME NEW x \in 0..10, NEW y \in 0..10, y < 7, 10 - y < 7,
               y <= x \/ 10 - y <= x, 10 - x \notin 4..6
        PROVE  x >= 7
    BY <2>6
  <2> QED
    BY <1>3, <1>8, <2>4, <2>5, <2>6
<1> QED
  BY <1>3, <1>6, <1>7, <1>8

\* What the SDK accepts the policy accepts, for every policy of at most seven of
\* the ten: also the one instantiateChaincode sets without TLS.
THEOREM AcceptedEndorsed ==
  ASSUME OutOf <= 7
  PROVE  Spec => AcceptedIsEndorsed
<1> DEFINE Sound == \A c \in pending' \ pending :
       /\ \A p \in Laggards : asked[c][p] = Len(states)
       /\ bPeers[c] = states[Len(states)].byz /\ nPeers[c] = Orgs \ bPeers[c]
       => PolicyHolds(Cardinality(matching'[c]))
<1>1. Init => UpToDate
  <2> SUFFICES ASSUME Init PROVE UpToDate
    OBVIOUS
  <2>1. Len(states) = 1
    BY DEF Init
  <2> QED
    BY <2>1 DEF Init, UpToDate
<1>2. TypeOK /\ UpToDate /\ [Next]_vars => [Sound]_vars
  <2> SUFFICES ASSUME TypeOK, UpToDate, [Next]_vars, NEW c \in pending' \ pending,
                      \A p \in Laggards : asked[c][p] = Len(states),
                      bPeers[c] = states[Len(states)].byz, nPeers[c] = Orgs \ bPeers[c]
               PROVE  PolicyHolds(Cardinality(matching'[c]))
    BY DEF Sound
  <2> DEFINE T == Targets(nPeers[c], bPeers[c])
  <2>1. c \in Clients /\ Execute(c)
    <3>1. PICK d \in Clients : Execute(d)
      BY DEF Next, vars, AskPeers, ExecuteFails, Reply, Timeout, Order, CatchUp
    <3>2. pending' = pending \cup {d} \/ pending' = pending
      BY <3>1 DEF Execute
    <3> QED
      BY <3>1, <3>2
  <2>2. PICK v \in Answering(c), first \in T :
          /\ Accepted(c, T, v, first)
          /\ matching' = [matching EXCEPT ![c] = Agreeing(c, T, v, first)]
    BY <2>1 DEF Execute
  <2>3. \A p \in Orgs : v[p] = Len(states)
    <3>1. PICK l \in [Laggards -> 1..Len(states)] :
            /\ \A p \in Laggards : l[p] \in asked[c][p]..at[p]
            /\ v = [p \in Orgs |-> IF p \in Laggards THEN l[p] ELSE at[p]]
      BY DEF Answering
    <3>2. \A p \in Laggards : l[p] = Len(states)
      <4> SUFFICES ASSUME NEW p \in Laggards PROVE l[p] = Len(states)
        OBVIOUS
      <4>1. Len(states) \in Int /\ at[p] \in 1..Len(states)
        BY InvokeAssumption DEF InvokeAssumption, TypeOK
      <4>2. l[p] \in Len(states)..at[p]
        BY <3>1
      <4> QED
        BY <4>1, <4>2
    <3> QED
      BY <3>1, <3>2 DEF UpToDate
  <2>4. matching'[c] = Agreeing(c, T, v, first)
    BY <2>1, <2>2 DEF TypeOK
  <2>5. Cardinality(matching'[c]) >= 7
    BY <2>1, <2>2, <2>3, <2>4, AgreeingEnough
  <2>6. Cardinality(matching'[c]) \in Int
    <3>1. Agreeing(c, T, v, first) \in SUBSET Orgs
      BY <2>1 DEF Agreeing, Targets, TypeOK
    <3> QED
      BY <2>4, <3>1, Peers10
  <2> QED
    BY <2>5, <2>6, InvokeAssumption DEF PolicyHolds, InvokeAssumption
<1> HIDE DEF Sound
<1>3. Spec => [][Sound]_vars
  BY <1>1, <1>2, UpToDateStep, InvokeTypes, PTL DEF Spec
<1> QED
  BY <1>3 DEF AcceptedIsEndorsed, Sound

-----------------------------------------------------------------------------
(* Refinement                                                              *)

LEMMA LedgerInvoke ==
  ASSUME NEW t, NEW r
  PROVE  Ledger!Invoke(t, r) = Invoke(t, r)
BY DEF Invoke, Issue, Transfer, SetPeer, Move, Success, Error, Orgs,
       Ledger!Invoke, Ledger!Issue, Ledger!Transfer, Ledger!SetPeer, Ledger!Move,
       Ledger!Success, Ledger!Error, Ledger!Orgs

token == states[Len(states)]
done  == {c \in Clients : outcome[c] = "valid"}

\* Ordering a transaction that is valid performs its request.
LEMMA OrderPerforms ==
  ASSUME InvokeAssumption, IInv, FewByzantine, NEW c \in Clients, Order(c), Valid(c)
  PROVE  Ledger!Perform(c)
<1>1. /\ Executed(c) /\ Endorsed(c) /\ PolicyHolds(Cardinality(matching[c]))
      /\ read[c] = Len(states) /\ read[c] \in 1..Len(states)
  BY DEF Order, Valid, IInv, InvocationInv, Executed, TypeOK
<1>2. c \notin done /\ done' = done \cup {c}
  BY DEF Order, IInv, InvocationInv, TypeOK, done
<1>3. token' = write[c]
  <2>1. states' = Append(states, write[c]) /\ write[c] \in Token
    BY <1>1 DEF Order, Endorsed
  <2> QED
    BY <2>1, StatesGrow DEF IInv, token
<1>4. Intended(c) = Invoke(token, Request[c])
  BY <1>1 DEF Intended, token
<1>5. write[c] = Intended(c).payload
  <2> DEFINE byz == states[read[c]].byz
  <2>1. ASSUME matching[c] \subseteq byz PROVE FALSE
    <3>1. byz \in SUBSET Orgs /\ Cardinality(matching[c]) >= OutOf
      BY <1>1, WhatIsWritten
    <3>2. /\ Cardinality(matching[c]) <= Cardinality(byz)
          /\ Cardinality(byz) \in Nat /\ Cardinality(matching[c]) \in Nat
      BY <2>1, <3>1, Peers10
    <3>3. Cardinality(byz) < OutOf
      BY <1>1 DEF FewByzantine
    <3> QED
      BY <3>1, <3>2, <3>3 DEF InvokeAssumption
  <2> QED
    BY <1>1, <2>1, WhatIsWritten
<1>6. Intended(c).ok
  BY <1>1 DEF Endorsed
<1> QED
  BY <1>2, <1>3, <1>4, <1>5, <1>6, LedgerInvoke DEF Ledger!Perform, token, done

\* The network is the atomic ledger of TokenLedger as long as fewer peers are
\* byzantine than the policy asks for: ordering a valid transaction performs
\* its request, every other step leaves the ledger alone.
THEOREM ImplementsLedger == Spec /\ []FewByzantine => LedgerSpec
<1>1. Init => Ledger!Init
  <2> SUFFICES ASSUME Init PROVE Ledger!Init
    OBVIOUS
  <2>1. PICK t \in Initial : states = <<t>>
    BY DEF Init
  <2>2. token \in Initial
    BY <2>1 DEF token
  <2>3. done = {}
    BY DEF Init, done
  <2> QED
    BY <2>2, <2>3 DEF Ledger!Init, token, done
<1>2. IInv /\ FewByzantine /\ [Next]_vars => [Ledger!Next]_<<token, done>>
  <2> SUFFICES ASSUME IInv, FewByzantine, [Next]_vars,
                      ~UNCHANGED <<token, done>>
               PROVE  Ledger!Next
    OBVIOUS
  <2>1. ~UNCHANGED <<states, outcome>>
    BY DEF token, done
  <2>2. PICK c \in Clients : Order(c)
    BY <2>1 DEF Next, vars, chain, AskPeers, Execute, ExecuteFails, Reply, Timeout, CatchUp
  <2>3. Valid(c)
    <3> SUFFICES ASSUME ~Valid(c) PROVE UNCHANGED <<token, done>>
      OBVIOUS
    <3>1. UNCHANGED states /\ outcome' = [outcome EXCEPT ![c] = "invalid"]
      BY <2>2 DEF Order, chain
    <3>2. outcome[c] = "none"
      BY <2>2 DEF Order, IInv, InvocationInv
    <3> QED
      BY <3>1, <3>2 DEF token, done, IInv, TypeOK
  <2>4. Ledger!Perform(c)
    BY <2>2, <2>3, OrderPerforms, InvokeAssumption
  <2> QED
    BY <2>4 DEF Ledger!Next
<1> QED
  BY <1>1, <1>2, InvokeInductive, PTL DEF Spec, LedgerSpec, Ledger!Spec, token, done

-----------------------------------------------------------------------------
(* Money.                                                                  *)

\* The element a fold over a set takes next.
Pick(s) == CHOOSE a \in s : TRUE

\* g has the sums of the values of b over every set of accounts.
Sums(g, b) ==
  g = [s \in SUBSET Accounts |-> IF s = {} THEN 0 ELSE b[Pick(s)] + g[s \ {Pick(s)}]]

\* The supply is the sum over all accounts.
LEMMA SupplyFolds ==
  ASSUME NEW t \in Token
  PROVE  Supply(t) = (CHOOSE g : Sums(g, t.balance))[Accounts]
<1>1. \A a : Balance(t, a).payload = t.balance[a]
  BY NoTokenAssumption DEF Balance, Success
<1> DEFINE R(g) == [s \in SUBSET Accounts |->
                      IF s = {} THEN 0 ELSE Balance(t, Pick(s)).payload + g[s \ {Pick(s)}]]
<1>2. Supply(t) = (CHOOSE g : g = R(g))[Accounts]
  BY Zenon DEF Supply, MapThenSumSet, MapThenFoldSet, Pick
<1>3. \A g : g = R(g) <=> Sums(g, t.balance)
  BY <1>1 DEF Sums
<1> HIDE DEF R
<1>4. (CHOOSE g : g = R(g)) = (CHOOSE g : Sums(g, t.balance))
  BY <1>3, Zenon
<1> QED
  BY <1>2, <1>4

LEMMA PickIn ==
  ASSUME NEW s \in SUBSET Accounts, s # {}
  PROVE  Pick(s) \in s /\ Pick(s) \in Accounts /\ s \ {Pick(s)} \in SUBSET Accounts
BY DEF Pick

LEMMA SubsetsFinite ==
  /\ \A s \in SUBSET Accounts : IsFiniteSet(s) /\ Cardinality(s) \in Nat
  /\ \A s \in SUBSET Accounts : s # {} =>
       Cardinality(s) > 0 /\ Cardinality(s \ {Pick(s)}) = Cardinality(s) - 1
<1>1. \A s \in SUBSET Accounts : IsFiniteSet(s) /\ Cardinality(s) \in Nat
  BY AccountsAssumption, FS_Subset, FS_CardinalityType
<1>2. ASSUME NEW s \in SUBSET Accounts, s # {}
      PROVE  Cardinality(s) > 0 /\ Cardinality(s \ {Pick(s)}) = Cardinality(s) - 1
  <2>1. Pick(s) \in s
    BY <1>2, PickIn
  <2>2. Cardinality(s) # 0
    BY <1>1, <1>2, FS_EmptySet
  <2>3. Cardinality(s \ {Pick(s)}) = Cardinality(s) - 1
    BY <1>1, <2>1, FS_RemoveElement
  <2> QED
    BY <1>1, <2>2, <2>3
<1> QED
  BY <1>1, <1>2

\* What holds of no account, and of a set of accounts if it does without the one a fold
\* takes first, holds of every set of accounts.
LEMMA AccountsInduction ==
  ASSUME NEW P, {} \in P,
         \A s \in SUBSET Accounts : s # {} /\ s \ {Pick(s)} \in P => s \in P
  PROVE  SUBSET Accounts \subseteq P
<1> SUFFICES ASSUME NEW x \in SUBSET Accounts, x \notin P PROVE FALSE
  OBVIOUS
<1> DEFINE T == {Cardinality(s) : s \in (SUBSET Accounts) \ P}
<1>1. T \subseteq Nat /\ T # {}
  BY SubsetsFinite
<1>2. PICK n \in T : \A m \in T : n <= m
  BY <1>1, Least
<1>3. PICK s \in (SUBSET Accounts) \ P : n = Cardinality(s)
  OBVIOUS
<1>4. s # {}
  BY <1>3
<1>5. s \ {Pick(s)} \notin P /\ s \ {Pick(s)} \in SUBSET Accounts
  BY <1>3, <1>4
<1>6. n <= Cardinality(s \ {Pick(s)})
  BY <1>2, <1>5
<1>7. Cardinality(s) \in Nat /\ Cardinality(s \ {Pick(s)}) = Cardinality(s) - 1
  BY <1>3, <1>4, SubsetsFinite
<1> QED
  BY ONLY <1>3, <1>6, <1>7

\* The sums over the sets of at most n accounts.
Small(n) == {s \in SUBSET Accounts : Cardinality(s) <= n}
SmallSums(g, b, n) ==
  \A s \in Small(n) : g[s] = IF s = {} THEN 0 ELSE b[Pick(s)] + g[s \ {Pick(s)}]

\* There are such sums: the fold is defined.
LEMMA SumsExist ==
  ASSUME NEW b
  PROVE  \E g : Sums(g, b)
<1> DEFINE T == {n \in Nat : ~ \E g : SmallSums(g, b, n)}
<1>1. T = {}
  <2> SUFFICES ASSUME T # {} PROVE FALSE
    OBVIOUS
  <2>1. PICK n \in T : \A m \in T : n <= m
    BY Least
  <2>2. CASE n = 0
    <3> DEFINE g == [s \in SUBSET Accounts |-> 0]
    <3>1. \A s \in Small(n) : s = {}
      <4> SUFFICES ASSUME NEW s \in SUBSET Accounts, Cardinality(s) <= 0, s # {} PROVE FALSE
        BY <2>2 DEF Small
      <4>1. Cardinality(s) > 0 /\ Cardinality(s) \in Nat
        BY SubsetsFinite
      <4> QED
        BY <4>1
    <3>2. SmallSums(g, b, n)
      BY <3>1 DEF SmallSums, Small
    <3> QED
      BY <3>2
  <2>3. CASE n # 0
    <3>1. n - 1 \in Nat /\ n - 1 \notin T
      BY <2>1, <2>3
    <3>2. PICK f : SmallSums(f, b, n - 1)
      BY <3>1
    <3> DEFINE g == [s \in SUBSET Accounts |-> IF s = {} THEN 0 ELSE b[Pick(s)] + f[s \ {Pick(s)}]]
    <3>3. \A s \in Small(n - 1) : g[s] = f[s]
      BY <3>2 DEF SmallSums, Small
    <3>4. \A s \in Small(n) : s # {} => s \ {Pick(s)} \in Small(n - 1)
      BY SubsetsFinite DEF Small
    <3>5. SmallSums(g, b, n)
      BY <3>3, <3>4 DEF SmallSums, Small
    <3> QED
      BY <3>5
  <2> QED
    BY <2>2, <2>3
<1>2. Cardinality(Accounts) \in Nat /\ SUBSET Accounts = Small(Cardinality(Accounts))
  <2>1. \A s \in SUBSET Accounts : Cardinality(s) <= Cardinality(Accounts)
    BY AccountsAssumption, FS_Subset
  <2> QED
    BY <2>1, SubsetsFinite DEF Small
<1>3. PICK f : SmallSums(f, b, Cardinality(Accounts))
  BY <1>1, <1>2
<1> DEFINE g == [s \in SUBSET Accounts |-> f[s]]
<1>4. \A s \in SUBSET Accounts : s \ {Pick(s)} \in SUBSET Accounts
  OBVIOUS
<1>5. Sums(g, b)
  BY <1>2, <1>3, <1>4 DEF Sums, SmallSums
<1> QED
  BY <1>5

LEMMA SumsType ==
  ASSUME NEW b \in [Accounts -> Int], NEW g, Sums(g, b)
  PROVE  /\ g \in [SUBSET Accounts -> Int] /\ g[{}] = 0
         /\ \A s \in SUBSET Accounts : s # {} => g[s] = b[Pick(s)] + g[s \ {Pick(s)}]
<1>1. /\ g[{}] = 0
      /\ \A s \in SUBSET Accounts : s # {} => g[s] = b[Pick(s)] + g[s \ {Pick(s)}]
  BY DEF Sums
<1> DEFINE P == {s \in SUBSET Accounts : g[s] \in Int}
<1>2. {} \in P
  BY <1>1
<1>3. ASSUME NEW s \in SUBSET Accounts, s # {}, s \ {Pick(s)} \in P PROVE s \in P
  BY <1>1, <1>3, PickIn
<1>4. SUBSET Accounts \subseteq P
  <2> HIDE DEF P
  <2> QED
    BY <1>2, <1>3, AccountsInduction
<1> QED
  BY <1>1, <1>4 DEF Sums

\* What is credited to one account, or debited from it, is in the sums with that account.
LEMMA SumsCredit ==
  ASSUME NEW b \in [Accounts -> Int], NEW g, Sums(g, b), NEW x \in Accounts, NEW v \in Int,
         NEW h, Sums(h, [b EXCEPT ![x] = @ + v])
  PROVE  \A s \in SUBSET Accounts : h[s] = g[s] + (IF x \in s THEN v ELSE 0)
<1> DEFINE c == [b EXCEPT ![x] = @ + v]
           P == {s \in SUBSET Accounts : h[s] = g[s] + (IF x \in s THEN v ELSE 0)}
<1>1. c \in [Accounts -> Int] /\ \A a \in Accounts : c[a] = b[a] + (IF a = x THEN v ELSE 0)
  OBVIOUS
<1>2. /\ g \in [SUBSET Accounts -> Int] /\ g[{}] = 0
      /\ \A s \in SUBSET Accounts : s # {} => g[s] = b[Pick(s)] + g[s \ {Pick(s)}]
  BY SumsType
<1>3. /\ h \in [SUBSET Accounts -> Int] /\ h[{}] = 0
      /\ \A s \in SUBSET Accounts : s # {} => h[s] = c[Pick(s)] + h[s \ {Pick(s)}]
  <2>1. Sums(h, c)
    OBVIOUS
  <2> HIDE DEF c
  <2> QED
    BY <1>1, <2>1, SumsType
<1> HIDE DEF c
<1>4. {} \in P
  BY <1>2, <1>3
<1>5. ASSUME NEW s \in SUBSET Accounts, s # {}, s \ {Pick(s)} \in P PROVE s \in P
  <2> DEFINE a == Pick(s)
             r == s \ {a}
  <2>1. a \in s /\ a \in Accounts /\ r \in SUBSET Accounts
    BY <1>5, PickIn
  <2>2. h[s] = c[a] + h[r] /\ g[s] = b[a] + g[r] /\ c[a] = b[a] + (IF a = x THEN v ELSE 0)
    BY <1>1, <1>2, <1>3, <1>5, <2>1
  <2>3. h[r] = g[r] + (IF x \in r THEN v ELSE 0)
    BY <1>5
  <2>4. {b[a], g[r], g[s]} \subseteq Int
    BY <1>2, <2>1
  <2>5. x \in s <=> x = a \/ x \in r
    BY <2>1
  <2>6. a \notin r
    OBVIOUS
  <2> HIDE DEF a, r
  <2> QED
    BY ONLY <2>2, <2>3, <2>4, <2>5, <2>6, v \in Int, s \in SUBSET Accounts DEF P
<1>6. SUBSET Accounts \subseteq P
  <2> HIDE DEF P
  <2> QED
    BY <1>4, <1>5, AccountsInduction
<1> QED
  BY <1>6

LEMMA SupplyIs ==
  ASSUME NEW t \in Token
  PROVE  \E g : Sums(g, t.balance) /\ Supply(t) = g[Accounts] /\ Supply(t) \in Int
<1> DEFINE g == CHOOSE f : Sums(f, t.balance)
<1>1. Sums(g, t.balance)
  BY SumsExist
<1>2. Supply(t) = g[Accounts]
  BY SupplyFolds
<1>3. t.balance \in [Accounts -> Int]
  BY DEF Token
<1> HIDE DEF g
<1> QED
  BY <1>1, <1>2, <1>3, SumsType

\* Crediting an account adds to the sum of all.
LEMMA SupplyCredit ==
  ASSUME NEW t \in Token, NEW u \in Token, NEW x \in Accounts, NEW v \in Int,
         u.balance = [t.balance EXCEPT ![x] = @ + v]
  PROVE  Supply(u) = Supply(t) + v
<1>1. PICK g : Sums(g, t.balance) /\ Supply(t) = g[Accounts]
  BY SupplyIs
<1>2. PICK h : Sums(h, u.balance) /\ Supply(u) = h[Accounts]
  BY SupplyIs
<1>3. t.balance \in [Accounts -> Int]
  BY DEF Token
<1>4. \A s \in SUBSET Accounts : h[s] = g[s] + (IF x \in s THEN v ELSE 0)
  BY <1>1, <1>2, <1>3, SumsCredit
<1> QED
  BY <1>1, <1>2, <1>4

LEMMA SupplySame ==
  ASSUME NEW t \in Token, NEW u \in Token, u.balance = t.balance
  PROVE  Supply(u) = Supply(t)
BY SupplyFolds

\* An account that loses what another one gains, or the same.
LEMMA SupplyMove ==
  ASSUME NEW t \in Token, NEW u \in Token, NEW from \in Accounts, NEW to \in Accounts,
         NEW value \in Int, u.balance = Move(t.balance, from, to, value)
  PROVE  Supply(u) = Supply(t)
<1>1. t.balance \in [Accounts -> Int]
  BY DEF Token
<1>2. CASE t.balance[from] >= value
  <2> DEFINE m == [t EXCEPT !.balance = [t.balance EXCEPT ![from] = @ - value]]
  <2>1. m \in Token /\ m.balance = [t.balance EXCEPT ![from] = @ + (0 - value)]
    BY <1>1 DEF Token
  <2>2. u.balance = [m.balance EXCEPT ![to] = @ + value]
    BY <1>1, <1>2, <2>1 DEF Move, Token
  <2> HIDE DEF m
  <2>3. Supply(m) = Supply(t) + (0 - value)
    BY <2>1, SupplyCredit
  <2>4. Supply(u) = Supply(m) + value
    BY <2>1, <2>2, SupplyCredit
  <2>5. Supply(t) \in Int
    BY SupplyIs
  <2> QED
    BY ONLY <2>3, <2>4, <2>5, value \in Int
<1>3. CASE ~(t.balance[from] >= value)
  BY <1>3, SupplySame DEF Move
<1> QED
  BY <1>2, <1>3

\* A token is issued balanced, unless its supply is negative: what the next theorem
\* asks of the first token is what instantiateChaincode makes.
LEMMA IssueBalances ==
  ASSUME NEW owner \in Accounts, NEW supply \in Nat, NEW n \in Int
  PROVE  /\ Issue(owner, supply, n).payload \in Token
         /\ Balanced(Issue(owner, supply, n).payload)
<1> DEFINE t == Issue(owner, supply, n).payload
           z == [t EXCEPT !.balance = [a \in Accounts |-> 0]]
<1>1. /\ t \in Token /\ z \in Token /\ z.balance = [a \in Accounts |-> 0]
      /\ t.supply = supply
      /\ t.balance = [a \in Accounts |-> IF a = owner THEN supply ELSE 0]
  <2> DEFINE balance == [a \in Accounts |-> IF a = owner THEN supply ELSE 0]
  <2>1. t = [supply |-> supply, balance |-> balance, flag |-> FALSE,
             byz |-> {k \in Orgs : n > 10 - k}]
    BY DEF Issue, Success
  <2>2. balance \in [Accounts -> Int] /\ [a \in Accounts |-> 0] \in [Accounts -> Int]
    OBVIOUS
  <2> HIDE DEF balance
  <2>3. t \in Token /\ t.supply = supply /\ t.balance = balance
    BY <2>1, <2>2 DEF Token
  <2> HIDE DEF t
  <2>4. z \in Token /\ z.balance = [a \in Accounts |-> 0]
    BY <2>2, <2>3 DEF Token
  <2> QED
    BY <2>3, <2>4 DEF balance
<1>2. Supply(z) = 0
  <2>1. PICK g : Sums(g, z.balance) /\ Supply(z) = g[Accounts]
    BY <1>1, SupplyIs
  <2> DEFINE P == {s \in SUBSET Accounts : g[s] = 0}
  <2>2. /\ g[{}] = 0
        /\ \A s \in SUBSET Accounts : s # {} => g[s] = 0 + g[s \ {Pick(s)}]
    <3>1. /\ g[{}] = 0
          /\ \A s \in SUBSET Accounts : s # {} => g[s] = z.balance[Pick(s)] + g[s \ {Pick(s)}]
      <4> HIDE DEF z
      <4>1. g = [s \in SUBSET Accounts |->
                   IF s = {} THEN 0 ELSE z.balance[Pick(s)] + g[s \ {Pick(s)}]]
        BY ONLY <2>1 DEF Sums
      <4> QED
        BY ONLY <4>1
    <3>2. \A a \in Accounts : z.balance[a] = 0
      <4> HIDE DEF z
      <4> QED
        BY ONLY <1>1
    <3> HIDE DEF z
    <3> QED
      BY ONLY <3>1, <3>2, PickIn
  <2>3. {} \in P
    BY <2>2
  <2>4. \A s \in SUBSET Accounts : s # {} /\ s \ {Pick(s)} \in P => s \in P
    BY <2>2
  <2>5. SUBSET Accounts \subseteq P
    <3> HIDE DEF P
    <3> QED
      BY <2>3, <2>4, AccountsInduction
  <2> QED
    BY <2>1, <2>5
<1>3. t.balance = [z.balance EXCEPT ![owner] = @ + supply]
  BY <1>1
<1> HIDE DEF t, z
<1>4. Supply(t) = 0 + supply
  BY <1>1, <1>2, <1>3, SupplyCredit
<1>5. Balanced(t)
  BY <1>1, <1>4 DEF Balanced
<1> QED
  BY <1>1, <1>5 DEF t

\* Neither method that is invoked unbalances a token.
LEMMA InvokeBalances ==
  ASSUME NEW t \in Token, NEW r \in Transfers \cup SetPeers, Invoke(t, r).ok, Balanced(t),
         Invoke(t, r).payload \in Token
  PROVE  Balanced(Invoke(t, r).payload)
<1> DEFINE u == Invoke(t, r).payload
<1>1. t # NoToken /\ t.balance \in [Accounts -> Int]
  BY NoTokenAssumption DEF Token
<1>2. CASE r \in Transfers
  <2>1. Invoke(t, r) = Transfer(t, r.from, r.to, r.amount, r.flag)
    BY <1>2 DEF Transfers, Invoke
  <2>2. r.amount > 0 /\ r.amount \in Int /\ r.from \in Accounts /\ r.to \in Accounts
    BY <2>1, <1>2 DEF Transfer, Error, Transfers
  <2>3. u.supply = t.supply /\ u.balance = Move(t.balance, r.from, r.to, r.amount)
    BY <2>1, <2>2, <1>1 DEF Transfer, Success
  <2>4. Supply(u) = Supply(t)
    BY <2>2, <2>3, SupplyMove
  <2>5. \A a \in Accounts : u.balance[a] >= 0
    <3>1. CASE t.balance[r.from] >= r.amount
      <4> DEFINE m == [t.balance EXCEPT ![r.from] = @ - r.amount]
      <4>1. m \in [Accounts -> Int] /\ \A a \in Accounts : m[a] >= 0
        <5>1. /\ m \in [Accounts -> Int]
              /\ \A a \in Accounts : m[a] = IF a = r.from THEN t.balance[a] - r.amount
                                                        ELSE t.balance[a]
          BY <1>1, <2>2
        <5>2. \A a \in Accounts : t.balance[a] >= 0 /\ t.balance[a] \in Int
          BY <1>1 DEF Balanced
        <5> HIDE DEF m
        <5> QED
          BY ONLY <2>2, <3>1, <5>1, <5>2
      <4>2. u.balance = [m EXCEPT ![r.to] = @ + r.amount]
        BY <2>3, <3>1 DEF Move
      <4> HIDE DEF m
      <4>3. \A a \in Accounts : u.balance[a] = IF a = r.to THEN m[a] + r.amount ELSE m[a]
        BY <2>2, <4>1, <4>2
      <4> SUFFICES ASSUME NEW a \in Accounts PROVE u.balance[a] >= 0
        OBVIOUS
      <4>4. m[a] \in Int /\ m[a] >= 0
        BY <4>1
      <4>5. m[a] + r.amount \in Int /\ m[a] + r.amount >= 0
        BY ONLY <2>2, <4>4
      <4>6. u.balance[a] = m[a] + r.amount \/ u.balance[a] = m[a]
        BY ONLY <4>3
      <4> HIDE DEF u
      <4> QED
        BY ONLY <4>4, <4>5, <4>6
    <3>2. CASE ~(t.balance[r.from] >= r.amount)
      BY <2>3, <3>2 DEF Move, Balanced
    <3> QED
      BY <3>1, <3>2
  <2> QED
    BY <2>3, <2>4, <2>5 DEF Balanced
<1>3. CASE r \in SetPeers
  <2>1. Invoke(t, r) = SetPeer(t, r.good, r.bad, r.flag)
    BY <1>3 DEF SetPeers, Invoke
  <2>2. u.supply = t.supply /\ u.balance = t.balance
    BY <2>1, <1>1 DEF SetPeer, Success, Error
  <2> QED
    BY <2>2, SupplySame DEF Balanced
<1> QED
  BY <1>2, <1>3

\* The balances of every version of the ledger make up the supply and none of them is
\* overdrawn (transfer of the chaincode), as long as fewer peers are byzantine than the
\* policy asks for and the first version is balanced.
THEOREM MoneyConserved ==
  ASSUME \A t \in Initial : Balanced(t)
  PROVE  Spec /\ []FewByzantine => []Conserved
<1>1. Init => Conserved
  <2> SUFFICES ASSUME Init PROVE Conserved
    OBVIOUS
  <2>1. PICK t \in Initial : states = <<t>>
    BY DEF Init
  <2>2. Len(states) = 1 /\ states[1] = t
    BY <2>1
  <2> QED
    BY <2>2 DEF Conserved
<1>2. IInv /\ FewByzantine /\ Conserved /\ [Next]_vars => Conserved'
  <2> SUFFICES ASSUME IInv, FewByzantine, Conserved, [Next]_vars, ~UNCHANGED states
               PROVE  Conserved'
    BY DEF Conserved
  <2>1. PICK c \in Clients : Order(c) /\ Valid(c)
    BY DEF Next, vars, chain, AskPeers, Execute, ExecuteFails, Reply, Timeout, CatchUp, Order
  <2>2. Ledger!Perform(c)
    BY <2>1, OrderPerforms, InvokeAssumption
  <2>3. Invoke(token, Request[c]).ok /\ token' = Invoke(token, Request[c]).payload
    BY <2>2, LedgerInvoke DEF Ledger!Perform, token
  <2>4. /\ Len(states) \in 1..Len(states) /\ token \in Token /\ Balanced(token)
        /\ Request[c] \in Transfers \cup SetPeers
    BY InvokeAssumption DEF IInv, TypeOK, Conserved, token, InvokeAssumption
  <2>5. token' \in Token /\ Balanced(token')
    BY <2>3, <2>4, InvokeType, InvokeBalances
  <2>6. states' = Append(states, write[c]) /\ write[c] \in Token
    BY <2>1 DEF Order, Valid, IInv, InvocationInv, Endorsed
  <2>7. /\ Len(states') = Len(states) + 1 /\ token' = states'[Len(states) + 1]
        /\ \A i \in 1..Len(states) : states'[i] = states[i]
    BY <2>6, StatesGrow DEF IInv, token, Grows
  <2> SUFFICES ASSUME NEW i \in 1..Len(states') PROVE Balanced(states'[i])
    BY DEF Conserved
  <2>8. CASE i \in 1..Len(states)
    BY <2>7, <2>8 DEF Conserved
  <2>9. CASE i = Len(states) + 1
    BY <2>5, <2>7, <2>9
  <2> QED
    BY <2>7, <2>8, <2>9 DEF IInv, TypeOK
<1> QED
  BY <1>1, <1>2, InvokeInductive, PTL DEF Spec
=============================================================================
