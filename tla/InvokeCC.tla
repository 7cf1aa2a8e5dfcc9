------------------------------- MODULE InvokeCC -------------------------------
(***************************************************************************)
(* An invocation of the chaincode (server/fabsdk.go InvokeCC, with the     *)
(* modified SDK it calls) and the network that executes it.                *)
(*                                                                         *)
(* InvokeCC asks peer0.org1 which peers are byzantine, picks the endorsers *)
(* from the answer, accepts their answers unless between 4 and 6 of them   *)
(* differ from the first, and has the transaction ordered.  The peers      *)
(* commit it if enough endorsements are for what it carries and nobody     *)
(* wrote the token since.  Invocations run concurrently, peers commit at   *)
(* their own pace.                                                         *)
(*                                                                         *)
(* The peers and the orderer are not in the repository.  They do here what *)
(* Fabric does, but that a byzantine peer answers a request that has the   *)
(* flag with a forged result, on which all byzantine peers agree.          *)
(*                                                                         *)
(* A definition marked (mutant) is no part of the specification: it is the *)
(* next definition with a bug the properties have to notice.               *)
(***************************************************************************)
EXTENDS TokenContract, Sequences, FiniteSetsExt

CONSTANTS
  Clients,       (* invocations: each is a goroutine and a transaction      *)
  Request,       (* the request of each of them                             *)
  PeerType,      (* 1 for an attack of the page, 0 for anything else        *)
  Initial,        (* the values "fab" may have when the invocations start *)
  OutOf,         (* the policy of instantiateChaincode: OutOf(OutOf, ...)   *)
  Laggards,      (* peers that may commit later and answer earlier than the *)
                 (* others                                                  *)
  MaxFaults      (* bound: queries and proposals that fail                  *)

ASSUME InvokeAssumption ==
  /\ Initial \subseteq Token
  /\ Request \in [Clients -> Transfers \cup SetPeers]
  \* the page sends its attacks with the flag, the timer and muma without
  /\ PeerType \in [Clients -> {0, 1}]
  /\ \A c \in Clients : IF PeerType[c] = 1 THEN Request[c] \in Transfers /\ Request[c].flag
                                           ELSE ~Request[c].flag
  /\ OutOf \in 1..10
  /\ Laggards \subseteq Orgs
  /\ MaxFaults \in Nat

\* BalanceOf is a map
ASSUME AccountsAssumption == IsFiniteSet(Accounts)

VARIABLES
  states,        (* the committed values of "fab", the current one last     *)
  at,            (* the version each peer has committed                     *)
  pc,            (* the invocations: where each one is                      *)
  nPeers, bPeers, (*  the normal and byzantine peers getPeers told it       *)
  asked,         (*   what the laggards had committed when they were asked  *)
  read, write,   (*   the version and value its transaction read and writes *)
  matching,      (*   the endorsers whose result is the transaction's       *)
  pending,       (* transactions the orderer has and no block yet           *)
  outcome,       (* what the peers found of a transaction in a block        *)
  faults

chain  == <<states, at>>
locals == <<nPeers, bPeers, asked, read, write, matching>>
vars   == <<chain, pc, locals, pending, outcome, faults>>

NotAsked == [p \in Laggards |-> 0]

Init ==
  /\ states \in {<<t>> : t \in Initial}
  /\ at = [p \in Orgs |-> 1]
  /\ pc = [c \in Clients |-> "start"]
  /\ nPeers = [c \in Clients |-> {}] /\ bPeers = [c \in Clients |-> {}]
  /\ asked = [c \in Clients |-> NotAsked]
  /\ read = [c \in Clients |-> 0] /\ write = [c \in Clients |-> NoToken]
  /\ matching = [c \in Clients |-> {}]
  /\ pending = {}
  /\ outcome = [c \in Clients |-> "none"]
  /\ faults = 0

-----------------------------------------------------------------------------
(* InvokeCC up to Execute: the peers.                                      *)

Fault == faults < MaxFaults /\ faults' = faults + 1

\* peer0.org1 answers from what it has committed; an error is ignored and
\* leaves both sets empty
AskPeers(c) ==
  /\ pc[c] = "start"
  /\ \/ LET byz == GetPeers(states[at[1]]).payload
        IN  /\ nPeers' = [nPeers EXCEPT ![c] = Orgs \ byz]
            /\ bPeers' = [bPeers EXCEPT ![c] = byz]
            /\ UNCHANGED faults
     \/ Fault /\ UNCHANGED <<nPeers, bPeers>>
  /\ asked' = [asked EXCEPT ![c] = [p \in Laggards |-> at[p]]]
  /\ pc' = [pc EXCEPT ![c] = "execute"]
  /\ UNCHANGED <<chain, read, write, matching, pending, outcome>>

\* (mutant) six peers of a kind are taken for enough
TargetsSix(n, b) ==
  IF Cardinality(n) >= 6 THEN n ELSE IF Cardinality(b) >= 6 THEN b ELSE Orgs

Targets(n, b) ==
  IF Cardinality(n) >= 7 THEN n ELSE IF Cardinality(b) >= 7 THEN b ELSE Orgs

-----------------------------------------------------------------------------
(* Execute: endorsement, its validation in the SDK, and the broadcast.     *)

\* external: what the byzantine peers make of a result
Forged(t) == [t EXCEPT !.balance = [a \in Accounts |-> t.supply]]

\* external: the answer of peer p to the request of c, from version v
AnswerAt(v, p, c) ==
  LET t == states[v]
      r == Invoke(t, Request[c])
  IN  [ok |-> r.ok, read |-> v,
       payload |-> IF r.ok /\ p \in t.byz /\ r.payload.flag
                   THEN Forged(r.payload) ELSE r.payload]

Agreeing(c, T, v, first) ==
  {p \in T : AnswerAt(v[p], p, c) = AnswerAt(v[first], first, c)}

MismatchLow(diff) == diff > 3 /\ diff < 6                        \* (mutant)
Mismatch(diff)    == diff > 3 /\ diff < 7

\* (mutant) the status of an answer is not looked at
AcceptedErrors(c, T, v, first) == ~Mismatch(Cardinality(T \ Agreeing(c, T, v, first)))

\* the answers come in any order; first is the one that came first
Accepted(c, T, v, first) ==
  /\ \A p \in T : AnswerAt(v[p], p, c).ok
  /\ ~Mismatch(Cardinality(T \ Agreeing(c, T, v, first)))

\* the version each peer answers from, by the time all have answered
Answering(c) ==
  {[p \in Orgs |-> IF p \in Laggards THEN l[p] ELSE at[p]] :
     l \in {k \in [Laggards -> 1..Len(states)] :
              \A p \in Laggards : k[p] \in asked[c][p]..at[p]}}

Execute(c) ==
  /\ pc[c] = "execute"
  /\ LET T == Targets(nPeers[c], bPeers[c])
     IN  \E v \in Answering(c), first \in T :
           IF Accepted(c, T, v, first)
           THEN /\ read' = [read EXCEPT ![c] = v[first]]
                /\ write' = [write EXCEPT ![c] = AnswerAt(v[first], first, c).payload]
                /\ matching' = [matching EXCEPT ![c] = Agreeing(c, T, v, first)]
                /\ pending' = pending \cup {c}
                /\ pc' = [pc EXCEPT ![c] = "wait"]
           ELSE /\ pc' = [pc EXCEPT ![c] = "error"]
                /\ UNCHANGED <<read, write, matching, pending>>
  /\ asked' = [asked EXCEPT ![c] = NotAsked]
  /\ UNCHANGED <<chain, nPeers, bPeers, outcome, faults>>

\* an endorser or the orderer does not answer
ExecuteFails(c) ==
  /\ pc[c] = "execute"
  /\ Fault
  /\ pc' = [pc EXCEPT ![c] = "error"]
  /\ asked' = [asked EXCEPT ![c] = NotAsked]
  /\ UNCHANGED <<chain, nPeers, bPeers, read, write, matching, pending, outcome>>

-----------------------------------------------------------------------------
(* CommitTxHandler: the result of Execute.                                 *)

\* (mutant) the validation code of the event is not looked at
ReplyAnyCode(c) ==
  /\ pc[c] = "wait" /\ outcome[c] # "none"
  /\ pc' = [pc EXCEPT ![c] = "ok"]
  /\ UNCHANGED <<chain, locals, pending, outcome, faults>>

Reply(c) ==
  /\ pc[c] = "wait" /\ outcome[c] # "none"
  /\ pc' = [pc EXCEPT ![c] = IF outcome[c] = "valid" THEN "ok" ELSE "error"]
  /\ UNCHANGED <<chain, locals, pending, outcome, faults>>

\* the transaction stays with the orderer
Timeout(c) ==
  /\ pc[c] = "wait"
  /\ pc' = [pc EXCEPT ![c] = "error"]
  /\ UNCHANGED <<chain, locals, pending, outcome, faults>>

-----------------------------------------------------------------------------
(* The network.                                                            *)

PolicyAny(n)   == n >= 1                        \* (mutant) the default policy
PolicyHolds(n) == n >= OutOf

\* an endorsement of another result is a bad signature on this one, and a
\* token written since it was read is a conflict
Valid(c) == PolicyHolds(Cardinality(matching[c])) /\ read[c] = Len(states)

Order(c) ==
  /\ c \in pending
  /\ pending' = pending \ {c}
  /\ IF Valid(c)
     THEN /\ outcome' = [outcome EXCEPT ![c] = "valid"]
          /\ states' = Append(states, write[c])
          /\ at' = [p \in Orgs |-> IF p \in Laggards THEN at[p] ELSE Len(states) + 1]
     ELSE /\ outcome' = [outcome EXCEPT ![c] = "invalid"]
          /\ UNCHANGED chain
  /\ UNCHANGED <<pc, locals, faults>>

CatchUp(p) ==
  /\ at[p] < Len(states)
  /\ at' = [at EXCEPT ![p] = @ + 1]
  /\ UNCHANGED <<states, pc, locals, pending, outcome, faults>>

Next ==
  \/ \E c \in Clients : \/ AskPeers(c) \/ Execute(c) \/ ExecuteFails(c)
                        \/ Reply(c) \/ Timeout(c)
                        \/ Order(c)
  \/ \E p \in Orgs : CatchUp(p)

Spec == Init /\ [][Next]_vars

-----------------------------------------------------------------------------
(* Properties                                                              *)

Executed(c) == read[c] # 0

\* what the request of c makes of the token its transaction read
Intended(c) == Invoke(states[read[c]], Request[c])

AskedOK == asked \in [Clients -> [Laggards -> 0..Len(states)]]

\* Every variable holds a value of its type, and who executed read a version
\* that exists.
TypeOK ==
  /\ states \in Seq(Token) /\ Len(states) >= 1
  /\ at \in [Orgs -> 1..Len(states)]
  /\ pc \in [Clients -> {"start", "execute", "wait", "ok", "error"}]
  /\ nPeers \in [Clients -> SUBSET Orgs]
  /\ bPeers \in [Clients -> SUBSET Orgs]
  /\ AskedOK
  /\ read \in [Clients -> 0..Len(states)]
  /\ write \in [Clients -> Token \cup {NoToken}]
  /\ matching \in [Clients -> SUBSET Orgs]
  /\ pending \subseteq Clients
  /\ outcome \in [Clients -> {"none", "valid", "invalid"}]
  /\ faults \in 0..MaxFaults

\* A valid transaction wrote what the chaincode makes of the token and the
\* request, unless as many of the peers as the policy asks for were byzantine
\* in the token it read: whatever peers InvokeCC picks, however stale what
\* getPeers told it is, whatever answer comes first and whoever lags.
AttackNeedsPolicy ==
  \A c \in Clients :
    outcome[c] = "valid" =>
      \/ Intended(c).ok /\ write[c] = Intended(c).payload
      \/ Cardinality(states[read[c]].byz) >= OutOf

\* the attacks that InvokeCC adds to ByzantineCommit
Counted(c) == pc[c] = "ok" /\ PeerType[c] = 1 /\ Cardinality(bPeers[c]) >= 7

\* ByzantineCommit counts the attacks that changed the ledger and no other:
\* when nobody set a peer between getPeers and the endorsement, an invocation
\* that succeeds wrote the forged token if it is counted and the right one if
\* it is not.
CountedRight ==
  \A c \in Clients :
    /\ pc[c] = "ok"
    /\ bPeers[c] = states[read[c]].byz /\ nPeers[c] = Orgs \ bPeers[c]
    => write[c] = IF Counted(c) THEN Forged(Intended(c).payload) ELSE Intended(c).payload

\* An invocation that answers with a token put it into the ledger, right after
\* the version it read: a transaction found invalid, one that timed out and one
\* that lost a conflict are never reported as done.
AnswerInLedger ==
  \A c \in Clients :
    pc[c] = "ok" => read[c] < Len(states) /\ states[read[c] + 1] = write[c]

\* What the SDK accepts the policy accepts: if no peer lagged when it was asked
\* and nobody set a peer since getPeers, no transaction is ordered that has too
\* few endorsements, whichever answer came first.  (The thresholds of validate
\* are made for this: 4 to 6 byzantine peers are told apart from 3 and from 7.)
AcceptedIsEndorsed ==
  [][\A c \in pending' \ pending :
       /\ \A p \in Laggards : asked[c][p] = Len(states)
       /\ bPeers[c] = states[Len(states)].byz /\ nPeers[c] = Orgs \ bPeers[c]
       => PolicyHolds(Cardinality(matching'[c]))]_vars

Supply(t) == MapThenSumSet(LAMBDA a : Balance(t, a).payload, Accounts)

Balanced(t) ==
  /\ Supply(t) = t.supply
  /\ \A a \in Accounts : t.balance[a] >= 0

\* Transfers neither create nor destroy money and no account is overdrawn, in
\* every version of the ledger and whatever the order of the transfers, also
\* of those that the balance does not cover and that succeed all the same.
\* (For the instances in which fewer peers than the policy asks for are ever
\* byzantine and the first token is balanced, as an issued one is.)
Conserved == \A i \in 1..Len(states) : Balanced(states[i])

-----------------------------------------------------------------------------
(* The inductive invariant of InvokeCC_proofs.                             *)

\* what an accepted transaction carries: a result of the version it read, on
\* which those in matching agree, who are not 4 to 6 short of all endorsers
Endorsed(c) ==
  /\ Intended(c).ok
  /\ matching[c] \subseteq Targets(nPeers[c], bPeers[c])
  /\ ~Mismatch(Cardinality(Targets(nPeers[c], bPeers[c]) \ matching[c]))
  /\ write[c] \in Token
  /\ \A p \in matching[c] : write[c] = AnswerAt(read[c], p, c).payload

\* a valid one has enough endorsements and is the version after the one it read
Applied(c) ==
  /\ PolicyHolds(Cardinality(matching[c]))
  /\ read[c] < Len(states)
  /\ states[read[c] + 1] = write[c]

\* nothing is ordered that was not executed, nothing is executed or ordered
\* twice, what is executed is endorsed and what is valid is applied
InvocationInv(c) ==
  /\ Executed(c) => Endorsed(c)
  /\ pc[c] \in {"start", "execute"} => ~Executed(c)
  /\ pc[c] = "wait" \/ c \in pending \/ outcome[c] # "none" => Executed(c)
  /\ c \in pending => outcome[c] = "none"
  /\ outcome[c] = "valid" => Applied(c)
  /\ pc[c] = "ok" => outcome[c] = "valid"

IInv == TypeOK /\ \A c \in Clients : InvocationInv(c)

-----------------------------------------------------------------------------
\* fewer peers than the policy asks for have ever been byzantine
FewByzantine == \A i \in 1..Len(states) : Cardinality(states[i].byz) < OutOf

\* The invocations take effect one by one, each at most once and as the
\* chaincode says, in whatever order they are endorsed and ordered, with peers
\* that lag and answers that come too late.  (For the instances in which fewer
\* peers than the policy asks for are ever byzantine.)
Ledger == INSTANCE TokenLedger WITH
  Calls <- Clients,
  token <- states[Len(states)],
  done  <- {c \in Clients : outcome[c] = "valid"}

LedgerSpec == Ledger!Spec
=============================================================================
