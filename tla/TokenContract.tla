---------------------------- MODULE TokenContract ----------------------------
(***************************************************************************)
(* The chaincode `token` (chaincode/src/token/token.go) as functions on    *)
(* the value it keeps under the key "fab".  A method answers with ok and a *)
(* payload; issue, transfer and setPeer write the payload they answer with *)
(* and nothing when ok is FALSE.                                           *)
(*                                                                         *)
(* A definition marked (mutant) is the next one with a bug the properties  *)
(* of InvokeCC have to notice.                                             *)
(***************************************************************************)
EXTENDS Integers

CONSTANTS
  Accounts,      (* the keys of BalanceOf; a missing one counts as 0        *)
  Strangers,     (* names that are no peer of the network                   *)
  NoToken        (* the key has never been written: nil, which is no JSON   *)

Orgs  == 1..10                       \* peer0.org<k>.example.com
Names == Orgs \cup Strangers

ASSUME StrangersAssumption == Strangers \cap Orgs = {}

\* byz: the peers with Peers[k] = false
Token == [supply : Int, balance : [Accounts -> Int], byz : SUBSET Orgs, flag : BOOLEAN]

ASSUME NoTokenAssumption == NoToken \notin Token

Error      == [ok |-> FALSE, payload |-> NoToken]
Success(x) == [ok |-> TRUE, payload |-> x]

\* a token of that name that exists is written over; the last byzantineNum
\* peers start as byzantine ones
Issue(owner, supply, byzantineNum) ==
  Success([supply  |-> supply,
           balance |-> [a \in Accounts |-> IF a = owner THEN supply ELSE 0],
           byz     |-> {k \in Orgs : byzantineNum > 10 - k},
           flag    |-> FALSE])

\* (mutant) credits what it could not debit
MoveUnchecked(balance, from, to, value) ==
  LET debited == IF balance[from] >= value
                 THEN [balance EXCEPT ![from] = @ - value] ELSE balance
  IN  [debited EXCEPT ![to] = @ + value]

Move(balance, from, to, value) ==
  LET debited == [balance EXCEPT ![from] = @ - value]
  IN  IF balance[from] >= value THEN [debited EXCEPT ![to] = @ + value] ELSE balance

\* a transfer that the balance does not cover is written and succeeds too;
\* an amount that is no number is read as 0, a flag that is no Boolean as false
Transfer(t, from, to, amount, flag) ==
  IF amount <= 0 \/ t = NoToken
  THEN Error
  ELSE Success([supply |-> t.supply, byz |-> t.byz, flag |-> flag,
                balance |-> Move(t.balance, from, to, amount)])

\* (mutant) takes the names of peers that do not exist
SetPeerAnyName(t, good, bad, flag) ==
  IF t = NoToken
  THEN Error
  ELSE Success([supply |-> t.supply, balance |-> t.balance, flag |-> flag,
                byz |-> (t.byz \ good) \cup bad])

\* good and bad: the names the argument gives the value true, and any other
SetPeer(t, good, bad, flag) ==
  IF t = NoToken \/ ~(good \cup bad \subseteq Orgs)
  THEN Error
  ELSE Success([supply |-> t.supply, balance |-> t.balance, flag |-> flag,
                byz |-> (t.byz \ good) \cup bad])

GetPeers(t) == IF t = NoToken THEN Error ELSE Success(t.byz)

Balance(t, a) == IF t = NoToken THEN Error ELSE Success(t.balance[a])

Transfers == [fn : {"transfer"}, from : Accounts, to : Accounts, amount : Int, flag : BOOLEAN]
SetPeers  == [fn : {"setPeer"}, good : SUBSET Names, bad : SUBSET Names, flag : BOOLEAN]
Issues    == [fn : {"issue"}, owner : Accounts, supply : Int, byzantineNum : Int]
Requests  == Transfers \cup SetPeers \cup Issues

\* the methods that write, by the name in the request
Invoke(t, r) ==
  CASE r.fn = "issue"    -> Issue(r.owner, r.supply, r.byzantineNum)
    [] r.fn = "transfer" -> Transfer(t, r.from, r.to, r.amount, r.flag)
    [] r.fn = "setPeer"  -> SetPeer(t, r.good, r.bad, r.flag)
    [] OTHER             -> Error
=============================================================================
