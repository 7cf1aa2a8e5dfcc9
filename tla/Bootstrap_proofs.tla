--------------------------- MODULE Bootstrap_proofs ---------------------------
(***************************************************************************)
(* Proofs that script.sh ends with "All GOOD" only when all is done, gives *)
(* up on a peer after MAX_RETRY attempts and issues the token once, and    *)
(* that what transfer.sh announces is valid or was overtaken.              *)
(***************************************************************************)
EXTENDS Bootstrap, FiniteSetTheorems, TLAPS

USE BootstrapAssumption

-----------------------------------------------------------------------------
(* What the steps leave alone.                                             *)

\* A step that appends to the chain leaves what was there.
LEMMA Appended ==
  ASSUME TypeOK, NEW e \in Entry, chain' = Append(chain, e)
  PROVE  /\ Len(chain') = Len(chain) + 1 /\ chain' \in Seq(Entry)
         /\ chain'[Len(chain')] = e
         /\ \A i \in 1..Len(chain) : chain'[i] = chain[i]
BY DEF TypeOK, TypeScript, TypeNetwork

\* Loops stay within the organisations; where they go, res was 0 or the script
\* has ended.
LEMMA Loops ==
  ASSUME TypeOK, NEW l \in Phases, NEW next \in Phases \cup Labels, NextOrg(l, next)
  PROVE  \/ /\ res' = 0 /\ failed' = failed
            /\ \/ org < NumOrgs /\ pc' = l /\ org' = org + 1
               \/ org = NumOrgs /\ pc' = next /\ org' = 1
         \/ res' # 0 /\ pc' = "exit" /\ failed' = pc /\ org' = org
BY DEF NextOrg, VerifyResult, Goto, TypeOK, TypeScript, TypeNetwork, Orgs

-----------------------------------------------------------------------------
(* Types.                                                                  *)

LEMMA TypeInit == Init => TypeOK
<1> SUFFICES ASSUME Init PROVE TypeOK
  OBVIOUS
<1>1. TypeScript
  BY DEF Init, TypeScript, Orgs, Phases, Labels
<1>2. Len(chain) = 0 /\ chain \in Seq(Entry)
  BY DEF Init
<1>3. TypeNetwork
  <2>1. created \in BOOLEAN /\ said \in SUBSET (1..Len(chain))
    BY DEF Init
  <2>2. at \in [Orgs -> Nat] /\ \A p \in Orgs : at[p] <= Len(chain)
    BY <1>2 DEF Init
  <2> QED
    BY <1>2, <2>1, <2>2 DEF Init, TypeNetwork
<1> QED
  BY <1>1, <1>3 DEF TypeOK

\* The effect of chaincodeInvoke's command.
Sends == Order("transfer", Version(at[1]), /\ OutOf <= Cardinality(Invokers)
                                           /\ Version(Len(chain)) = Version(at[1]))

\* The transactions that are ordered are entries.
LEMMA Entries ==
  ASSUME TypeOK
  PROVE  /\ \A n : Version(n) \subseteq 1..n
         /\ \A n \in Nat : Version(n) \in SUBSET Nat
         /\ \A n : Instantiated(n) \in BOOLEAN
BY DEF Version, Instantiated

LEMMA OrderType ==
  ASSUME TypeOK, NEW what \in {"instantiate", "issue", "transfer", "other"},
         NEW read \in SUBSET Nat, NEW valid \in BOOLEAN, Order(what, read, valid)
  PROVE  /\ chain' \in Seq(Entry) /\ Len(chain') = Len(chain) + 1
         /\ chain'[Len(chain')] = [what |-> what, read |-> read, valid |-> valid]
         /\ \A i \in 1..Len(chain) : chain'[i] = chain[i]
<1>1. [what |-> what, read |-> read, valid |-> valid] \in Entry
  BY DEF Entry
<1> QED
  BY <1>1, Appended DEF Order

\* The chain only grows, and with it what peers and announcements refer to.
LEMMA Grows ==
  ASSUME TypeOK, Len(chain') \in Nat, Len(chain) <= Len(chain'), UNCHANGED <<at, said>>
  PROVE  (\A p \in Orgs : at'[p] <= Len(chain')) /\ said' \in SUBSET (1..Len(chain'))
<1>1. Len(chain) \in Nat /\ \A p \in Orgs : at[p] \in Nat /\ at[p] <= Len(chain)
  BY DEF TypeOK, TypeScript, TypeNetwork
<1>2. 1..Len(chain) \subseteq 1..Len(chain')
  BY <1>1
<1> QED
  BY <1>1, <1>2 DEF TypeOK, TypeScript, TypeNetwork

LEMMA TypeNext == TypeOK /\ [Next]_vars => TypeOK'
<1> SUFFICES ASSUME TypeOK, [Next]_vars PROVE TypeOK'
  OBVIOUS
<1> USE DEF locals, network, bounds
<1>1. CASE UNCHANGED vars
  BY <1>1 DEF TypeOK, TypeScript, TypeNetwork, vars
<1>2. CASE Start
  BY <1>2 DEF TypeOK, TypeScript, TypeNetwork, Start, Goto, Phases, Labels, Orgs
<1>3. CASE CreateChannel
  <2>1. TypeScript'
    BY <1>3 DEF TypeOK, TypeScript, CreateChannel, Command, VerifyResult, Goto, Phases, Labels, Orgs
  <2>2. TypeNetwork'
    <3>1. created' \in BOOLEAN
      BY <1>3, Zenon DEF TypeOK, TypeNetwork, CreateChannel, Command
    <3>2. faults' \in Nat
      BY <1>3 DEF TypeOK, TypeNetwork, CreateChannel, Command
    <3> QED
      BY <1>3, <3>1, <3>2 DEF TypeOK, TypeNetwork, CreateChannel
  <2> QED
    BY <2>1, <2>2 DEF TypeOK
<1>4. CASE Join
  <2>1. TypeScript'
    BY <1>4 DEF TypeOK, TypeScript, Join, Command, Phases, Labels, Orgs
  <2>2. TypeNetwork'
    BY <1>4 DEF TypeOK, TypeScript, TypeNetwork, Join, Command
  <2> QED
    BY <2>1, <2>2 DEF TypeOK
<1>5. CASE JoinVerify
  <2>1. TypeScript'
    BY <1>5, Loops DEF TypeOK, TypeScript, JoinVerify, VerifyResult, Goto, Phases, Labels, Orgs
  <2>2. TypeNetwork'
    BY <1>5 DEF TypeOK, TypeScript, TypeNetwork, JoinVerify, VerifyResult, Goto
  <2> QED
    BY <2>1, <2>2 DEF TypeOK
<1>6. CASE UpdateAnchorPeers
  <2>1. TypeScript'
    BY <1>6, Loops DEF TypeOK, TypeScript, UpdateAnchorPeers, Command, Phases, Labels, Orgs
  <2>2. TypeNetwork'
    BY <1>6 DEF TypeOK, TypeScript, TypeNetwork, UpdateAnchorPeers, Command
  <2> QED
    BY <2>1, <2>2 DEF TypeOK
<1>7. CASE InstallChaincode
  <2>1. TypeScript'
    BY <1>7, Loops DEF TypeOK, TypeScript, InstallChaincode, Command, Phases, Labels, Orgs
  <2>2. TypeNetwork'
    BY <1>7 DEF TypeOK, TypeScript, TypeNetwork, InstallChaincode, Command
  <2> QED
    BY <2>1, <2>2 DEF TypeOK
<1>8. CASE InstantiateChaincode
  <2>0. TypeScript' /\ faults' \in Nat
    <3>1. res' \in {0, 1} /\ faults' \in Nat
      BY <1>8 DEF InstantiateChaincode, Command, TypeOK, TypeNetwork
    <3> QED
      BY <1>8, <3>1 DEF TypeOK, TypeScript, InstantiateChaincode, VerifyResult, Goto, Phases, Labels, Orgs
  <2>1. CASE UNCHANGED chain
    BY <1>8, <2>0, <2>1 DEF TypeOK, TypeNetwork, InstantiateChaincode
  <2>2. CASE Order("instantiate", {}, ~Instantiated(Len(chain)))
    <3>1. chain' \in Seq(Entry) /\ Len(chain') = Len(chain) + 1
      BY <2>2, OrderType, Entries
    <3>2. (\A p \in Orgs : at'[p] <= Len(chain')) /\ said' \in SUBSET (1..Len(chain'))
      BY <1>8, <3>1, Grows DEF InstantiateChaincode, TypeOK, TypeScript, TypeNetwork
    <3> QED
      BY <1>8, <2>0, <3>1, <3>2 DEF TypeOK, TypeNetwork, InstantiateChaincode
  <2> QED
    BY <1>8, <2>1, <2>2 DEF InstantiateChaincode, Command
<1>9. CASE IssueToken
  <2>0. TypeScript' /\ faults' \in Nat
    <3>1. res' \in {0, 1} /\ faults' \in Nat
      BY <1>9 DEF IssueToken, Command, TypeOK, TypeNetwork
    <3> QED
      BY <1>9, <3>1 DEF TypeOK, TypeScript, IssueToken, VerifyResult, Goto, Phases, Labels, Orgs
  <2>1. CASE UNCHANGED chain
    BY <1>9, <2>0, <2>1 DEF TypeOK, TypeNetwork, IssueToken
  <2>2. CASE Order("issue", {}, OutOf <= NumOrgs)
    <3>1. chain' \in Seq(Entry) /\ Len(chain') = Len(chain) + 1
      <4>1. (OutOf <= NumOrgs) \in BOOLEAN /\ {} \in SUBSET Nat
        OBVIOUS
      <4> QED
        BY <2>2, <4>1, OrderType
    <3>2. (\A p \in Orgs : at'[p] <= Len(chain')) /\ said' \in SUBSET (1..Len(chain'))
      BY <1>9, <3>1, Grows DEF IssueToken, TypeOK, TypeScript, TypeNetwork
    <3> QED
      BY <1>9, <2>0, <3>1, <3>2 DEF TypeOK, TypeNetwork, IssueToken
  <2> QED
    BY <1>9, <2>1, <2>2 DEF IssueToken, Command
<1>10. CASE StartTransfer
  <2>0. 1 \in Orgs
    BY BootstrapAssumption DEF Orgs
  <2>1. /\ pc' \in Labels /\ org' \in Orgs /\ transfers' = transfers + 1
        /\ UNCHANGED <<counter, depth, res, failed, tries, network, said, faults, scripts, others>>
    BY <1>10, <2>0 DEF StartTransfer, Goto, Labels
  <2>2. TypeScript'
    BY <2>1 DEF TypeOK, TypeScript
  <2>3. TypeNetwork'
    BY <2>1 DEF TypeOK, TypeNetwork, network
  <2> QED
    BY <2>2, <2>3 DEF TypeOK
<1>11. CASE ChaincodeInvoke
  <2>1. Len(chain) \in Nat /\ at[1] \in Nat
    BY DEF TypeOK, TypeScript, TypeNetwork, Orgs
  <2>0. TypeScript' /\ faults' \in Nat
    <3>1. res' \in {0, 1} /\ faults' \in Nat
      <4>1. res' \in {0, 1} /\ faults' \in {faults, faults + 1}
        BY <1>11, Zenon DEF ChaincodeInvoke, Command
      <4> QED
        BY <4>1 DEF TypeOK, TypeNetwork
    <3> QED
      BY <1>11, <3>1 DEF TypeOK, TypeScript, ChaincodeInvoke, VerifyResult, Goto, Phases, Labels, Orgs
  <2>2. CASE UNCHANGED chain /\ res' = 1
    BY <1>11, <2>0, <2>2 DEF TypeOK, TypeNetwork, ChaincodeInvoke
  <2>3. CASE Sends
    <3>1. chain' \in Seq(Entry) /\ Len(chain') = Len(chain) + 1
      BY <2>1, <2>3, OrderType, Entries DEF Sends
    <3>2. \A p \in Orgs : at'[p] <= Len(chain')
      BY <1>11, <2>1, <3>1 DEF ChaincodeInvoke, TypeOK, TypeScript, TypeNetwork
    <3>3. said' \in SUBSET (1..Len(chain'))
      <4>1. 1..Len(chain) \subseteq 1..Len(chain') /\ Len(chain') \in 1..Len(chain')
        BY <2>1, <3>1
      <4> QED
        BY <1>11, <4>1 DEF ChaincodeInvoke, TypeOK, TypeScript, TypeNetwork
    <3> QED
      BY <1>11, <2>0, <3>1, <3>2, <3>3 DEF TypeOK, TypeNetwork, ChaincodeInvoke
  <2> QED
    BY <1>11, <2>2, <2>3 DEF ChaincodeInvoke, Command, Sends
<1>12. CASE ChaincodeQuery
  BY <1>12 DEF TypeOK, TypeScript, TypeNetwork, ChaincodeQuery, Goto, Phases, Labels, Orgs
<1>13. CASE \E p \in Orgs : Commit(p)
  BY <1>13 DEF TypeOK, TypeScript, TypeNetwork, Commit
<1>14. CASE Other
  <2>1. Len(chain) \in Nat
    BY DEF TypeOK, TypeScript, TypeNetwork
  <2>2. chain' \in Seq(Entry) /\ Len(chain') = Len(chain) + 1
    BY <1>14, <2>1, OrderType, Entries DEF Other
  <2>3. (\A p \in Orgs : at'[p] <= Len(chain')) /\ said' \in SUBSET (1..Len(chain'))
    BY <1>14, <2>1, <2>2, Grows DEF Other
  <2> QED
    BY <1>14, <2>2, <2>3 DEF TypeOK, TypeScript, TypeNetwork, Other
<1> QED
  BY <1>1, <1>2, <1>3, <1>4, <1>5, <1>6, <1>7, <1>8, <1>9, <1>10, <1>11, <1>12, <1>13, <1>14
     DEF Next, Script, Transfer
-----------------------------------------------------------------------------
(* The phases.                                                             *)

\* Everything that is not a step of script.sh's functions leaves a label, or
\* the first function, and takes nothing from the network.
LEMMA Elsewhere ==
  ASSUME TypeOK, [Next]_vars, ~Script
  PROVE  /\ UNCHANGED <<created, anchored, joined, installed>>
         /\ \/ /\ pc' \in Labels \ {"good", "exit"} /\ UNCHANGED <<counter, depth, tries>>
            \/ /\ pc = "chaincodeInvoke" /\ pc' = "exit" /\ failed' = pc
               /\ UNCHANGED <<counter, depth, tries>>
            \/ /\ pc' = "createChannel" /\ org' = 1 /\ counter' = 1
               /\ tries' = [o \in Orgs |-> 0]
            \/ UNCHANGED locals
<1> USE DEF locals, network, bounds
<1>1. CASE UNCHANGED vars
  BY <1>1 DEF vars
<1>2. CASE Start
  BY <1>2 DEF Start, Goto
<1>3. CASE StartTransfer
  BY <1>3 DEF StartTransfer, Goto, Labels
<1>4. CASE ChaincodeInvoke
  BY <1>4 DEF ChaincodeInvoke, VerifyResult, Goto, Labels
<1>5. CASE ChaincodeQuery
  BY <1>5 DEF ChaincodeQuery, Goto, Labels
<1>6. CASE \E p \in Orgs : Commit(p)
  BY <1>6 DEF Commit
<1>7. CASE Other
  BY <1>7 DEF Other
<1> QED
  BY <1>1, <1>2, <1>3, <1>4, <1>5, <1>6, <1>7 DEF Next, Transfer

LEMMA DoneNext == TypeOK /\ Done /\ [Next]_vars => Done'
<1> SUFFICES ASSUME TypeOK, Done, [Next]_vars PROVE Done'
  OBVIOUS
<1>0. /\ org \in 1..NumOrgs /\ joined \in SUBSET (1..NumOrgs) /\ anchored \in SUBSET (1..NumOrgs)
      /\ installed \in SUBSET (1..NumOrgs) /\ created \in BOOLEAN /\ Orgs = 1..NumOrgs
  BY DEF TypeOK, TypeScript, TypeNetwork, Orgs
<1>1. CASE CreateChannel
  BY <1>0, <1>1 DEF CreateChannel, Command, VerifyResult, Goto, Done
<1>2. CASE Join
  BY <1>0, <1>2 DEF Join, Command, Done
<1>3. CASE JoinVerify
  <2>1. UNCHANGED network /\ UNCHANGED res
    BY <1>3 DEF JoinVerify
  <2>2. CASE depth > 0
    BY <1>0, <1>3, <2>1, <2>2 DEF JoinVerify, VerifyResult, Goto, Done, network
  <2>3. CASE ~(depth > 0)
    <3>1. \/ /\ res' = 0 /\ failed' = failed
             /\ \/ org < NumOrgs /\ pc' = "join" /\ org' = org + 1
                \/ org = NumOrgs /\ pc' = "updateAnchorPeers" /\ org' = 1
          \/ res' # 0 /\ pc' = "exit"
      BY <1>3, <2>3, Loops DEF JoinVerify, Phases
    <3>2. res' = 0 => \A o \in Orgs : o <= org => o \in joined
      BY <1>0, <1>3, <2>1 DEF JoinVerify, Done
    <3>3. created
      BY <1>3 DEF JoinVerify, Done
    <3>4. res' = 0 /\ org = NumOrgs => joined = Orgs
      <4>1. \A o \in Orgs : o <= NumOrgs
        BY <1>0
      <4> QED
        BY <1>0, <3>2, <4>1
    <3> QED
      BY <1>0, <2>1, <3>1, <3>2, <3>3, <3>4 DEF Done, network
  <2> QED
    BY <2>2, <2>3
<1>4. CASE UpdateAnchorPeers
  <2>1. \/ /\ res' = 0 /\ failed' = failed
           /\ \/ org < NumOrgs /\ pc' = "updateAnchorPeers" /\ org' = org + 1
              \/ org = NumOrgs /\ pc' = "installChaincode" /\ org' = 1
        \/ res' # 0 /\ pc' = "exit"
    BY <1>4, Loops DEF UpdateAnchorPeers, Phases
  <2>2. /\ UNCHANGED <<created, joined, installed>> /\ created /\ joined = Orgs
        /\ res' = 0 => anchored' = anchored \cup {org}
    BY <1>4 DEF UpdateAnchorPeers, Command, Done
  <2>3. res' = 0 => \A o \in Orgs : o <= org => o \in anchored'
    BY <1>0, <1>4, <2>2 DEF UpdateAnchorPeers, Done
  <2>4. res' = 0 /\ org = NumOrgs => anchored' = Orgs
    <3>1. \A o \in Orgs : o <= NumOrgs
      BY <1>0
    <3>2. res' = 0 => anchored' \subseteq Orgs
      BY <1>0, <2>2
    <3> QED
      BY <2>3, <3>1, <3>2
  <2> QED
    BY <1>0, <2>1, <2>2, <2>3, <2>4 DEF Done
<1>5. CASE InstallChaincode
  <2>1. \/ /\ res' = 0 /\ failed' = failed
           /\ \/ org < NumOrgs /\ pc' = "installChaincode" /\ org' = org + 1
              \/ org = NumOrgs /\ pc' = "instantiateChaincode" /\ org' = 1
        \/ res' # 0 /\ pc' = "exit"
    BY <1>5, Loops DEF InstallChaincode, Phases
  <2>2. /\ UNCHANGED <<created, joined, anchored>> /\ created /\ joined = Orgs /\ anchored = Orgs
        /\ res' = 0 => installed' = installed \cup {org}
    BY <1>5 DEF InstallChaincode, Command, Done
  <2>3. res' = 0 => \A o \in Orgs : o <= org => o \in installed'
    BY <1>0, <1>5, <2>2 DEF InstallChaincode, Done
  <2>4. res' = 0 /\ org = NumOrgs => installed' = Orgs
    <3>1. \A o \in Orgs : o <= NumOrgs
      BY <1>0
    <3>2. res' = 0 => installed' \subseteq Orgs
      BY <1>0, <2>2
    <3> QED
      BY <2>3, <3>1, <3>2
  <2> QED
    BY <1>0, <2>1, <2>2, <2>3, <2>4 DEF Done
<1>6. CASE InstantiateChaincode
  BY <1>0, <1>6 DEF InstantiateChaincode, VerifyResult, Goto, Done
<1>7. CASE IssueToken
  BY <1>0, <1>7 DEF IssueToken, VerifyResult, Goto, Done
<1>8. CASE ~Script
  BY <1>0, <1>8, Elsewhere DEF Done, Labels, locals
<1> QED
  BY <1>1, <1>2, <1>3, <1>4, <1>5, <1>6, <1>7, <1>8 DEF Script

-----------------------------------------------------------------------------
(* The attempts.                                                           *)

LEMMA CountsNext ==
  TypeOK /\ Counts /\ GivesUpAfterMaxRetry /\ [Next]_vars => Counts' /\ GivesUpAfterMaxRetry'
<1> SUFFICES ASSUME TypeOK, Counts, GivesUpAfterMaxRetry, [Next]_vars
             PROVE  Counts' /\ GivesUpAfterMaxRetry'
  OBVIOUS
<1>0. /\ org \in 1..NumOrgs /\ tries \in [1..NumOrgs -> Nat] /\ Orgs = 1..NumOrgs
      /\ counter \in 1..MaxRetry
  BY DEF TypeOK, TypeScript, Orgs
<1>1. CASE CreateChannel
  BY <1>0, <1>1 DEF CreateChannel, VerifyResult, Goto, Counts, GivesUpAfterMaxRetry
<1>2. CASE Join
  <2>1. tries' = [tries EXCEPT ![org] = @ + 1] /\ tries'[org] = counter /\ org' = org
    BY <1>0, <1>2 DEF Join, Counts
  <2>2. \A o \in Orgs : o # org => tries'[o] = tries[o]
    BY <1>0, <2>1
  <2>3. GivesUpAfterMaxRetry'
    BY <1>0, <1>2, <2>1, <2>2 DEF Join, GivesUpAfterMaxRetry
  <2>4. Counts'
    BY <1>0, <1>2, <2>1, <2>2 DEF Join, Counts, Command
  <2> QED
    BY <2>3, <2>4
<1>3. CASE JoinVerify
  <2>1. CASE depth > 0
    BY <1>0, <1>3, <2>1 DEF JoinVerify, VerifyResult, Goto, Counts, GivesUpAfterMaxRetry
  <2>2. CASE ~(depth > 0)
    BY <1>0, <1>3, <2>2, Loops DEF JoinVerify, Counts, GivesUpAfterMaxRetry, Phases
  <2> QED
    BY <2>1, <2>2
<1>4. CASE UpdateAnchorPeers
  BY <1>0, <1>4, Loops DEF UpdateAnchorPeers, Counts, GivesUpAfterMaxRetry, Phases
<1>5. CASE InstallChaincode
  BY <1>0, <1>5, Loops DEF InstallChaincode, Counts, GivesUpAfterMaxRetry, Phases
<1>6. CASE InstantiateChaincode
  BY <1>0, <1>6 DEF InstantiateChaincode, VerifyResult, Goto, Counts, GivesUpAfterMaxRetry
<1>7. CASE IssueToken
  BY <1>0, <1>7 DEF IssueToken, VerifyResult, Goto, Counts, GivesUpAfterMaxRetry
<1>8. CASE ~Script
  <2>1. GivesUpAfterMaxRetry'
    BY <1>0, <1>8, Elsewhere DEF GivesUpAfterMaxRetry, Labels, locals
  <2>2. Counts'
    BY <1>0, <1>8, Elsewhere DEF Counts, Labels, locals
  <2> QED
    BY <2>1, <2>2
<1> QED
  BY <1>1, <1>2, <1>3, <1>4, <1>5, <1>6, <1>7, <1>8 DEF Script
-----------------------------------------------------------------------------
(* The chain.                                                              *)

\* The step that may add the issue: at the end of its run, after which the script
\* is in none of the functions.
LEMMA Issues ==
  ASSUME TypeOK, IssueToken
  PROVE  /\ pc = "issueToken" /\ pc' \in {"good", "exit"}
         /\ \/ UNCHANGED chain /\ pc' = "exit"
            \/ /\ \A p \in Orgs : Executes(p)
               /\ Len(chain') = Len(chain) + 1
               /\ chain'[Len(chain')] = [what |-> "issue", read |-> {}, valid |-> TRUE]
               /\ \A i \in 1..Len(chain) : chain'[i] = chain[i]
<1>1. (OutOf <= NumOrgs) = TRUE /\ {} \in SUBSET Nat
  OBVIOUS
<1>2. Order("issue", {}, OutOf <= NumOrgs) =>
        /\ Len(chain') = Len(chain) + 1
        /\ chain'[Len(chain')] = [what |-> "issue", read |-> {}, valid |-> TRUE]
        /\ \A i \in 1..Len(chain) : chain'[i] = chain[i]
  BY <1>1, OrderType
<1>3. pc = "issueToken" /\ pc' \in {"good", "exit"} /\ (res' # 0 => pc' = "exit")
  BY DEF IssueToken, VerifyResult, Goto
<1>4. \/ UNCHANGED chain /\ res' = 1
      \/ Order("issue", {}, OutOf <= NumOrgs) /\ \A p \in Orgs : Executes(p)
  BY DEF IssueToken, Command
<1> QED
  BY <1>2, <1>3, <1>4

\* Only issueToken orders an issue.
LEMMA NoNewIssue ==
  ASSUME TypeOK, [Next]_vars, ~IssueToken
  PROVE  \A i \in 1..Len(chain') : chain'[i].what = "issue" =>
           i \in 1..Len(chain) /\ chain'[i] = chain[i]
<1>0. Len(chain) \in Nat /\ at[1] \in Nat
  BY DEF TypeOK, TypeNetwork, Orgs
<1>1. CASE UNCHANGED chain
  BY <1>1
<1>2. ASSUME NEW what \in {"instantiate", "transfer", "other"}, NEW read \in SUBSET Nat,
             NEW valid \in BOOLEAN, Order(what, read, valid)
      PROVE  \A i \in 1..Len(chain') : chain'[i].what = "issue" =>
               i \in 1..Len(chain) /\ chain'[i] = chain[i]
  <2>1. what \in {"instantiate", "issue", "transfer", "other"} /\ what # "issue"
    OBVIOUS
  <2>2. /\ Len(chain') = Len(chain) + 1
        /\ chain'[Len(chain')] = [what |-> what, read |-> read, valid |-> valid]
        /\ \A i \in 1..Len(chain) : chain'[i] = chain[i]
    <3> HIDE BootstrapAssumption
    <3> QED
      BY <1>2, <2>1, OrderType
  <2>4. chain'[Len(chain')].what # "issue"
    BY <2>1, <2>2
  <2>3. \A i \in 1..Len(chain') : i \in 1..Len(chain) \/ i = Len(chain')
    BY <1>0, <2>2
  <2> QED
    BY <2>2, <2>3, <2>4
<1>3. CASE InstantiateChaincode
  BY <1>1, <1>2, <1>3, Entries DEF InstantiateChaincode, Command
<1>4. CASE ChaincodeInvoke
  <2>1. UNCHANGED chain \/ Sends
    BY <1>4 DEF ChaincodeInvoke, Command, Sends
  <2>2. CASE Sends
    BY <1>0, <1>2, <2>2, Entries DEF Sends
  <2> QED
    BY <1>1, <2>1, <2>2
<1>5. CASE Other
  BY <1>0, <1>2, <1>5, Entries DEF Other
<1>6. CASE ~InstantiateChaincode /\ ~ChaincodeInvoke /\ ~Other
  <2>1. UNCHANGED chain
    BY <1>6 DEF Next, Script, Transfer, vars, network, Start, CreateChannel, Join, JoinVerify,
                UpdateAnchorPeers, InstallChaincode, StartTransfer, ChaincodeQuery, Commit
  <2> QED
    BY <1>1, <2>1
<1> QED
  BY <1>3, <1>4, <1>5, <1>6

\* The chain only grows.
LEMMA Prefix ==
  ASSUME TypeOK, [Next]_vars
  PROVE  /\ Len(chain') \in Nat /\ Len(chain) <= Len(chain')
         /\ \A i \in 1..Len(chain) : chain'[i] = chain[i]
<1>0. Len(chain) \in Nat /\ at[1] \in Nat
  BY DEF TypeOK, TypeNetwork, Orgs
<1>1. CASE UNCHANGED chain
  BY <1>0, <1>1
<1>2. ASSUME NEW what \in {"instantiate", "issue", "transfer", "other"},
             NEW read \in SUBSET Nat, NEW valid \in BOOLEAN, Order(what, read, valid)
      PROVE  /\ Len(chain') \in Nat /\ Len(chain) <= Len(chain')
             /\ \A i \in 1..Len(chain) : chain'[i] = chain[i]
  <2>1. Len(chain') = Len(chain) + 1 /\ \A i \in 1..Len(chain) : chain'[i] = chain[i]
    BY <1>2, OrderType
  <2> QED
    BY <1>0, <2>1
<1>3. CASE InstantiateChaincode
  BY <1>1, <1>2, <1>3, Entries DEF InstantiateChaincode, Command
<1>4. CASE IssueToken
  BY <1>0, <1>1, <1>4, Issues
<1>5. CASE ChaincodeInvoke
  <2>1. UNCHANGED chain \/ Sends
    BY <1>5 DEF ChaincodeInvoke, Command, Sends
  <2>2. CASE Sends
    BY <1>0, <1>2, <2>2, Entries DEF Sends
  <2> QED
    BY <1>1, <2>1, <2>2
<1>6. CASE Other
  BY <1>0, <1>2, <1>6, Entries DEF Other
<1>7. CASE ~InstantiateChaincode /\ ~IssueToken /\ ~ChaincodeInvoke /\ ~Other
  <2>1. UNCHANGED chain
    BY <1>7 DEF Next, Script, Transfer, vars, network, Start, CreateChannel, Join, JoinVerify,
                UpdateAnchorPeers, InstallChaincode, StartTransfer, ChaincodeQuery, Commit
  <2> QED
    BY <1>1, <2>1
<1> QED
  BY <1>3, <1>4, <1>5, <1>6, <1>7

\* A script that is past createChannel has made the channel itself.
LEMMA Enters ==
  ASSUME TypeOK, [Next]_vars, ~IssueToken, pc' \in Phases \ {"createChannel"}
  PROVE  pc \in Phases \ {"createChannel"} \/ ~created
<1>1. CASE CreateChannel
  BY <1>1 DEF CreateChannel, Command, VerifyResult, Goto, Phases
<1>2. CASE Script /\ ~CreateChannel
  BY <1>2 DEF Script, Join, JoinVerify, UpdateAnchorPeers, InstallChaincode,
              InstantiateChaincode, Phases
<1>3. CASE ~Script
  BY <1>3, Elsewhere DEF Labels, Phases, locals
<1> QED
  BY <1>1, <1>2, <1>3

LEMMA CreatedStays == TypeOK /\ [Next]_vars => (created => created')
<1> SUFFICES ASSUME TypeOK, [Next]_vars, created PROVE created'
  OBVIOUS
<1>1. CASE CreateChannel
  BY <1>1 DEF CreateChannel, Command
<1>2. CASE Script /\ ~CreateChannel
  BY <1>2 DEF Script, Join, JoinVerify, UpdateAnchorPeers, InstallChaincode,
              InstantiateChaincode, IssueToken, network
<1>3. CASE ~Script
  BY <1>3, Elsewhere
<1> QED
  BY <1>1, <1>2, <1>3

LEMMA OnceNext == TypeOK /\ Done /\ Once /\ [Next]_vars => Once'
<1> SUFFICES ASSUME TypeOK, Done, Once, [Next]_vars PROVE Once'
  OBVIOUS
<1>0. Len(chain) \in Nat
  BY DEF TypeOK, TypeNetwork
<1>1. CASE ~IssueToken
  <2>1. ASSUME NEW i \in 1..Len(chain'), chain'[i].what = "issue"
        PROVE  i \in 1..Len(chain) /\ chain[i].what = "issue"
    BY <1>1, <2>1, NoNewIssue
  <2>2. ASSUME NEW i \in 1..Len(chain'), chain'[i].what = "issue"
        PROVE  created' /\ pc' \notin Phases \ {"createChannel"}
    BY <1>1, <2>1, <2>2, Enters, CreatedStays DEF Once
  <2> QED
    BY <2>1, <2>2 DEF Once
<1>2. CASE IssueToken
  <2>1. /\ pc = "issueToken" /\ pc' \notin Phases
        /\ created'
    BY <1>2, Issues, CreatedStays DEF Done, Phases
  <2>2. \A i \in 1..Len(chain) : chain[i].what # "issue"
    BY <2>1 DEF Once, Phases
  <2>3. \A i \in 1..Len(chain') : chain'[i].what = "issue" => i = Len(chain')
    BY <1>0, <1>2, <2>2, Issues
  <2> QED
    BY <2>1, <2>3 DEF Once
<1> QED
  BY <1>1, <1>2

\* The script reports that all is good in one step, that of issueToken.
LEMMA GoodNext == TypeOK /\ Done /\ GoodMeansReady /\ [Next]_vars => GoodMeansReady'
<1> SUFFICES ASSUME TypeOK, Done, GoodMeansReady, [Next]_vars, pc' = "good"
             PROVE  /\ joined' = Orgs /\ installed' = Orgs /\ anchored' = Orgs
                    /\ \E i \in 1..Len(chain') : Issued(i)' /\ Instantiated(i)'
  BY DEF GoodMeansReady
<1>0. Len(chain) \in Nat /\ \A p \in Orgs : at[p] \in Nat /\ at[p] <= Len(chain)
  BY DEF TypeOK, TypeNetwork
<1>1. CASE IssueToken
  <2>1. /\ Len(chain') = Len(chain) + 1 /\ chain'[Len(chain')].what = "issue"
        /\ chain'[Len(chain')].valid = TRUE
        /\ \A i \in 1..Len(chain) : chain'[i] = chain[i]
        /\ \A p \in Orgs : Executes(p)
    BY <1>1, Issues
  <2>2. PICK i \in 1..at[1] : chain[i].what = "instantiate" /\ chain[i].valid
    BY <2>1 DEF Executes, Instantiated, Orgs
  <2>3. i \in 1..Len(chain) /\ i \in 1..Len(chain') /\ Len(chain') \in 1..Len(chain')
    BY <1>0, <2>1, <2>2 DEF Orgs
  <2>4. PICK n : n = Len(chain')
    OBVIOUS
  <2>6. Issued(n)' /\ Instantiated(n)'
    BY <2>1, <2>2, <2>3, <2>4 DEF Issued, Instantiated
  <2>5. joined' = Orgs /\ installed' = Orgs /\ anchored' = Orgs
    BY <1>1 DEF IssueToken, Done
  <2> QED
    BY <2>3, <2>4, <2>5, <2>6
<1>2. CASE ~IssueToken
  <2>1. pc = "good" /\ UNCHANGED <<joined, installed, anchored>>
    <3>1. ~Script
      BY <1>2 DEF Script, CreateChannel, Join, JoinVerify, UpdateAnchorPeers,
                  InstallChaincode, InstantiateChaincode, NextOrg, VerifyResult, Goto
    <3> QED
      BY <3>1, Elsewhere DEF Labels, locals
  <2>2. PICK i \in 1..Len(chain) : Issued(i) /\ Instantiated(i)
    BY <2>1 DEF GoodMeansReady
  <2>3. i \in 1..Len(chain') /\ \A j \in 1..i : chain'[j] = chain[j]
    BY <1>0, <1>2, <2>2, Prefix
  <2>4. Issued(i)' /\ Instantiated(i)'
    BY <2>2, <2>3 DEF Issued, Instantiated
  <2> QED
    BY <2>1, <2>3, <2>4 DEF GoodMeansReady
<1> QED
  BY <1>1, <1>2

-----------------------------------------------------------------------------
(* What is announced.                                                      *)

\* The versions of a prefix stay as they are.
LEMMA VersionStays ==
  ASSUME TypeOK, [Next]_vars, NEW n \in 0..Len(chain)
  PROVE  Version(n)' = Version(n)
<1>1. \A j \in 1..n : chain'[j] = chain[j]
  <2>1. Len(chain) \in Nat
    BY DEF TypeOK, TypeNetwork
  <2> QED
    BY <2>1, Prefix
<1> QED
  BY <1>1 DEF Version

LEMMA InvokersNumber == Cardinality(Invokers) = NumInvoke
<1>1. NumInvoke \in Nat
  BY DEF Orgs
<1> QED
  BY <1>1, FS_Interval DEF Invokers

LEMMA AnnouncedNext ==
  ASSUME OutOf <= NumInvoke
  PROVE  TypeOK /\ AnnouncedUnlessConflict /\ [Next]_vars => AnnouncedUnlessConflict'
<1> SUFFICES ASSUME TypeOK, AnnouncedUnlessConflict, [Next]_vars, NEW i \in said'
             PROVE  chain'[i].valid \/ Version(i - 1)' \ chain'[i].read # {}
  BY DEF AnnouncedUnlessConflict
<1>0. Len(chain) \in Nat /\ said \in SUBSET (1..Len(chain))
  BY DEF TypeOK, TypeNetwork
<1>1. CASE i \in said
  <2>1. chain'[i] = chain[i] /\ i - 1 \in 0..Len(chain)
    BY <1>0, <1>1, Prefix
  <2>2. Version(i - 1)' = Version(i - 1)
    BY <2>1, VersionStays
  <2> QED
    BY <1>1, <2>1, <2>2 DEF AnnouncedUnlessConflict
<1>2. CASE i \notin said
  <2>1. ChaincodeInvoke /\ res' = 0 /\ i = Len(chain')
    <3>1. CASE ~ChaincodeInvoke
      BY <1>2, <3>1 DEF Next, Script, Transfer, vars, Start, CreateChannel, Join, JoinVerify,
           UpdateAnchorPeers, InstallChaincode, InstantiateChaincode, IssueToken,
           StartTransfer, ChaincodeQuery, Commit, Other
    <3>2. CASE ChaincodeInvoke
      BY <1>2, <3>2 DEF ChaincodeInvoke
    <3> QED
      BY <3>1, <3>2
  <2>2. Sends
    <3>1. Sends \/ res' = 1
      BY <2>1 DEF ChaincodeInvoke, Command, Sends
    <3> QED
      BY <2>1, <3>1
  <2>3. /\ Len(chain') = Len(chain) + 1
        /\ chain'[i].read = Version(at[1])
        /\ chain'[i].valid = (Version(Len(chain)) = Version(at[1]))
    <3>1. /\ Version(at[1]) \in SUBSET Nat
          /\ (OutOf <= Cardinality(Invokers) /\ Version(Len(chain)) = Version(at[1])) \in BOOLEAN
      <4>1. at[1] \in Nat
        BY DEF TypeOK, TypeNetwork, Orgs
      <4> QED
        BY <4>1, Entries
    <3>2. /\ Len(chain') = Len(chain) + 1
          /\ chain'[Len(chain')] =
               [what |-> "transfer", read |-> Version(at[1]),
                valid |-> OutOf <= Cardinality(Invokers) /\ Version(Len(chain)) = Version(at[1])]
      BY <2>2, <3>1, OrderType DEF Sends
    <3>3. OutOf <= Cardinality(Invokers)
      BY InvokersNumber
    <3> QED
      BY <2>1, <3>2, <3>3
  <2>4. Version(at[1]) \subseteq Version(Len(chain))
    <3>1. at[1] \in Nat /\ at[1] <= Len(chain)
      BY DEF TypeOK, TypeNetwork, Orgs
    <3> QED
      BY <1>0, <3>1 DEF Version
  <2>5. Version(i - 1)' = Version(Len(chain))
    <3>1. i - 1 = Len(chain) /\ Len(chain) \in 0..Len(chain)
      BY <1>0, <2>1, <2>3
    <3> QED
      BY <3>1, VersionStays
  <2>6. CASE Version(Len(chain)) = Version(at[1])
    BY <2>3, <2>6
  <2>7. CASE Version(Len(chain)) # Version(at[1])
    <3>1. Version(Len(chain)) \ Version(at[1]) # {}
      BY <2>4, <2>7
    <3> QED
      BY <2>3, <2>5, <3>1
  <2> QED
    BY <2>6, <2>7
<1> QED
  BY <1>1, <1>2

-----------------------------------------------------------------------------
(* Theorems.                                                               *)

\* The invariant of the scripts: types, what is behind the script is done, the
\* counter counts the attempts at one peer, one token, and what the last lines
\* of script.sh and joinChannelWithRetry report.
THEOREM BootstrapInductive == Spec => []IInv
<1>1. Init => IInv
  <2> SUFFICES ASSUME Init PROVE IInv
    OBVIOUS
  <2>1. TypeOK
    BY TypeInit
  <2>2. Done /\ Counts /\ GoodMeansReady
    BY DEF Init, Done, Counts, GoodMeansReady
  <2>3. Once
    <3>1. 1..Len(chain) = {}
      BY DEF Init
    <3> QED
      BY <3>1 DEF Once
  <2>4. GivesUpAfterMaxRetry
    BY DEF Init, GivesUpAfterMaxRetry
  <2> QED
    BY <2>1, <2>2, <2>3, <2>4 DEF IInv
<1>2. IInv /\ [Next]_vars => IInv'
  BY TypeNext, DoneNext, CountsNext, OnceNext, GoodNext DEF IInv
<1> QED
  BY <1>1, <1>2, PTL DEF Spec

\* "All GOOD" of script.sh is true.
THEOREM GoodIsReady == Spec => []GoodMeansReady
<1>1. IInv => GoodMeansReady
  BY DEF IInv
<1> QED
  BY <1>1, BootstrapInductive, PTL

\* joinChannelWithRetry gives up on each peer after MAX_RETRY attempts at it.
THEOREM RetriesCounted == Spec => []GivesUpAfterMaxRetry
<1>1. IInv => GivesUpAfterMaxRetry
  BY DEF IInv
<1> QED
  BY <1>1, BootstrapInductive, PTL

\* Run as often as one likes, script.sh issues the token once: a run that finds
\* the channel made ends at createChannel.
THEOREM TokenIssuedOnce == Spec => []IssuedOnce
<1>1. IInv => IssuedOnce
  BY DEF IInv, Once, IssuedOnce, Issued
<1> QED
  BY <1>1, BootstrapInductive, PTL

\* The scripts keep to their types, and peers and announcements to the chain.
THEOREM BootstrapTypes == Spec => []TypeOK
<1>1. IInv => TypeOK
  BY DEF IInv
<1> QED
  BY <1>1, BootstrapInductive, PTL

\* When transfer.sh asks at least as many organisations as the policy wants, what
\* it announces as successful is valid or was overtaken by another transaction.
THEOREM AnnouncedTrue ==
  ASSUME OutOf <= NumInvoke
  PROVE  Spec => []AnnouncedUnlessConflict
<1>1. Init => AnnouncedUnlessConflict
  BY DEF Init, AnnouncedUnlessConflict
<1>2. TypeOK /\ AnnouncedUnlessConflict /\ [Next]_vars => AnnouncedUnlessConflict'
  BY AnnouncedNext
<1> QED
  BY <1>1, <1>2, BootstrapTypes, PTL DEF Spec
=============================================================================
