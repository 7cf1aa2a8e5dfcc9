------------------------------- MODULE Bootstrap -------------------------------
(***************************************************************************)
(* scripts/script.sh, which makes the channel, joins the peers, installs   *)
(* and instantiates the chaincode and issues the token, and transfer.sh,   *)
(* which tries a transfer; both with the functions of utils.sh.            *)
(*                                                                         *)
(* A script is sequential.  What makes it worth a model is around it: each *)
(* command can fail, also after it has had its effect; peers commit blocks *)
(* at their own pace and no command waits for them; a join is retried by   *)
(* recursion with a counter and a result that are global; an operator runs *)
(* a script again that has failed; and once the server runs it transfers   *)
(* too.                                                                    *)
(*                                                                         *)
(* The commands of `peer` and the network are not in the repository.       *)
(*                                                                         *)
(* A definition marked (mutant) is no part of the specification: it is the *)
(* next definition with a bug the properties have to notice.               *)
(***************************************************************************)
EXTENDS Integers, Sequences, FiniteSets

CONSTANTS
  NumOrgs,       (* 10 in the scripts                                       *)
  NumInvoke,     (* transfer.sh invokes the first 6                         *)
  OutOf,         (* the policy: 6, or 7 without TLS                         *)
  MaxRetry,      (* MAX_RETRY                                               *)
  MaxFaults,     (* bound: commands that fail without a reason modelled here *)
  MaxScripts,    (* bound: runs of script.sh                                *)
  MaxTransfers,  (*   and of transfer.sh                                    *)
  MaxOthers      (* bound: transfers of the server                          *)

ASSUME BootstrapAssumption ==
  /\ NumOrgs \in Nat \ {0} /\ MaxRetry \in Nat \ {0}
  /\ NumInvoke \in 1..NumOrgs
  /\ OutOf \in 1..NumOrgs
  /\ MaxFaults \in Nat /\ MaxScripts \in Nat /\ MaxTransfers \in Nat /\ MaxOthers \in Nat

VARIABLES
  pc,         (* the function the script is in; a label when none runs      *)
  org,        (* the organisation of the loop it is in                      *)
  counter,    (* COUNTER                                                    *)
  depth,      (* frames of joinChannelWithRetry below the innermost one     *)
  res,        (* res                                                        *)
  failed,     (* the function whose verifyResult has ended the script       *)
  tries,      (* bookkeeping: the join attempts of this run                 *)
  created,    (* the network: does the channel exist?                       *)
  anchored,   (*   the organisations with an anchor peer                    *)
  joined,     (*   the peers on the channel                                 *)
  installed,  (*   the peers with the chaincode                             *)
  chain,      (*   the transactions about the token, as they are ordered    *)
  at,         (*   how many of them each peer has committed                 *)
  said,       (* the transfers announced as successful                      *)
  faults, scripts, transfers, others

locals  == <<pc, org, counter, depth, res, failed, tries>>
network == <<created, anchored, joined, installed, chain, at>>
bounds  == <<scripts, transfers, others>>
vars    == <<locals, network, said, faults, bounds>>

\* the organisations that setGlobals knows
Orgs == 1..NumOrgs

Init ==
  /\ pc = "idle" /\ org = 1 /\ counter = 1 /\ depth = 0 /\ res = 0 /\ failed = "none"
  /\ tries = [o \in Orgs |-> 0]
  /\ created = FALSE /\ anchored = {} /\ joined = {} /\ installed = {}
  /\ chain = <<>> /\ at = [p \in Orgs |-> 0]
  /\ said = {}
  /\ faults = 0 /\ scripts = 0 /\ transfers = 0 /\ others = 0

-----------------------------------------------------------------------------
(* The network.                                                            *)

\* the version of the token after the first n transactions: the writes that
\* made it, none as long as there is no token
Version(n) == {i \in 1..n : chain[i].valid /\ chain[i].what # "instantiate"}

Instantiated(n) == \E i \in 1..n : chain[i].what = "instantiate" /\ chain[i].valid

\* a peer that can execute the chaincode
Executes(p) == p \in joined /\ p \in installed /\ Instantiated(at[p])

\* a transaction that was executed on version `read` is ordered; the peers find
\* it valid if it has the endorsements and read what is current
Order(what, read, valid) ==
  chain' = Append(chain, [what |-> what, read |-> read, valid |-> valid])

\* a command of `peer`: it works; it is refused, or fails, and nothing happens;
\* or the answer to it is lost
Command(can, effect, nothing) ==
  \/ can /\ effect /\ res' = 0 /\ UNCHANGED faults
  \/ ~can /\ nothing /\ res' = 1 /\ UNCHANGED faults
  \/ /\ faults < MaxFaults /\ faults' = faults + 1 /\ res' = 1
     /\ nothing \/ (can /\ effect)

\* a peer commits the next transaction
Commit(p) ==
  /\ p \in joined /\ at[p] < Len(chain)
  /\ at' = [at EXCEPT ![p] = @ + 1]
  /\ UNCHANGED <<locals, created, anchored, joined, installed, chain, said, faults, bounds>>

\* a transaction of the server, executed by enough peers on what is current
Other ==
  /\ others < MaxOthers /\ others' = others + 1
  /\ LET read == Version(Len(chain))
     IN  /\ read # {} /\ OutOf <= Cardinality({p \in Orgs : Version(at[p]) = read})
         /\ Order("other", read, TRUE)
  /\ UNCHANGED <<locals, created, anchored, joined, installed, at, said, faults, scripts, transfers>>

-----------------------------------------------------------------------------
(* script.sh                                                               *)

Goto(l, o) == pc' = l /\ org' = o /\ UNCHANGED failed

VerifyResultGoesOn(l, o) == Goto(l, o)                 \* (mutant) does not exit
VerifyResult(l, o) ==
  \/ res' = 0 /\ Goto(l, o)
  \/ res' # 0 /\ pc' = "exit" /\ failed' = pc /\ UNCHANGED org

\* for org in 1 2 ... 10, or the ten calls one after the other
NextOrg(l, next) ==
  IF org < NumOrgs THEN VerifyResult(l, org + 1) ELSE VerifyResult(next, 1)

Quiet == pc \in {"idle", "good", "exit", "end"}

Start ==
  /\ Quiet /\ scripts < MaxScripts
  /\ scripts' = scripts + 1
  /\ Goto("createChannel", 1)
  /\ counter' = 1 /\ depth' = 0 /\ tries' = [o \in Orgs |-> 0]
  /\ UNCHANGED <<res, network, said, faults, transfers, others>>

CreateChannel ==
  /\ pc = "createChannel"
  /\ Command(~created, created' = TRUE, UNCHANGED created)
  /\ VerifyResult("join", 1)
  /\ UNCHANGED <<counter, depth, tries, anchored, joined, installed, chain, at, said, bounds>>

\* joinChannelWithRetry up to its recursive call, or to its verifyResult
JoinKeepsCounter ==                                    \* (mutant) no COUNTER=1
  /\ pc = "join"
  /\ Command(created /\ org \notin joined, joined' = joined \cup {org}, UNCHANGED joined)
  /\ tries' = [tries EXCEPT ![org] = @ + 1]
  /\ IF res' # 0 /\ counter < MaxRetry
     THEN counter' = counter + 1 /\ depth' = depth + 1 /\ UNCHANGED pc
     ELSE pc' = "joinVerify" /\ UNCHANGED <<counter, depth>>
  /\ UNCHANGED <<org, failed, created, anchored, installed, chain, at, said, bounds>>

JoinForEver ==                                         \* (mutant) COUNTER not increased
  /\ pc = "join"
  /\ Command(created /\ org \notin joined, joined' = joined \cup {org}, UNCHANGED joined)
  /\ tries' = [tries EXCEPT ![org] = IF @ = MaxRetry THEN @ ELSE @ + 1]
  /\ IF res' # 0 /\ counter < MaxRetry
     THEN UNCHANGED <<pc, counter, depth>>
     ELSE pc' = "joinVerify" /\ counter' = 1 /\ UNCHANGED depth
  /\ UNCHANGED <<org, failed, created, anchored, installed, chain, at, said, bounds>>

Join ==
  /\ pc = "join"
  /\ Command(created /\ org \notin joined, joined' = joined \cup {org}, UNCHANGED joined)
  /\ tries' = [tries EXCEPT ![org] = @ + 1]
  /\ IF res' # 0 /\ counter < MaxRetry
     THEN counter' = counter + 1 /\ depth' = depth + 1 /\ UNCHANGED pc
     ELSE pc' = "joinVerify" /\ counter' = 1 /\ UNCHANGED depth
  /\ UNCHANGED <<org, failed, created, anchored, installed, chain, at, said, bounds>>

\* its verifyResult, once in each frame: res is global, and what the innermost
\* frame left in it decides for all
JoinVerify ==
  /\ pc = "joinVerify" /\ UNCHANGED res
  /\ IF depth > 0
     THEN VerifyResult("joinVerify", org) /\ depth' = depth - 1
     ELSE NextOrg("join", "updateAnchorPeers") /\ UNCHANGED depth
  /\ UNCHANGED <<counter, tries, network, said, faults, bounds>>

UpdateAnchorPeers ==
  /\ pc = "updateAnchorPeers"
  /\ Command(created /\ org \notin anchored,
             anchored' = anchored \cup {org}, UNCHANGED anchored)
  /\ NextOrg("updateAnchorPeers", "installChaincode")
  /\ UNCHANGED <<counter, depth, tries, created, joined, installed, chain, at, said, bounds>>

InstallChaincode ==
  /\ pc = "installChaincode"
  /\ Command(org \notin installed, installed' = installed \cup {org}, UNCHANGED installed)
  /\ NextOrg("installChaincode", "instantiateChaincode")
  /\ UNCHANGED <<counter, depth, tries, created, anchored, joined, chain, at, said, bounds>>

\* at peer0.org1, which refuses a chaincode that it knows as instantiated
InstantiateChaincode ==
  /\ pc = "instantiateChaincode"
  /\ Command(1 \in joined /\ 1 \in installed /\ ~Instantiated(at[1]),
             Order("instantiate", {}, ~Instantiated(Len(chain))), UNCHANGED chain)
  /\ VerifyResult("issueToken", 1)
  /\ UNCHANGED <<counter, depth, tries, created, anchored, joined, installed, at, said, bounds>>

\* at all peers; issue does not read the token
IssueTokenUnverified ==                                \* (mutant) res not verified
  /\ pc = "issueToken"
  /\ Command(\A p \in Orgs : Executes(p),
             Order("issue", {}, OutOf <= NumOrgs), UNCHANGED chain)
  /\ Goto("good", 1)
  /\ UNCHANGED <<counter, depth, tries, created, anchored, joined, installed, at, said, bounds>>

IssueToken ==
  /\ pc = "issueToken"
  /\ Command(\A p \in Orgs : Executes(p),
             Order("issue", {}, OutOf <= NumOrgs), UNCHANGED chain)
  /\ VerifyResult("good", 1)
  /\ UNCHANGED <<counter, depth, tries, created, anchored, joined, installed, at, said, bounds>>

Script ==
  \/ CreateChannel \/ Join \/ JoinVerify \/ UpdateAnchorPeers
  \/ InstallChaincode \/ InstantiateChaincode \/ IssueToken

-----------------------------------------------------------------------------
(* transfer.sh                                                             *)

StartTransfer ==
  /\ Quiet /\ transfers < MaxTransfers
  /\ transfers' = transfers + 1
  /\ Goto("chaincodeInvoke", 1)
  /\ UNCHANGED <<counter, depth, res, tries, network, said, faults, scripts, others>>

InvokersFew == 1..(NumInvoke - 1)                      \* (mutant) one pair less
Invokers    == 1..NumInvoke

\* the command sends what the peers answered only if all answered the same
ChaincodeInvoke ==
  /\ pc = "chaincodeInvoke"
  /\ LET read == Version(at[1])
     IN  Command(/\ \A p \in Invokers : Executes(p) /\ Version(at[p]) = read
                 /\ read # {},
                 Order("transfer", read, /\ OutOf <= Cardinality(Invokers)
                                         /\ Version(Len(chain)) = read),
                 UNCHANGED chain)
  /\ said' = IF res' = 0 THEN said \cup {Len(chain')} ELSE said
  /\ VerifyResult("chaincodeQuery", 1)
  /\ UNCHANGED <<counter, depth, tries, created, anchored, joined, installed, at, bounds>>

\* its result is printed and not looked at
ChaincodeQuery ==
  /\ pc = "chaincodeQuery"
  /\ Goto("end", 1)
  /\ UNCHANGED <<counter, depth, res, tries, network, said, faults, bounds>>

Transfer == ChaincodeInvoke \/ ChaincodeQuery

-----------------------------------------------------------------------------
Next ==
  \/ Start \/ Script
  \/ StartTransfer \/ Transfer
  \/ \E p \in Orgs : Commit(p)
  \/ Other

\* a command returns, and peers that are up commit what is ordered; that an
\* operator starts a script is not assumed
Fairness ==
  /\ WF_vars(Script) /\ WF_vars(Transfer)
  /\ \A p \in Orgs : WF_vars(Commit(p))

Spec     == Init /\ [][Next]_vars
FairSpec == Spec /\ Fairness

-----------------------------------------------------------------------------
(* Properties                                                              *)

Phases == {"createChannel", "join", "joinVerify", "updateAnchorPeers", "installChaincode",
           "instantiateChaincode", "issueToken"}
Labels == {"idle", "good", "exit", "end", "chaincodeInvoke", "chaincodeQuery"}
Entry  == [what : {"instantiate", "issue", "transfer", "other"}, read : SUBSET Nat, valid : BOOLEAN]

TypeScript ==
  /\ pc \in Phases \cup Labels
  /\ org \in Orgs
  /\ counter \in 1..MaxRetry
  /\ depth \in Nat
  /\ res \in {0, 1}
  /\ failed \in {"none", "chaincodeInvoke"} \cup Phases
  /\ tries \in [Orgs -> Nat]

TypeNetwork ==
  /\ created \in BOOLEAN
  /\ anchored \in SUBSET Orgs /\ joined \in SUBSET Orgs /\ installed \in SUBSET Orgs
  /\ chain \in Seq(Entry)
  /\ at \in [Orgs -> Nat] /\ \A p \in Orgs : at[p] <= Len(chain)
  /\ said \in SUBSET (1..Len(chain))
  /\ faults \in Nat /\ scripts \in Nat /\ transfers \in Nat /\ others \in Nat

TypeOK == TypeScript /\ TypeNetwork

Issued(i) == chain[i].what = "issue" /\ chain[i].valid

\* "All GOOD, BYFN execution completed" of script.sh is true: every peer is on the
\* channel and has the chaincode, every organisation has its anchor peer, and a
\* token that no peer will refuse is issued after the chaincode was instantiated.
GoodMeansReady ==
  pc = "good" =>
    /\ joined = Orgs /\ installed = Orgs /\ anchored = Orgs
    /\ \E i \in 1..Len(chain) : Issued(i) /\ Instantiated(i)

\* joinChannelWithRetry gives up on a peer "after $MAX_RETRY attempts", no sooner
\* and no later, however many attempts the peers before it took.
GivesUpAfterMaxRetry ==
  /\ \A o \in Orgs : tries[o] <= MaxRetry
  /\ pc = "exit" /\ failed = "joinVerify" => tries[org] = MaxRetry

\* issue writes over a token that exists, balances and byzantine peers; but
\* however often script.sh fails and is run again, it issues the token once.
IssuedOnce ==
  \A i, j \in 1..Len(chain) : Issued(i) /\ Issued(j) => i = j

\* What transfer.sh announces as successful is a transaction that the peers
\* find valid, unless another one wrote the token since it was executed.
AnnouncedUnlessConflict ==
  \A i \in said :
    chain[i].valid \/ Version(i - 1) \ chain[i].read # {}

\* chaincodeInvoke of utils.sh says "Invoke transaction successful" (line 359) of a
\* transaction that the orderer has accepted; transfer.sh ends with "All GOOD".
AnnouncedSucceeds == \A i \in said : chain[i].valid

\* Once started a script ends: retries and the loops over the organisations do
\* not go on for ever.
ScriptsEnd == ~Quiet ~> Quiet

-----------------------------------------------------------------------------
(* The inductive invariant, beyond types.                                  *)

\* what is behind the script is done
Done ==
  /\ pc \in {"join", "joinVerify", "updateAnchorPeers", "installChaincode",
             "instantiateChaincode", "issueToken"} => created
  /\ pc \in {"join", "joinVerify"} => \A o \in Orgs : o < org => o \in joined
  /\ pc = "joinVerify" /\ res = 0 => org \in joined
  /\ pc \in {"updateAnchorPeers", "installChaincode", "instantiateChaincode", "issueToken"}
       => joined = Orgs
  /\ pc = "updateAnchorPeers" => \A o \in Orgs : o < org => o \in anchored
  /\ pc \in {"installChaincode", "instantiateChaincode", "issueToken"} => anchored = Orgs
  /\ pc = "installChaincode" => \A o \in Orgs : o < org => o \in installed
  /\ pc \in {"instantiateChaincode", "issueToken"} => installed = Orgs

\* the counter counts the attempts at one peer
Counts ==
  /\ pc \in {"createChannel", "join"} => \A o \in Orgs : o > org => tries[o] = 0
  /\ pc = "joinVerify" => \A o \in Orgs : o > org => tries[o] = 0
  /\ pc = "createChannel" => org = 1 /\ tries[1] = 0 /\ counter = 1
  /\ pc = "join" => tries[org] = counter - 1
  /\ pc = "joinVerify" => counter = 1 /\ (res # 0 => tries[org] = MaxRetry)

\* a token is issued at the end of the run that made the channel
Once ==
  /\ \A i \in 1..Len(chain) : chain[i].what = "issue" =>
       created /\ pc \notin Phases \ {"createChannel"}
  /\ \A i, j \in 1..Len(chain) :
       chain[i].what = "issue" /\ chain[j].what = "issue" => i = j

IInv == /\ TypeOK /\ Done /\ Counts /\ Once
        /\ GoodMeansReady /\ GivesUpAfterMaxRetry
=============================================================================
