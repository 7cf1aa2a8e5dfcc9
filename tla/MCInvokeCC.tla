----------------------------- MODULE MCInvokeCC -----------------------------
(***************************************************************************)
(* Instances of InvokeCC for TLC: the transfer of the timer, the attack    *)
(* and muma of the page, on a token of 15.  Each transfer takes 10, so the *)
(* second one is not covered.                                              *)
(***************************************************************************)
EXTENDS InvokeCC

CONSTANTS timer, page, muma, muma2, mallory

MCAccounts  == {"alice", "bob"}
MCStrangers == {mallory}

FromAliceToBob(f) == [fn |-> "transfer", from |-> "alice", to |-> "bob", amount |-> 10, flag |-> f]

\* how many of the peers are byzantine: none, and each side of 3, 6 and 9
ByzantineNums == {0, 3, 4, 5, 6, 7, 10}

WithByzantine(nums) == {Issue("alice", 15, n).payload : n \in nums}
AnyByzantine == WithByzantine(ByzantineNums)
UpToFive == WithByzantine({0, 4})    \* at most 5 with the one muma turns

Attack(c) == IF c = page THEN 1 ELSE 0

SetPeerOf(good, bad) == [fn |-> "setPeer", good |-> good, bad |-> bad, flag |-> FALSE]

\* muma turns three peers
ThreeClients == {page, timer, muma}
TypeThree    == [c \in ThreeClients |-> Attack(c)]
RequestThree == [c \in ThreeClients |-> IF c = muma THEN SetPeerOf({1}, {3, 4})
                                                    ELSE FromAliceToBob(c = page)]

\* muma turns one peer and then names somebody who is none
FourClients == ThreeClients \cup {muma2}
TypeFour    == [c \in FourClients |-> Attack(c)]
RequestFour == [c \in FourClients |-> CASE c = muma  -> SetPeerOf({}, {3})
                                         [] c = muma2 -> SetPeerOf({}, {2, mallory})
                                         [] OTHER     -> FromAliceToBob(c = page)]

\* what MoneyConserved asks of the tokens the instances start with
ASSUME InitialAssumption == \A t \in Initial : Balanced(t)
=============================================================================
