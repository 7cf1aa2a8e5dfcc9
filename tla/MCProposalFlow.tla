--------------------------- MODULE MCProposalFlow ---------------------------
(***************************************************************************)
(* Instances of ProposalFlow for TLC.                                      *)
(***************************************************************************)
EXTENDS ProposalFlow, TLC

CONSTANTS alice, bob, peer1, peer2, given

\* the chaincode answers with results that may differ between endorsers, and
\* fails with the smallest status that counts as a failure
MCSpec0    == [chaincodeId |-> "token", args |-> <<"transfer">>]
MCOutcomes == {[status |-> 200, result |-> "r1"], [status |-> 200, result |-> "r2"],
               [status |-> 400, result |-> "r1"]}

\* bytes that are no message, no bytes at all, and an envelope whose header
\* is there and empty
MCJunk == {[kind |-> "junk"], Nil,
           [Zero.Envelope EXCEPT !.payload = [Zero.Payload EXCEPT !.header = Zero.Header]]}

Identities == Permutations({alice, bob}) \cup Permutations({peer1, peer2})
=============================================================================
