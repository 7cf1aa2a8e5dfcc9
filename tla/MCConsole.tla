------------------------------ MODULE MCConsole ------------------------------
(***************************************************************************)
(* An instance of Console for TLC: three requests of any kind.             *)
(***************************************************************************)
EXTENDS Console, TLC

CONSTANTS r1, r2, r3

MCRequests == {r1, r2, r3}
MCPeers    == {"peer1", "peer2"}

\* both peers turned, one of them turned back, and a name nobody has
MCBodies == {[good |-> {}, bad |-> {"peer1", "peer2"}],
             [good |-> {"peer1"}, bad |-> {"peer2"}],
             [good |-> {"mallory"}, bad |-> {}]}

Interchangeable == Permutations(MCRequests)
=============================================================================
