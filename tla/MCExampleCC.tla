----------------------------- MODULE MCExampleCC -----------------------------
(***************************************************************************)
(* An instance of ExampleCC for TLC: a few transactions on two entities.   *)
(***************************************************************************)
EXTENDS ExampleCC, TLC

CONSTANTS t1, t2, t3

MCTxs     == {t1, t2, t3}
MCAmounts == {5, -2}

AnyTx == Permutations(MCTxs)
=============================================================================
