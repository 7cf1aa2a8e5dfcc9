CONSTANTS
  t1 = t1
  t2 = t2
  t3 = t3
  Txs <- MCTxs
  Names = {a, b}
  Amounts <- MCAmounts
  Nil = Nil
  Junk = Junk
SPECIFICATION Spec
CHECK_DEADLOCK FALSE
SYMMETRY AnyTx
PROPERTY Serial
