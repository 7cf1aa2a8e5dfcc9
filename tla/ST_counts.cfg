CONSTANTS
  timer = timer
  attack = attack
  muma = muma
  page = page
  NoPage = NoPage
  Absent = Absent
  Nil = Nil
  Calls <- MCCalls
  Sender <- MCSender
  Byzantine <- MCByzantine
  Pages = {page}
SPECIFICATION FairSpec
CHECK_DEADLOCK FALSE
INVARIANT NeverOvercounts
INVARIANT SafeAlone
INVARIANT ExactAlone
INVARIANT ShownTrue
PROPERTY CallsSettle
