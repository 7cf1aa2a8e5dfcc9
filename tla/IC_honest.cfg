CONSTANTS
  timer = timer
  page = page
  muma = muma
  muma2 = muma2
  mallory = mallory
  NoToken = NoToken
  Accounts <- MCAccounts
  Strangers <- MCStrangers
  Clients <- FourClients
  Request <- RequestFour
  PeerType <- TypeFour
  Initial <- UpToFive
  OutOf = 6
  Laggards = {1}
  MaxFaults = 1
SPECIFICATION Spec
CHECK_DEADLOCK FALSE
INVARIANT TypeOK
INVARIANT AnswerInLedger
INVARIANT Conserved
PROPERTY LedgerSpec
