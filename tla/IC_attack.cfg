CONSTANTS
  timer = timer
  page = page
  muma = muma
  muma2 = muma2
  mallory = mallory
  NoToken = NoToken
  Accounts <- MCAccounts
  Strangers <- MCStrangers
  Clients <- ThreeClients
  Request <- RequestThree
  PeerType <- TypeThree
  Initial <- AnyByzantine
  OutOf = 6
  Laggards = {1}
  MaxFaults = 1
SPECIFICATION Spec
CHECK_DEADLOCK FALSE
INVARIANT AttackNeedsPolicy
INVARIANT CountedRight
PROPERTY AcceptedIsEndorsed
