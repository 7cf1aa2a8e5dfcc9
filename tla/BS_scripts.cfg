CONSTANTS
  NumOrgs = 4
  NumInvoke = 3
  OutOf = 3
  MaxRetry = 2
  MaxFaults = 2
  MaxScripts = 2
  MaxTransfers = 2
  MaxOthers = 1
SPECIFICATION FairSpec
CHECK_DEADLOCK FALSE
INVARIANT GoodMeansReady
INVARIANT GivesUpAfterMaxRetry
INVARIANT IssuedOnce
INVARIANT AnnouncedUnlessConflict
PROPERTY ScriptsEnd
