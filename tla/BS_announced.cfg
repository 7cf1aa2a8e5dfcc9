CONSTANTS
  NumOrgs = 4
  NumInvoke = 3
  OutOf = 3
  MaxRetry = 1
  MaxFaults = 0
  MaxScripts = 1
  MaxTransfers = 1
  MaxOthers = 1
SPECIFICATION Spec
CHECK_DEADLOCK FALSE
INVARIANT AnnouncedSucceeds
