CONSTANTS
  r1 = r1
  r2 = r2
  r3 = r3
  Requests <- MCRequests
  Peers <- MCPeers
  Bodies <- MCBodies
  Initial = {}
  Sizes = {0, 1, 2}
  MaxRow = 3
  MaxTicks = 0
  MaxFaults = 1
  MaxRestarts = 1
SPECIFICATION Spec
SYMMETRY Interchangeable
CHECK_DEADLOCK FALSE
INVARIANT ListedWereByzantine
INVARIANT UnlistedExcused
INVARIANT WalkComplete
INVARIANT RepeatsBounded
