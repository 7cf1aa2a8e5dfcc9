CONSTANTS
  r1 = r1
  r2 = r2
  r3 = r3
  Requests <- MCRequests
  Peers <- MCPeers
  Bodies = {}
  Initial = {}
  Sizes = {}
  MaxRow = 0
  MaxTicks = 4
  MaxFaults = 0
  MaxRestarts = 1
SPECIFICATION Spec
SYMMETRY Interchangeable
CHECK_DEADLOCK FALSE
 
INVARIANT StoppedStops
