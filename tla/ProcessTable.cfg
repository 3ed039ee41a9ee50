SPECIFICATION Spec
CONSTANTS
  NR_PROCS = 6
  pid1 = pid1
  pid2 = pid2
  pid3 = pid3
  PIDS <- MCPids
  LEADERS = {3}
SYMMETRY Symmetry
INVARIANTS
  WaitersHaveChildren
  GroupCallsReachLive
  LongestChainFound
  DescendantsCounted
