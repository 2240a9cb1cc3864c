SPECIFICATION Spec
CONSTANTS
  None = None
  r1 = r1
  r2 = r2
  r3 = r3
  r4 = r4
  r5 = r5
  keyA = keyA
  keyB = keyB
  keyC = keyC
  month = month
  budget = budget
  window = window
  team = team
  org = org
  big = big
  small = small
  Requests <- MCRequests
  Groups <- MCGroups
  Buckets <- MCBuckets
  Pools <- MCPools
  Chain <- MCChain
  Gauges <- MCGauges
  Asked <- MCAsked
  Allowed <- MCAllowed
  Limit <- MCLimit
  ConcurrentCap <- MCConcurrentCap
  Shard <- MCShard
  Usage <- MCUsage
  GovShards = 2
  Fee = 1
  Rate = 1
  MaxAge = 3
  MaxLag = 1
  Start = 3
  MaxNow = 5
  MaxStops = 1
  Scenarios <- AllScenarios
INVARIANTS GaugeExact RequestsCapHolds FeeBaseCovers FlushedOnce GracefulStopLosesNothing LocksNeverDeadlock
CHECK_DEADLOCK FALSE
