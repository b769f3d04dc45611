CONSTANTS
  t1 = t1
  t2 = t2
  t3 = t3
  la = la
  lb = lb
  v1 = v1
  NoThread = NoThread
  Threads <- ThreeThreads
  Lists <- TwoLists
  Elements <- OneValue
  Assigns <- OneWay
  MaxCalls = 2
  Timed <- OneThread
SPECIFICATION SharedFairSpec
INVARIANT AccessIsExclusive
INVARIANT CopyIsExact
INVARIANT LocksAreReturned
PROPERTY CallsReturn
CHECK_DEADLOCK FALSE
