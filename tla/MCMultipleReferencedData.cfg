CONSTANTS
  t1 = t1
  t2 = t2
  t3 = t3
  h1 = h1
  h2 = h2
  h3 = h3
  Threads <- ThreeThreads
  Handles <- ThreeHandles
  NoThread = NoThread
  NoHandle = NoHandle
SYMMETRY Symmetry
SPECIFICATION Spec
INVARIANT TypeOK
INVARIANT CountIsExact
INVARIANT NoUseAfterDelete
INVARIANT NoLeak
CHECK_DEADLOCK FALSE
