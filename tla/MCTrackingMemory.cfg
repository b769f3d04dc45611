CONSTANTS
  Threads = {t1, t2}
  Blocks = {b1, b2, b3}
  MaxClients = 2
  NULL = NULL
  NoThread = NoThread
  Wild = Wild
SPECIFICATION Spec
INVARIANT ListIsHeap
INVARIANT FreesAreValid
PROPERTY EveryCallReturns
CHECK_DEADLOCK FALSE
