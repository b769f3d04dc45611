CONSTANTS
  Threads = {t1, t2}
  NoThread = NoThread
  Cells = {c1, c2, c3}
  NULL = NULL
  Msgs = {m1, m2}
  NoMsg = NoMsg
SPECIFICATION FairSpec
INVARIANTS TypeOK ListIsWellFormed CellsAccountedFor
PROPERTIES ImplementsMailbox LockIsReleased WaitGetsMessage
