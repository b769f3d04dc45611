CONSTANTS
  o1 = o1
  p1 = p1
  p2 = p2
  Owner = o1
  Peers <- TwoPeers
  MaxStarts = 1
  OwnerCalls <- AllCalls
  RunStyle <- PollingOrWaiting
  Handshake = TRUE
  TimeOuts = FALSE
  Spurious = FALSE
SPECIFICATION FairSpec
INVARIANT TypeOK
INVARIANT AnswersAreRight
INVARIANT NoUseAfterFree
PROPERTY StopReturns
PROPERTY AskedRunEnds
CHECK_DEADLOCK FALSE
