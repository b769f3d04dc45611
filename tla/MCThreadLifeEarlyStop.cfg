CONSTANTS
  o1 = o1
  p1 = p1
  p2 = p2
  Owner = o1
  Peers <- Nobody
  MaxStarts = 1
  OwnerCalls <- StartStop
  RunStyle <- Polling
  Handshake = FALSE
  TimeOuts = FALSE
  Spurious = FALSE
SPECIFICATION Spec
INVARIANT ReturnMeansEnded
CHECK_DEADLOCK FALSE
