CONSTANTS
  o1 = o1
  p1 = p1
  p2 = p2
  Owner = o1
  Peers <- Nobody
  MaxStarts = 2
  OwnerCalls <- AllCalls
  RunStyle <- AnyRun
  Handshake = TRUE
  TimeOuts = TRUE
  Spurious = TRUE
SPECIFICATION Spec
INVARIANT AnswersAreRight
INVARIANT OneRunAtATime
INVARIANT PollsOnlyWhenAsked
INVARIANT RequestOutlivesTimeOut
INVARIANT NeverTerminates
CHECK_DEADLOCK FALSE
