CONSTANTS
  StackSize = 128
  BufferSize = 3500
  KeepItems = TRUE
  Kept <- MCKept
  Declarations <- MCDeclarations
  InnerFields <- MCInner
  ValuesOf <- MCValuesOf
  OldValuesOf <- MCOldValuesOf
SPECIFICATION SerialSpec
INVARIANT RoundTrip
INVARIANT CutNeverCorrupts
INVARIANT ShortMessageWasAnnounced
CHECK_DEADLOCK FALSE
