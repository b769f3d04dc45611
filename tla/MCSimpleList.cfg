CONSTANTS
  c1 = c1
  c2 = c2
  c3 = c3
  a = a
  b = b
  Null = Null
  Cells <- ThreeCells
  Values <- TwoValues
  Uses <- AllUses
  Careful = TRUE
SPECIFICATION Spec
INVARIANT NeverBroken
INVARIANT WellFormed
PROPERTY ImplementsList
CHECK_DEADLOCK FALSE
