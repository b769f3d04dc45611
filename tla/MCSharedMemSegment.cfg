CONSTANTS
  Objects = {o1, o2, o3}
  Segments = {s1, s2}
  MaxTries = 2
  None = None
  Failed = Failed
SPECIFICATION Spec
SYMMETRY Symmetry
INVARIANT AccessIsGranted
INVARIANT NoOrphanSegment
CHECK_DEADLOCK FALSE
