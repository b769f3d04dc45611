CONSTANTS
  Objects = {o1, o2, o3}
  Ends = {e1, e2, e3}
  MaxDescriptor = 2
  BufferSize = 3
  Capacity = 2
  MaxBytes = 3
  None = None
SPECIFICATION Spec
SYMMETRY Symmetry
INVARIANT StreamIsExact
INVARIANT DescriptorsAreOwned
CHECK_DEADLOCK FALSE
