CONSTANTS
  a = a  b = b  w1 = w1  w2 = w2  i1 = i1  i2 = i2  i3 = i3  i4 = i4
  None = None
  Names <- TwoNames
  Writers <- TwoWriters
  Inodes <- FourInodes
  LockedSave = FALSE
  Faults <- AllFaults
SPECIFICATION Spec
SYMMETRY Symmetric
INVARIANT AlwaysLoads
