CONSTANTS
  a = a  loop = loop  w1 = w1  i1 = i1  i2 = i2  old = old  new = new
  None = None
  Names <- OneName
  Writers <- LoopAndHandler
  Loop = loop
  Inodes <- TwoInodes
  LockedSave = TRUE
  Faults <- FullDisk
  Creds <- TwoCreds
  Mishaps <- AllMishaps
SPECIFICATION ServiceSpec
INVARIANTS ServiceTypeOK AlwaysLoads
PROPERTIES AtomicSave AuthKept ComesBack KeepsRefreshing
