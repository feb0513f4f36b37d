CONSTANTS
  k1 = k1  k2 = k2
  Conns <- TwoConns
  Kinds <- AllKinds
  Payload = 2
  Tries = 2
  FdLimit = 3
SPECIFICATION FairSpec
INVARIANTS TypeOK FailClosed StreamIntact OneVerdict
PROPERTY RequestsEnd
