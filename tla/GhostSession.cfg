CONSTANTS
  e1 = e1  e2 = e2  e3 = e3
  n1 = n1  n2 = n2  c1 = c1  c2 = c2  p1 = p1  p2 = p2
  background = background
  None = None
  Background = background
  Entries <- OneEntry
  Ids <- OneId
  IdOf <- SingleIdOf
  Udp <- NoId
  Favorites <- NoId
  Catalogs <- Single
  Clients <- TwoClients
  Procs <- TwoProcs
  Ops <- Sessions
  Faults <- NoFaults
SPECIFICATION Spec
SYMMETRY ActorSymmetry
INVARIANT StatusTruthful
