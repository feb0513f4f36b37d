CONSTANTS
  n1 = n1  n2 = n2  user = user
  None = None  Direct = Direct  Gone = Gone  Check = Check
  Ids <- TwoIds
  Users <- OneUser
  Kinds <- AllKinds
  Payload = 1
  Tries = 2
  FdLimit = 3
SPECIFICATION Spec
SYMMETRY Symmetric
INVARIANTS TypeOK OneExit
PROPERTY ExitHonest
