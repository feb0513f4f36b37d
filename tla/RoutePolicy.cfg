CONSTANTS
  jp = jp  us = us  x = x  h1 = h1  h2 = h2
  None = None
  Rows <- SomeRows
  RowLimit = 3
  MaxNodes = 2
  Policies <- SomePolicies
  Half = 2
  Safe <- SomeSafe
SPECIFICATION Spec
INVARIANTS TypeOK EndpointFits
PROPERTIES PickAllowed PickBest
