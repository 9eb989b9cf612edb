SPECIFICATION FairSpec
CONSTANTS
  NumPairs = 5
  KeyStarts = {2, 4}
  LeafUpper = 4
  LeafLower = 1
  Cap = 2
  Contexts = {x1, x2, x3}
  Null = Null
INVARIANTS TypeOK ScanExact ContextsSound
PROPERTY LowerBoundReturns
