SPECIFICATION FairSpec
CONSTANTS
  Threads = {t1, t2}
  NumKeys = 6
  NumIds = 9
  Trees <- OneEmptied
  LeafUpper = 2
  LeafLower = 0
  InnerUpper = 5
  InnerLower = 1
  MaxCalls = 3
  CallKeys = {2, 3}
PROPERTY SplitsInserted
