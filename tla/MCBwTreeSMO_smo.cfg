SPECIFICATION FairSpec
CONSTANTS
  Threads = {t1, t2}
  NumKeys = 6
  NumIds = 12
  Trees <- AllTrees
  LeafUpper = 2
  LeafLower = 0
  InnerUpper = 5
  InnerLower = 1
  MaxCalls = 2
  CallKeys = {2, 3}
INVARIANTS TypeOK LeavesPartition RemovedNotLeftmost SeparatorsResolve NoDanglingId
PROPERTIES AssertsHold KeySetSpec CallsReturn
