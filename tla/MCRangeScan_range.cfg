SPECIFICATION FairSpec
CONSTANTS
  Clients = {c1, c2}
  Workers = {w1, w2}
  Cap = 2
  Totals = {0,5}
  MaxScans = 1
  MaxUpdates = 1
  FirstKey = 1
  FreedSizes = {0,2}
  Checksum <- XorChecksum
INVARIANTS TypeOK DeliveredExactly SessionLifetime NoWorkerDeadlock
PROPERTIES PrefetchKept OnlyCutBatchesHang
