SPECIFICATION FairSpec
CONSTANTS
  Threads = {t1, t2}
  Nodes = {n1, n2, n3}
  Epochs = {e1, e2}
  MaxThreads = 4
  None = None
  Reuse = FALSE
INVARIANTS TypeOK NoUseAfterFree OneFate
PROPERTY GarbageFreed
