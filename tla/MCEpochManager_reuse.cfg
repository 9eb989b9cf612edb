SPECIFICATION Spec
CONSTANTS
  Threads = {t1, t2}
  Nodes = {n1}
  Epochs = {e1, e2, e3}
  MaxThreads = 4
  None = None
  Reuse = TRUE
INVARIANT JoinedEpochLive
SYMMETRY Symmetry
