SPECIFICATION Spec
CONSTANTS
  Threads = {t1, t2, t3}
  NumTypes = 1
  SlotSize <- OneSize
  NumSegs = 2
  RegionSize = 5
  InitSize = 3
  StraySegs = {99}
  NoThread = NoThread
SYMMETRY Symmetry
INVARIANTS TypeOK SlotsApart ListShape
PROPERTY PoolSpec
