SPECIFICATION MCSpec
CONSTANTS
  Threads = {t1, t2}
  ChunkSize = 2
  NumIds = 8
  MaxCalls = 3
  InnerKeys = 4
  InnerIds = {i1, i2, i3, i4, i5}
  InvalidId = none
  InnerUpper = 3
  InnerLower = 1
  InnerDepth = 2
  InnerMerges = 2
SYMMETRY Symmetry
INVARIANTS TypeOK RecordsApart NothingLost NoReadOfFreed InnerTypeOK RoutesExact SeparatorsExact
