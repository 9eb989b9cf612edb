SPECIFICATION Spec
CONSTANTS
  NumKeys = 3
  Values = {v1, v2}
  Upper = 4
  Lower = 1
  MaxDepth = 2
  MaxMerges = 2
SYMMETRY ValueSymmetry
INVARIANTS TypeOK SearchExact ConsolidationExact
