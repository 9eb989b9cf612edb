SPECIFICATION Spec
CONSTANTS
  NumKeys = 4
  Values = {v1}
  Upper = 4
  Lower = 1
  MaxDepth = 3
  MaxMerges = 1
INVARIANT ValuesExact
