SPECIFICATION FairSpec
CHECK_DEADLOCK FALSE
CONSTANTS
  Clients = {c1, c2}
  Addrs = {a1, a2}
  Workers = {w1, w2}
  NumQueues = 2
  MaxRequests = 2
INVARIANTS TypeOK RequestsConserved OnlyKnownFaults
PROPERTIES CallsReturn
