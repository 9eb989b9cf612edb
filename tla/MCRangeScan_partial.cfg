SPECIFICATION FairSpec
CONSTANTS
  Clients = {c1}
  Workers = {w1, w2}
  Cap = 2
  Totals = {5}
  MaxScans = 1
  MaxUpdates = 0
  FirstKey = 1
  FreedSizes = {}
  Checksum <- XorChecksum
PROPERTY CallsReturn
