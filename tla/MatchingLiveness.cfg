SPECIFICATION FairSpec
CONSTANTS
  c1 = c1
  c2 = c2
  e1 = e1
  e2 = e2
  None = None
  Cigars = {c1, c2}
  Entries = {e1, e2}
  Sizes = {5, 25}
  Similarity <- Straddling
  TopK = 2
  Misses = 0
  BatchSize = 2
  Targets = {"cigar", "customs", "all"}
  Admins = {a1}
  Catalogues <- TwoBuckets
  Slots = {w1, w2}
  MaxRequests = 3
  MaxChanges = 0
  MaxFaults = 1
PROPERTIES
  JobsEnd
  FanOutReaches
CHECK_DEADLOCK FALSE
