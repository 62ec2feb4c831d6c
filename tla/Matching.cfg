SPECIFICATION FairSpec
CONSTANTS
  c1 = c1
  c2 = c2
  e1 = e1
  e2 = e2
  None = None
  Cigars = {c1}
  Entries = {e1, e2}
  Sizes = {5, 25}
  Similarity <- Straddling
  TopK = 2
  Misses = 1
  BatchSize = 2
  Targets = {"all"}
  Admins = {a1, a2}
  Catalogues <- TwoListed
  Slots = {w1, w2}
  MaxRequests = 5
  MaxChanges = 1
  MaxFaults = 1
INVARIANTS
  ReviewerRecorded
  StatusFitsScore
PROPERTIES
  HumanVerdictKept
  ImplementsVerdicts
SYMMETRY Symmetry
CHECK_DEADLOCK FALSE
