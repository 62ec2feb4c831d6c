SPECIFICATION Spec
CONSTANTS
  fr = fr
  douane = douane
  p1 = p1
  p2 = p2
  k1 = k1
  k2 = k2
  v1 = v1
  v2 = v2
  None = None
  MaxRequests = 3
  MaxFaults = 1
  MaxFailures = 1
  Slots = {w1, w2}
  Publications = {p1, p2}
  SourceOf <- OneSource
  Listings <- TwoOrders
  SeedFiles <- OnOrOff
  Keys = {k1, k2}
  NoPackaging = {k2}
  Versions = {v1, v2}
  Document <- SameEntries
  Sources = {fr}
  CronSources = {}
  ApiSources = {}
INVARIANTS
  IngestedIsWhole
  DiscoveredIsPending
  PendingIsCommitted
PROPERTIES
  NeverRediscovered
  PricesChangeTogether
SYMMETRY SlotSymmetry
