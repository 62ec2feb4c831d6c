SPECIFICATION Spec
CONSTANTS
  fr = fr
  douane = douane
  p1 = p1
  p2 = p2
  k1 = k1
  k2 = k2
  v1 = v1
  v2 = v2
  None = None
  MaxRequests = 1
  MaxFaults = 0
  MaxFailures = 0
  Slots = {w1}
  Publications = {p1}
  SourceOf <- OneSource
  Listings <- OneListing
  SeedFiles <- OnOrOff
  Keys = {k1, k2}
  NoPackaging = {}
  Versions = {v1, v2}
  Document <- OneEntry
  Sources = {fr}
  CronSources = {fr}
  ApiSources = {}
INVARIANT SkippedIsStored
