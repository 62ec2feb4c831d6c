SPECIFICATION CronSpec
CONSTANTS
  fr = fr
  douane = douane
  p1 = p1
  p2 = p2
  k1 = k1
  k2 = k2
  v1 = v1
  v2 = v2
  None = None
  MaxRequests = 2
  MaxFaults = 1
  MaxFailures = 1
  Slots = {w1, w2}
  Publications = {p1}
  SourceOf <- OneSource
  Listings <- OneListing
  SeedFiles <- OnOrOff
  Keys = {k1, k2}
  NoPackaging = {}
  Versions = {v1, v2}
  Document <- SameEntries
  Sources = {fr}
  CronSources = {fr}
  ApiSources = {}
PROPERTIES
  DiscoveredIsProcessed
  JobsEnd
  CronSourceIsRefreshed
