SPECIFICATION Spec
CONSTANTS
    w1 = w1
    w2 = w2
    a1 = a1
    a2 = a2
    i1 = i1
    i2 = i2
    None = None
    Workers <- TwoWorkers
    Assets <- TwoAssets
    Images <- TwoImages
    MaxRequests = 3
    MaxFaults = 1
INVARIANTS
    ObjectHasRow
    OkIsLinked
    UploadedOnce
PROPERTIES
    SettledStays
    DownloadSettles
CHECK_DEADLOCK FALSE
