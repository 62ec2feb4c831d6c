SPECIFICATION Spec
CONSTANTS
    s1 = s1
    s2 = s2
    brand = brand
    line = line
    cigar1 = cigar1
    cigar2 = cigar2
    None = None
    Slots <- TwoSlots
    Listings <- ThreeListings
    StartListing = "l1"
    Products <- ThreeProducts
    ProductsOn <- PagesOfCategory
    NextOf <- LinksInALoop
    Path <- Paths
    ImagesOf <- Images
    HasPack <- Packs
    MaxPages = 3
    MaxProducts = 4
    MaxRequests = 1
    MaxFaults = 1
INVARIANTS
    CrawlFollowsTheWalk
    IngestedIsStored
    EverythingIsAudited
PROPERTIES
    JobsEnd
    AssetsAreAnnounced
CHECK_DEADLOCK FALSE
