SPECIFICATION MCSpec
CONSTANTS
    None = None
    IsoOf <- Labels
    Formats <- Aliases
    Reading <- TextsRead
    Preamble = 2
    Margin = 2
    References <- ReferencesSold
    Packs <- PacksSold
    Hosts <- HostsOfShops
    Documents <- DocumentsRead
    Scans <- ScansRead
    Shops <- ShopsCrawled
    RecallK = 3
    MaxPageSize = 4
    MaxOffset = 8
    Cigars <- FourCigars
    Texts <- QueryTexts
    Distances <- QueryDistances
    Limits = {2}
    Rows <- RowsListed
    Lists <- RowLists
    Asked <- Reads
    Sizes = {1, 2, 3, 4, 5, 6}
INVARIANTS
    FusionRespectsBothBranches
    PagesCoverTheListing
    PacksConverge
    FormsAgree
    ScansAreComplete
CHECK_DEADLOCK FALSE
