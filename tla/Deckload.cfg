SPECIFICATION Spec
CONSTANTS
    MaxCards = 6
    MaxCols = 95
    CardCols = 19
    BodyFirst = 2
    NoColumn <- MCNoColumn
    Chunk = 3
    IplMax = 9
    AddressSpace = 65536
    LoaderCols <- MCLoaderCols
    Captures <- MCCaptures
    Batches <- MCBatches
    Programs <- MCPrograms
    Bases <- MCBases
    ReadSizes = {1, 2, 4}
    MaxLoads = 2
INVARIANTS
    TypeOK
    DeckIsTheCaptures
    FeedableDeck
    LoaderLeads
    MemoryImage
PROPERTIES
    RefusedForCause
CHECK_DEADLOCK FALSE
