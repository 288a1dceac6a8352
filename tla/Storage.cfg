SPECIFICATION FairSpec
CONSTANTS
    NSectors = 2
    PerSector = 2
    Data = {d1, d2}
    Erased = Erased
    NoSector = NoSector
    MaxCount = 2
INVARIANTS
    CleanCacheIsFlash
PROPERTIES
    ImplementsBlockDevice
    LazyFlush
