SPECIFICATION FairSpec
CONSTANTS
    FifoDepth = 2
    NoWord = NoWord
    NoDeck = NoDeck
    WildGe = FALSE
    Decks <- MCTitled
    ColRange = 256
    WValues <- MCZero
    GValues <- MCZero
    DValues <- MCZeroTwo
    FininValues <- MCSix
    WDef = 0
    GDef = 0
    DDef = 2
    FininDef = 6
    ReCommands = {"READ_UNCHANGED", "READ_NORMAL", "READ_BINARY", "RESET_ERROR", "CARD_REJECT"}
    ConsoleOps = {"ARM", "DISARM", "REWIND", "GO", "INJECT_ERROR", "SET_PARAM", "SET_POLICY_AT_REST"}
INVARIANTS
    Pelea CommandAtRest CardIntegrity
PROPERTIES
    ImplementsHopper
CHECK_DEADLOCK FALSE
