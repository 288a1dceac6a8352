SPECIFICATION Spec
CONSTANTS
    FifoDepth = 2
    NoWord = NoWord
    NoDeck = NoDeck
    WildGe = TRUE
    Decks <- MCShort
    ColRange = 256
    WValues <- MCZero
    GValues <- MCZero
    DValues <- MCTwo
    FininValues <- MCTwo
    WDef = 0
    GDef = 0
    DDef = 2
    FininDef = 2
    ReCommands = {"READ_UNCHANGED", "READ_BINARY", "RESET_ERROR", "CARD_REJECT"}
    ConsoleOps = {"ARM", "DISARM", "REWIND", "GO", "EJECT", "SET_PARAM", "SET_POLICY", "INJECT_ERROR"}
INVARIANTS
    FeederInv CursorInDeck FeedKept LupobTruthful
CHECK_DEADLOCK FALSE
