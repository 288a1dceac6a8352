SPECIFICATION FairSpec
CONSTANTS
    FifoDepth = 2
    NoWord = NoWord
    NoDeck = NoDeck
    WildGe = FALSE
    Decks <- MCDecks
    ColRange = 256
    WValues <- MCZero
    GValues <- MCZero
    DValues <- MCZeroTwo
    FininValues <- MCSix
    WDef = 0
    GDef = 0
    DDef = 2
    FininDef = 6
    ReCommands = {"READ_UNCHANGED", "READ_NORMAL", "READ_BINARY", "RESET_ERROR", "CARD_REJECT", "PUT_BINARY", "NO_ACTION"}
    ConsoleOps = {"ARM", "DISARM", "EJECT", "SET_PARAM", "SET_POLICY"}
INVARIANTS
    FininOwned
PROPERTIES
    FininFallsBetweenCards ReadAnswered ReadyAgain
CHECK_DEADLOCK FALSE
