SPECIFICATION RxSpec
CONSTANTS
    RingLen = 2
    Contexts <- MCContexts
    Events <- MCEvents
    NoEvent = NoEvent
    RxDepth = 1
    Commands <- MCCommands
    NoCommand = NoCommand
    Junk <- MCJunk
    MaxExtra = 1
INVARIANTS
    EveryEventCounted PopsWhole CommandsIntact CommandBeforeFeed
PROPERTIES
    EveryCommandHandled ImplementsRing
CHECK_DEADLOCK FALSE
