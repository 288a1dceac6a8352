SPECIFICATION Spec
CONSTANTS
    NCards = 3
    Loader = 0
    NCols = 3
    FifoDepth = 1
    MaxStrobes = 6
    MaxRewinds = 1
INVARIANTS
    CardsInOrder CardsWhole FedExactlyWhilePresenting BusyWhilePresenting
PROPERTIES
    CommandsActedUpon PresentationsEnd
CHECK_DEADLOCK FALSE
