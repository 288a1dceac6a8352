SPECIFICATION Spec
CONSTANTS
    Captures = {sat}
    Batches = {}
    Bins = {prog}
    Long = long
    Stub = stub
    Cut <- MCCut
    NoName = NoName
    Values = {w1, w2}
    Default = w1
    QueueDepth = 2
    Clogged = TRUE
    FlushFails = TRUE
    Prompt = TRUE
INVARIANTS
    TunablesInStep
