SPECIFICATION Spec
CONSTANTS
    BS = 8
    EntSize = 4
    RootEntries = 8
    LfnLen = 2
    Fat16From = 10
    NameMax = 5
    Cap <- MCCap
    Hex <- MCHex
    Volumes <- MCVolumes
    Loads <- MCLoads
    NoLba = NoLba
INVARIANTS
    LoadsTheFile ListsTheFiles
PROPERTIES
    CommandsEnd
