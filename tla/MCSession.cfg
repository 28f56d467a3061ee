SPECIFICATION FairSpec
CONSTANTS
    MaxOwn = 3
    MaxOther = 1
    HistoryEntries = 2
    MaxFaults = 1
    MaxEpochs = 2
    MaxUndos = 1
    Cancels = TRUE
    SendsOperations = TRUE
INVARIANTS LocalIsSourcePlusQueue OwnersCoverHistory
CHECK_DEADLOCK FALSE
PROPERTIES UndoEnds
