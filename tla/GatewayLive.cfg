SPECIFICATION FairSpec
CONSTANTS
    Kinds = {"folded", "reply", "error"}
    MaxRows = 3
    QueueCap = 3
    PageSize = 2
    MaxFetch = 4
    Budgets <- OneCut
PROPERTY SpeechLands
CHECK_DEADLOCK FALSE
