SPECIFICATION Spec
CONSTANTS
    Kinds = {"folded", "reply", "long", "error"}
    MaxRows = 5
    QueueCap = 2
    PageSize = 2
    MaxFetch = 3
    Budgets <- SortsOfLoss
CONSTRAINT WorthWhile
INVARIANT NoSilentLoss
INVARIANT NoOldNews
INVARIANT GapIsAttended
CHECK_DEADLOCK FALSE
