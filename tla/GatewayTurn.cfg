SPECIFICATION FairSpec
CONSTANTS
    Threads = {t1, t2}
    MaxTurns = 2
    MaxTries = 2
    Permits = 1
    MaxCuts = 1
    MaxCrashes = 1
    MaxStops = 1
CHECK_DEADLOCK FALSE

    
PROPERTIES
    StopEndsItsOwnRun
    EveryTurnEnds
    
