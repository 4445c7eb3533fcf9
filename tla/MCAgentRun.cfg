SPECIFICATION FairSpec
CONSTANTS
    MaxRuns = 2
    ResumeCallers = 1
    InterruptCallers = 1
    read = read
    shell = shell
    Tools <- MCOneTool
    AlwaysAsk <- MCNone
CHECK_DEADLOCK FALSE
INVARIANTS
    RunsInOrder
    
PROPERTIES
    StopIsHonoured
    ImplementsStream
    CancelEnds
    ForcedRunEnds
