SPECIFICATION FairSends
CONSTANTS
    a = a
    Msgs <- OneMsg
    MaxSockets = 3
    MaxRetries = 1
    MaxFaults = 2
INVARIANTS
    MessagesAccounted
    AnsweredOnce
PROPERTIES
    EveryMessageArrives
CHECK_DEADLOCK FALSE
