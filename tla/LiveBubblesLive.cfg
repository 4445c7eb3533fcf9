SPECIFICATION FairBubbles
CONSTANTS
    Speech <- Both
    Endings <- AnyEnding
    MaxQueue = 2
    MaxCuts = 0
    MaxReloads = 1
 
PROPERTY EveryBubbleCloses
