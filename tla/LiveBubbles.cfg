SPECIFICATION Bubbles
CONSTANTS
    Speech <- Again
    Endings <- AnyEnding
    MaxQueue = 2
    MaxCuts = 1
    MaxReloads = 0
INVARIANTS
    BubblesAccounted
    NoSecondCopy
