SPECIFICATION Spec
CONSTANTS
    m1 = m1
    m2 = m2
    done = done
    Replies <- MCReplies
    Words <- MCWords
    Wording <- MCWording
    OpenRoads <- Roads
    MaxAsks = 2
    MaxCopies = 2
    MaxFaults = 1
SYMMETRY EitherReply
INVARIANTS
    SaidAndClaimed
    OncePerTurn
PROPERTIES
    GatewayRowsStay
    ThreadOnlyGrows
