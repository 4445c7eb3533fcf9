\* A research request and a handoff, two presses, one agent turn at a time.
SPECIFICATION FairSpec
CONSTANTS
    Research = {"look"}
    Handoffs = {"do"}
    Presses = {p, q}
    p = p
    q = q
    Slots = 1
    MaxFaults = 3
    MaxEdits = 2
INVARIANTS
    
    AskedOnConsent
    
 
\* A server with nothing to do may rest.
CHECK_DEADLOCK FALSE
