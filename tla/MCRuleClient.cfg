SPECIFICATION FairSpec
CONSTANTS
    c1 = c1
    c2 = c2
    Slots <- MCSlots
    MaxController = 2
    MaxPublished = 2
    MaxFaults = 1
INVARIANTS
    
    ErrorsHaveRoom
PROPERTIES
    BackOnlyByLeftover
    ShutsDown
    
CHECK_DEADLOCK FALSE
