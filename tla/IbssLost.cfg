SPECIFICATION IbssSpec
CONSTANTS
    Peers = {7, 9}
    Mine = {3}
    Slots = 3
    MaxJoins = 3
CHECK_DEADLOCK FALSE
INVARIANT
    AddedIsPinged
