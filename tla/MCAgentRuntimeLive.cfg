SPECIFICATION FairSpec
CONSTANTS
    Calls = {c1, c2, c3}
    Capacity = 1
    MaxIdle = 1
PROPERTY EveryCallEnds
