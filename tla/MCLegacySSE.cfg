SPECIFICATION FairSpec
CONSTANTS
    c1 = c1
    n1 = n1
    Calls <- MCCalls
    Notices <- MCNotices
    MaxGen = 3
    MaxFaults = 2
INVARIANTS
    OneStream
PROPERTIES
    SessionRefined
    OnlyServersKeepCallers
    CloseEndsStream
CHECK_DEADLOCK FALSE
