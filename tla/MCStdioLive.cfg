SPECIFICATION FairSpec
CONSTANTS
    c1 = c1
    c2 = c2
    n1 = n1
    noOp = noOp
    Calls <- MCOneCall
    Notices <- MCNotices
    NoOp = noOp
    Persistent = FALSE
    MaxGen = 3
    PipeCap = 1
    MaxFaults = 1
    MaxAsks = 1
CONSTRAINT MCBudget
PROPERTIES
    SessionRefined
    OnlyServersKeepCallers
    ProcessesReclaimed
CHECK_DEADLOCK FALSE
