SPECIFICATION Spec
CONSTANTS
    c1 = c1
    c2 = c2
    n1 = n1
    noOp = noOp
    Calls <- MCCalls
    Notices = {}
    NoOp = noOp
    Persistent = FALSE
    MaxGen = 3
    PipeCap = 1
    MaxFaults = 1
    MaxAsks = 0
SYMMETRY MCSymmetry
INVARIANTS
    NoBlockedSender
    AnswersMatch
    NoOrphanProcess
    WaitingIsServed
CHECK_DEADLOCK FALSE
