SPECIFICATION Spec
CONSTANTS
    q1 = q1
    q2 = q2
    k1 = k1
    Servers = {"a", "b"}
    Defs = {2, 3}
    Completed <- MCCompleted
    Valid <- MCValid
    Resolved <- MCResolved
    Fixed = {2}
    Requests <- MCRequests
    Commands <- MCCommands
    Texts <- MCTexts
    MaxEdits = 2
INVARIANTS
    NeverTorn
    AcknowledgedKept
PROPERTIES
    ReloadConverges
