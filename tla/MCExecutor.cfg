CONSTANTS
    c1 = c1
    c2 = c2
    t1 = t1
    t2 = t2
    a = a
    b = b
    z = z
    m = m
    Message = m
    NoClient = NoClient
    Client <- MCClient
    Code <- MCOneTask
    TooLarge = {}
    Output <- MCOutput
    Runs <- MCRuns
    PipeSize = 1
    Foreground = FALSE
    CutReplies = FALSE
    MaxFaults = 1
SPECIFICATION FairSpec
INVARIANTS TypeOK NoWorkTwice
PROPERTIES RunsRemotely SendCodeReturns AssignedIsCompleted AuditIsAnswered
CHECK_DEADLOCK FALSE
