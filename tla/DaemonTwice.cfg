SPECIFICATION Spec
CONSTANTS
    d1 = d1
    d2 = d2
    q1 = q1
    q2 = q2
    t1 = t1
    f1 = f1
    f2 = f2
    Nobody = Nobody
    Daemons <- TwoDaemons
    Queries <- TwoQueries
    Trees <- OneTree
    Files <- TwoFiles
    MaxStops = 0
    StartMeetsExit = TRUE
INVARIANT OneDaemon
CHECK_DEADLOCK FALSE
