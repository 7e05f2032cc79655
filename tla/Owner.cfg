SPECIFICATION FairSpec
CONSTANTS
    d1 = d1
    d2 = d2
    q1 = q1
    q2 = q2
    t1 = t1
    f1 = f1
    f2 = f2
    Nobody = Nobody
    Daemons <- TwoDaemons
    Queries <- TwoQueries
    Trees <- OneTree
    Files <- TwoFiles
    MaxStops = 1
    StartMeetsExit = FALSE
INVARIANT ServingIsAnnounced
PROPERTY StandingRequestsAreServed
\* A daemon may have left for want of a lease, and every query have its answer
CHECK_DEADLOCK FALSE
