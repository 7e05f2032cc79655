SPECIFICATION FairSpec
CONSTANTS
    p1 = p1
    p2 = p2
    q1 = q1
    Wide = Wide
    Paths <- OnePath
    Queries <- OneQuery
    FullCorpus <- OneQuery
    DirtyCeiling = 0
    MaxDirtyPaths = 1
    MaxVersion = 1
    OrphansSurvive = FALSE
    WatchesRunOut = FALSE
VIEW CoreState
PROPERTIES
    QueriesEnd
    RefreshIsServed
