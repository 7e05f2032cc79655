SPECIFICATION Spec
CONSTANTS
    p1 = p1
    p2 = p2
    q1 = q1
    Wide = Wide
    Paths <- TwoPaths
    Queries <- OneQuery
    FullCorpus <- NoQuery
    DirtyCeiling = 1
    MaxDirtyPaths = 1
    MaxVersion = 1
    OrphansSurvive = FALSE
    WatchesRunOut = FALSE
VIEW CoreState
SYMMETRY PathSymmetry
INVARIANTS
    TypeOK
    VouchedAnswersAreComplete
    LedgerAccountsForFloors
    NoChangeIsForgotten
    CleanMeansCaughtUpSinceWatch
PROPERTIES
    
    ImplementsSearch
