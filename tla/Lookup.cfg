SPECIFICATION Spec
CONSTANTS
    Weight <- MCWeight
    MaxGramLen = 6
    StackCap = 5
    EdgeCap = 2
    CountCap = 3
    BucketCount = 3
    EntropyMin = 5
    MaxExact = 6
    MaxExactBytes = 24
    MaxSet = 4
    BoundaryGrow = 5
    BoundaryKeep = 3
    MaxFlushSet = 6
    MaxMaximalBranches = 3
    MaxConcatAlternatives = 2
    MaxSeamCross = 8
    GramBudget = 20
    MinFlushGrams = 6
    MaxRepeatExpand = 3
    MaxClass = 3
    MaxBoundaryBytes = 2
    SkeletalCount = 2
    WordScalars <- MCWordScalars
    Alphabet <- MCAlphabet
    MaxAllOfGrams = 3
    MaxAnyByteSets = 2
    MaxAnyByteSetLen = 4
    Corpora <- MCCorpora
    Patterns <- MCPatterns
    ScanFallbackPct = 30
    MinCeiling = 2
    RefineMultiplier = 2
INVARIANTS
    ScanFindsTheHulls
    CoverIsIndexed
    PlanAdmitsMatches
    CandidatesComplete
    FastAgrees
    EstimateIsABound

    
CHECK_DEADLOCK FALSE
