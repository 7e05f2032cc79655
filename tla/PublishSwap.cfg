SPECIFICATION Spec
CONSTANTS
    child = child
    orphan = orphan
    Nobody = Nobody
    None = None
    Paths <- TwoPaths
    Wanted = 2
    Builders <- TwoBuilders
    CountsRepeat = FALSE
    SweepFindsNoHome = FALSE
    SweepMeetsBuild = FALSE
SYMMETRY BuilderSymmetry
INVARIANTS
    TypeOK
    HomeIsWhole
    
PROPERTIES
    
    SuccessIsPublished
