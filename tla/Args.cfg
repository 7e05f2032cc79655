SPECIFICATION Spec
CONSTANTS
    Themes <- AllThemes
    MaxWords <- AllBounds
    RcHelps = FALSE
INVARIANTS
    OverriddenFlagsLeaveNoTrace
    
    RebuildAgrees
    StdinReadOnce
    EarlyStopIsInvisible
    
PROPERTIES
    FingerprintCoversWalk
CHECK_DEADLOCK FALSE
