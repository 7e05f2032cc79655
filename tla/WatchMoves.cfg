SPECIFICATION Spec
CONSTANTS
    r = r
    s = s
    a = a
    b = b
    n1 = n1
    n2 = n2
    n3 = n3
    n4 = n4
    v1 = v1
    v2 = v2
    outer = outer
    inner = inner
    Wide = Wide
    Nothing = Nothing
    Trees <- OneTree
    Dirs <- FlatDirs
    Parent <- FlatParent
    IndexRoot <- FlatRoot
    Under <- FlatUnder
    Nodes <- TwoNodes
    Versions <- TwoVersions
    QueueLimit = 2
    Ceiling = 3
    UserWatches = 4
    NamesReturn = FALSE
    ListsGoStale = FALSE
    FilesTakeOver = FALSE
VIEW LiveState
SYMMETRY FlatSymmetry
INVARIANTS
    TypeOK
    NoChangeEscapes
    ReadyTreesAreCovered
