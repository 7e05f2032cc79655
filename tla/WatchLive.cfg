SPECIFICATION FairSpec
CONSTANTS
    r = r
    s = s
    a = a
    b = b
    n1 = n1
    n2 = n2
    n3 = n3
    n4 = n4
    v1 = v1
    v2 = v2
    outer = outer
    inner = inner
    Wide = Wide
    Nothing = Nothing
    Trees <- OneTree
    Dirs <- SmallDirs
    Parent <- SmallParent
    IndexRoot <- FlatRoot
    Under <- SmallUnder
    Nodes <- TwoNodes
    Versions <- OneVersion
    QueueLimit = 1
    Ceiling = 3
    UserWatches = 4
    NamesReturn = FALSE
    ListsGoStale = TRUE
    FilesTakeOver = FALSE
PROPERTIES
    TreesGetWatched
