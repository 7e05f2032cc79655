SPECIFICATION Spec
CONSTANTS
    r = r
    s = s
    a = a
    b = b
    n1 = n1
    n2 = n2
    n3 = n3
    n4 = n4
    v1 = v1
    v2 = v2
    outer = outer
    inner = inner
    Wide = Wide
    Nothing = Nothing
    Trees <- TwoTrees
    Dirs <- SideDirs
    Parent <- SideParent
    IndexRoot <- SideRoot
    Under <- SideUnder
    Nodes <- FourNodes
    Versions <- OneVersion
    QueueLimit = 2
    Ceiling = 3
    UserWatches = 2
    NamesReturn = FALSE
    ListsGoStale = FALSE
    FilesTakeOver = TRUE
VIEW RegistryState
SYMMETRY NodeSymmetry
INVARIANTS
    BudgetIsHonest
    MarksAreRegistered
