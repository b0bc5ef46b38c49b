CONSTANTS
    p1 = p1  p2 = p2  p3 = p3
    i1 = i1  i2 = i2  i3 = i3  i4 = i4
    w1 = w1  w2 = w2
    Procs <- MCProcs
    Pollers <- MCPollers
    Inodes <- MCInodes
    NoProc = NoProc
    NoInode = NoInode
    EarlyExit = FALSE
    LateCleanup = FALSE
SPECIFICATION Spec
SYMMETRY Symmetry
INVARIANTS
    TypeOK
    MutualExclusion
    HolderVisible
PROPERTY ImplementsGuard
