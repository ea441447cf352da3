CONSTANTS
    b1 = b1
    b2 = b2
    c1 = c1
    c2 = c2
    t1 = t1
    t2 = t2
    NoBsc = NoBsc
    NoTid = NoTid
    BSCs <- MCBSCs
    Conns <- MCConns
    Tids <- MCTids
    NumEndpoints <- MCNumEndpoints
    MaxEndpoints <- MCMaxEndpoints
    Cics <- MCCics
SYMMETRY MCSymmetry
SPECIFICATION Spec
PROPERTY NoCiReplyTearsDown
