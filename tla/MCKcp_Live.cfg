SPECIFICATION FairSpec
CONSTANTS
    A = A
    B = B
    SndWnd = 2
    RcvWnd = 2
    InitRmtWnd = 2
    MtuSegs = 4
    RecvFrags = 2
    MaxFrags = 2
    MaxSegs <- OneWay3
    NetCap = 1
    AckCap = 1
    AllowDup = FALSE
INVARIANT IInv
PROPERTIES ImplementsFairChannel ZeroWindowEnds
