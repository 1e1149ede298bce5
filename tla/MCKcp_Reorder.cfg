SPECIFICATION Spec
CONSTANTS
    A = A
    B = B
    SndWnd = 2
    RcvWnd = 2
    InitRmtWnd = 2
    MtuSegs = 1
    RecvFrags = 2
    MaxFrags = 2
    MaxSegs <- OneWay3
    NetCap = 2
    AckCap = 1
    AllowDup = TRUE
INVARIANTS TypeOK InOrderDelivery NoSegmentLost NothingReadyWaits WindowsRespected
PROPERTIES NoStepBack ImplementsChannel
