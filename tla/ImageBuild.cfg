SPECIFICATION Spec
CONSTANTS
    Bytes = {0, 1}
    ZeroByte = 0
    ClusterSize = 2
    L2Entries = 2
    HostOffsets <- MCHostOffsets
    HostData <- MCHostData
    Data <- MCData
    EncodedSize <- MCEncodedSize
    RegionStart = 10
    Qcows <- OwnedDisks
    U32 = 1024
    U64 = 4096
INVARIANTS
    TypeOK
    TableMatchesSource
    DigestsResolve
    NonceAgreement
    NoPanic
    StreamOrder
    Deduplicated
    PrimaryHeaderLast
    BuildsReference
CHECK_DEADLOCK FALSE
