SPECIFICATION Spec
CONSTANTS
    Bytes = {0, 1}
    ZeroByte = 0
    BlockSize = 2
    RegionStart = 10
    Data <- MCData
    EncodedSize <- MCEncodedSize
    Images <- AllImages
    Dests <- MCDests
    MaxAborts = 2
INVARIANTS
    TypeOK
    ReportsTrue
    WrittenFileIsExact
    VerifyFindsLoss
    ImagesAccepted
PROPERTIES
    StreamStaysInsideDisk
    OnlyLostBlocksChange
    Restores
