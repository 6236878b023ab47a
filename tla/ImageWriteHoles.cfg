SPECIFICATION Spec
CONSTANTS
    Bytes = {0, 1}
    ZeroByte = 0
    BlockSize = 2
    RegionStart = 10
    Data <- MCData
    EncodedSize <- MCEncodedSize
    Images <- MCImages
    Dests <- MCDests
    MaxAborts = 0
INVARIANT
    HolesReadZero
