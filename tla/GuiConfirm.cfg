SPECIFICATION Spec
CONSTANTS
    Machines <- Desktop
    Alphabet <- MCAlphabet
    Local <- MCLocal
    Hosts = {"hA", "hB"}
    Size <- MCSize
    Devices <- MCDevices
    Counts <- MCCounts
    Presses = 2
    MaxReplaced = 0
    BootIds = {0, 256, 257}
    FirstFreeId = 256
    Listings <- MCListings
PROPERTY ConfirmedEachTime
CHECK_DEADLOCK FALSE
