SPECIFICATION Spec
CONSTANTS
    Machines <- MCMachines
    Alphabet <- MCAlphabet
    Local <- MCLocal
    Hosts = {"hA"}
    Size <- MCSize
    Devices <- OneDevice
    Counts <- MCCounts
    Presses = 1
    MaxReplaced = 1
    BootIds = {0, 256, 257}
    FirstFreeId = 256
    Listings <- MCListings
INVARIANTS
    ProgressIsTrue
    NoPowerOffWhileWriting
    BootMenuIsSound
PROPERTIES
    LoginSettles
    WriteSettles
CHECK_DEADLOCK FALSE
