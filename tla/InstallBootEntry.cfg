SPECIFICATION Spec
CONSTANTS
    EntrySectors = 1
    Slack = 1
    MaxEntries = 6
    Align = 4
    EspSectors = 4
    BootIds = {7, 256, 257}
    Listings <- MCListings
    FirstFreeId = 256
    Images <- MCImages
    DiskLasts <- MCDiskLasts
    MaxFaults = 1
    MaxDeploys = 2
    LibraryImages <- MCLibrary
    MaxErrors = 1
    MaxInstalls = 2
    MaxCommands = 1
INVARIANTS
    NextBootFindsLoader
CHECK_DEADLOCK FALSE
