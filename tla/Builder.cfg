SPECIFICATION Spec
CONSTANTS
    Configs <- MCConfigs
    Patience = 1
    MaxTries = 2
    MaxRuns = 3
    MaxFaults = 2
INVARIANTS
    BuildIsSound
PROPERTIES
    InstallsOnBlankDisk
    ExitIsNoticed
    FrozenGuestIsGivenUp
CHECK_DEADLOCK FALSE
